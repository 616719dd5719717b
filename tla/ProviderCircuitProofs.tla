----------------------- MODULE ProviderCircuitProofs -----------------------
(***************************************************************************)
(* The breaker's counters and the test permit, for any number of calls,    *)
(* any threshold, timeout and number of tests.                             *)
(***************************************************************************)
EXTENDS ProviderCircuit, TLAPS

(* The fields stay of their types, and no more tests are let through than  *)
(* half_open_max_calls allows.                                             *)
THEOREM CircuitTypeCorrect == Spec => []TypeOK
<1> USE CircuitAssumption DEF TypeOK, Modes
<1>1. Init => TypeOK
  BY DEF Init
<1>2. TypeOK /\ [Next]_vars => TypeOK'
  <2> SUFFICES ASSUME TypeOK, [Next]_vars PROVE TypeOK'
    OBVIOUS
  <2> USE DEF ModeNow, TestsNow, Recovered
  <2>1. ASSUME NEW c \in Calls, Allow(c) PROVE TypeOK'
    BY <2>1 DEF Allow, breaker
  <2>2. ASSUME NEW c \in Calls, AllowTest(c) PROVE TypeOK'
    BY <2>2 DEF AllowTest
  <2>3. ASSUME NEW c \in Calls, Succeed(c) PROVE TypeOK'
    BY <2>3 DEF Succeed
  <2>4. ASSUME NEW c \in Calls, Fail(c) PROVE TypeOK'
    BY <2>4 DEF Fail, CountedFailures
  <2>5. ASSUME NEW c \in Calls, LeaveUnrecorded(c) PROVE TypeOK'
    BY <2>5 DEF LeaveUnrecorded
  <2>6. CASE Look
    BY <2>6 DEF Look
  <2>7. CASE Elapse
    BY <2>7 DEF Elapse
  <2>8. CASE UNCHANGED vars
    BY <2>8 DEF vars, breaker
  <2> QED
    BY <2>1, <2>2, <2>3, <2>4, <2>5, <2>6, <2>7, <2>8 DEF Next, Return
<1> QED
  BY <1>1, <1>2, PTL DEF Spec

(* record_failure and record_success, in whatever order they are reported, *)
(* keep the stored state and the failure count in step: the circuit is     *)
(* closed exactly while the count is below the threshold.                  *)
THEOREM ClosedOnlyBelowThreshold == Spec => []ClosedBelowThreshold
<1> USE CircuitAssumption DEF ClosedBelowThreshold
<1>1. Init => ClosedBelowThreshold
  BY DEF Init
<1>2. TypeOK /\ ClosedBelowThreshold /\ [Next]_vars => ClosedBelowThreshold'
  <2> SUFFICES ASSUME TypeOK, ClosedBelowThreshold, [Next]_vars
               PROVE  ClosedBelowThreshold'
    OBVIOUS
  <2> USE DEF ModeNow, Recovered
  <2>1. ASSUME NEW c \in Calls, Allow(c) PROVE ClosedBelowThreshold'
    BY <2>1 DEF Allow, breaker
  <2>2. ASSUME NEW c \in Calls, AllowTest(c) PROVE ClosedBelowThreshold'
    BY <2>2 DEF AllowTest
  <2>3. ASSUME NEW c \in Calls, Succeed(c) PROVE ClosedBelowThreshold'
    BY <2>3 DEF Succeed
  <2>4. ASSUME NEW c \in Calls, Fail(c) PROVE ClosedBelowThreshold'
    BY <2>4 DEF Fail, CountedFailures, TypeOK
  <2>5. ASSUME NEW c \in Calls, LeaveUnrecorded(c) PROVE ClosedBelowThreshold'
    BY <2>5 DEF LeaveUnrecorded
  <2>6. CASE Look
    BY <2>6 DEF Look
  <2>7. CASE Elapse
    BY <2>7 DEF Elapse
  <2>8. CASE UNCHANGED vars
    BY <2>8 DEF vars, breaker
  <2> QED
    BY <2>1, <2>2, <2>3, <2>4, <2>5, <2>6, <2>7, <2>8 DEF Next, Return
<1> QED
  BY <1>1, <1>2, CircuitTypeCorrect, PTL DEF Spec

(* As long as no test goes through execute_stream_request, a half-open     *)
(* circuit that has given a permission away has a test in flight.  The     *)
(* tests given since the circuit turned half-open are still out, because   *)
(* any report ends that state; a stream may end without one.               *)
THEOREM TestsAreInFlight == Spec => TestsReported
<1> USE CircuitAssumption DEF TestInFlight
<1>1. Init => TestInFlight
  BY DEF Init
<1>2. TypeOK /\ NoTestStreamed /\ TestInFlight /\ [Next]_vars => TestInFlight'
  <2> SUFFICES ASSUME TypeOK, NoTestStreamed, TestInFlight, [Next]_vars
               PROVE  TestInFlight'
    OBVIOUS
  <2> USE DEF ModeNow, TestsNow, Recovered
  <2>1. ASSUME NEW c \in Calls, Allow(c) PROVE TestInFlight'
    BY <2>1 DEF Allow, breaker
  <2>2. ASSUME NEW c \in Calls, AllowTest(c) PROVE TestInFlight'
    BY <2>2 DEF AllowTest, TypeOK
  <2>3. ASSUME NEW c \in Calls, Succeed(c) PROVE TestInFlight'
    BY <2>3 DEF Succeed
  <2>4. ASSUME NEW c \in Calls, Fail(c) PROVE TestInFlight'
    BY <2>4 DEF Fail
  <2>5. ASSUME NEW c \in Calls, LeaveUnrecorded(c) PROVE TestInFlight'
    BY <2>5 DEF LeaveUnrecorded, NoTestStreamed, TypeOK
  <2>6. CASE Look
    BY <2>6 DEF Look
  <2>7. CASE Elapse
    BY <2>7 DEF Elapse
  <2>8. CASE UNCHANGED vars
    BY <2>8 DEF vars, breaker
  <2> QED
    BY <2>1, <2>2, <2>3, <2>4, <2>5, <2>6, <2>7, <2>8 DEF Next, Return
<1> QED
  BY <1>1, <1>2, CircuitTypeCorrect, PTL DEF Spec, TestsReported
=============================================================================

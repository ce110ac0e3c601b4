------------------------ MODULE CircuitBreakerProofs ------------------------
(***************************************************************************)
(* Theorems about CircuitBreaker, for any number of callers, any           *)
(* thresholds and any number of attempts.                                  *)
(***************************************************************************)
EXTENDS CircuitBreaker, TLAPS

USE ThresholdAssumption, AttemptAssumption, CapAssumption

\* A saturated count stays in its range, grows, and keeps the order.
LEMMA CountBounds ==
    ASSUME NEW n \in 0..CountCap
    PROVE  /\ Count(n) \in 0..CountCap
           /\ n <= Count(n)
           /\ \A m \in 0..n : Count(m) <= Count(n)
           /\ \A m \in 0..n : m < CountCap => m + 1 <= Count(n)
BY DEF Count

\* The inductive step of TypeOK.
LEMMA TypeStep == TypeOK /\ [Next]_vars => TypeOK'
<1> SUFFICES ASSUME TypeOK, [Next]_vars PROVE TypeOK'
  OBVIOUS
<1> USE DEF TypeOK, breaker, history
<1>h. ASSUME HalfOpen
      PROVE  state' = "HALF_OPEN" /\ successCount' = 0 /\ UNCHANGED <<failureCount, lastFailure>>
  BY <1>h DEF HalfOpen
<1>1. ASSUME NEW c \in Callers, CallStep(c) PROVE TypeOK'
  <2>1. CASE Admit(c)
    <3>1. /\ state' \in {"CLOSED", "OPEN", "HALF_OPEN"}
          /\ successCount' \in 0..SuccessThreshold - 1
          /\ UNCHANGED <<failureCount, lastFailure, trouble, failStreak, okStreak>>
      BY <1>h, <2>1 DEF Admit
    <3>2. call' = [call EXCEPT ![c] = [pc |-> "request", attempt |-> 1, admitted |-> state']]
      BY <2>1 DEF Admit
    <3> QED
      BY <3>1, <3>2
  <2>2. CASE Succeed(c)
    <3>1. /\ state' \in {"CLOSED", "OPEN", "HALF_OPEN"}
          /\ failureCount' \in 0..CountCap
          /\ lastFailure' \in {"none", "recent", "cooled"}
      BY <2>2 DEF Succeed, OnSuccess, CountWhenClosed
    <3>2. successCount' \in 0..SuccessThreshold - 1
      BY <2>2 DEF Succeed, OnSuccess, Closes
    <3>3. call' = [call EXCEPT ![c] = Idle] /\ UNCHANGED trouble
          /\ failStreak' = 0 /\ okStreak' = Count(okStreak)
      BY <2>2 DEF Succeed
    <3> QED
      BY <3>1, <3>2, <3>3, CountBounds DEF Idle
  <2>3. CASE BackOff(c)
    BY <2>3 DEF BackOff
  <2>4. CASE Retry(c)
    BY <2>4 DEF Retry
  <2>5. CASE Fail(c)
    <3>1. /\ state' \in {"CLOSED", "OPEN", "HALF_OPEN"}
          /\ lastFailure' \in {"none", "recent", "cooled"}
          /\ successCount' \in 0..SuccessThreshold - 1
          /\ failureCount' = Count(failureCount)
      BY <2>5 DEF Fail, OnFailure
    <3>2. call' = [call EXCEPT ![c] = Idle] /\ UNCHANGED trouble
          /\ failStreak' = Count(failStreak) /\ okStreak' = 0
      BY <2>5 DEF Fail
    <3> QED
      BY <3>1, <3>2, CountBounds DEF Idle
  <2> QED
    BY <1>1, <2>1, <2>2, <2>3, <2>4, <2>5 DEF CallStep
<1>2. CASE GetState
  BY <1>2, <1>h DEF GetState
<1>3. CASE Reset
  BY <1>3 DEF Reset, StateAfterReset
<1>4. CASE Cool
  BY <1>4 DEF Cool
<1>5. CASE Weather
  BY <1>5 DEF Weather
<1>6. CASE UNCHANGED vars
  BY <1>6 DEF vars
<1> QED
  BY <1>1, <1>2, <1>3, <1>4, <1>5, <1>6 DEF Next

\* The breaker and its calls keep their types.
THEOREM TypeCorrect == Spec => []TypeOK
<1>1. Init => TypeOK
  <2>1. Idle \in [pc : {"idle", "request", "backoff"}, attempt : 0..MaxAttempts,
                  admitted : {"CLOSED", "OPEN", "HALF_OPEN"}]
    BY DEF Idle
  <2>2. Idle.pc # "backoff"
    BY DEF Idle
  <2>3. ASSUME Init
        PROVE  /\ call \in [Callers -> [pc : {"idle", "request", "backoff"},
                                       attempt : 0..MaxAttempts,
                                       admitted : {"CLOSED", "OPEN", "HALF_OPEN"}]]
               /\ \A c \in Callers : call[c].pc # "backoff"
    BY <2>1, <2>2, <2>3 DEF Init
  <2>4. ASSUME Init
        PROVE  /\ failureCount \in 0..CountCap /\ successCount \in 0..SuccessThreshold - 1
               /\ failStreak \in 0..CountCap /\ okStreak \in 0..CountCap
    BY <2>4 DEF Init
  <2> QED
    BY <2>3, <2>4 DEF Init, TypeOK
<1> QED
  BY <1>1, TypeStep, PTL DEF Spec

\* The inductive step of BreakerInv.
LEMMA BreakerStep == TypeOK /\ BreakerInv /\ [Next]_vars => BreakerInv'
<1> SUFFICES ASSUME TypeOK, BreakerInv, [Next]_vars PROVE BreakerInv'
  OBVIOUS
<1> USE DEF BreakerInv, NeverStuckOpen
<1>t. /\ failureCount \in 0..CountCap /\ failStreak \in 0..CountCap
      /\ okStreak \in 0..CountCap /\ successCount \in 0..SuccessThreshold - 1
  BY DEF TypeOK
<1>u. ASSUME UNCHANGED <<breaker, history>> PROVE BreakerInv'
  <2>1. UNCHANGED <<state, failureCount, successCount, lastFailure, failStreak, okStreak>>
    BY <1>u DEF breaker, history
  <2> QED
    BY <2>1
<1>h. ASSUME HalfOpen, UNCHANGED history PROVE BreakerInv'
  <2>1. /\ state' = "HALF_OPEN" /\ successCount' = 0
        /\ UNCHANGED <<okStreak, failStreak>>
    BY <1>h DEF HalfOpen, history
  <2> QED
    BY <1>t, <2>1
<1>1. ASSUME NEW c \in Callers, CallStep(c) PROVE BreakerInv'
  <2>1. CASE Admit(c)
    BY <2>1, <1>u, <1>h DEF Admit, history
  <2>2. CASE Succeed(c)
    <3>1. OnSuccess /\ failStreak' = 0 /\ okStreak' = Count(okStreak)
      BY <2>2 DEF Succeed
    <3>2. successCount + 1 <= okStreak' /\ successCount <= okStreak'
      BY <1>t, <3>1 DEF Count
    <3>3. CASE state = "HALF_OPEN" /\ Closes
      BY <1>t, <3>1, <3>3 DEF OnSuccess, CountWhenClosed, Count
    <3>4. CASE state = "HALF_OPEN" /\ ~Closes
      BY <1>t, <3>1, <3>2, <3>4 DEF OnSuccess
    <3>5. CASE state # "HALF_OPEN"
      BY <1>t, <3>1, <3>2, <3>5 DEF OnSuccess
    <3> QED
      BY <3>3, <3>4, <3>5
  <2>3. CASE BackOff(c) \/ Retry(c)
    BY <2>3, <1>u DEF BackOff, Retry
  <2>4. CASE Fail(c)
    <3>1. OnFailure /\ failStreak' = Count(failStreak) /\ okStreak' = 0
      BY <2>4 DEF Fail
    <3>2. failureCount' = Count(failureCount) /\ lastFailure' = "recent"
      BY <3>1 DEF OnFailure
    <3>3. CASE state = "HALF_OPEN"
      BY <3>1, <3>2, <3>3 DEF OnFailure
    <3>4. CASE state # "HALF_OPEN"
      <4>1. successCount' = 0
        BY <1>t, <3>1, <3>4 DEF OnFailure
      <4>2. state' = "CLOSED" => state = "CLOSED" /\ failureCount' < FailureThreshold
        BY <1>t, <3>1, <3>2, <3>4, CountBounds DEF OnFailure
      <4>3. failureCount <= failStreak => failureCount' <= failStreak'
        BY <1>t, <3>1, <3>2 DEF Count
      <4> QED
        BY <3>1, <3>2, <4>1, <4>2, <4>3
    <3> QED
      BY <3>3, <3>4
  <2> QED
    BY <1>1, <2>1, <2>2, <2>3, <2>4 DEF CallStep
<1>2. CASE GetState
  BY <1>2, <1>h DEF GetState
<1>3. CASE Reset
  BY <1>3 DEF Reset, StateAfterReset
<1>4. CASE Cool
  BY <1>4, <1>t DEF Cool, history
<1>5. CASE Weather
  BY <1>5, <1>u DEF Weather
<1>6. CASE UNCHANGED vars
  BY <1>6, <1>u DEF vars, breaker, history
<1> QED
  BY <1>1, <1>2, <1>3, <1>4, <1>5, <1>6 DEF Next

\* The invariant holds of the specification.
LEMMA BreakerInvariant == Spec => [](TypeOK /\ BreakerInv)
<1>1. Init => BreakerInv
  BY DEF Init, BreakerInv, NeverStuckOpen
<1> QED
  BY <1>1, BreakerStep, TypeCorrect, PTL DEF Spec

\* An open circuit can always cool down.
THEOREM NeverStuck == Spec => []NeverStuckOpen
BY BreakerInvariant, PTL DEF BreakerInv

\* The circuit opens only on a streak of failed calls.
THEOREM OpensOnlyOnStreak == Spec => OpensOnStreak
<1>1. TypeOK /\ BreakerInv /\ [Next]_vars =>
        [state = "CLOSED" /\ state' = "OPEN" => failStreak' >= FailureThreshold]_vars
  <2> SUFFICES ASSUME TypeOK, BreakerInv, Next, state = "CLOSED", state' = "OPEN"
               PROVE  failStreak' >= FailureThreshold
    BY DEF vars
  <2>1. PICK c \in Callers : Fail(c)
    BY DEF Next, CallStep, Admit, Succeed, OnSuccess, BackOff, Retry, GetState, HalfOpen,
           Reset, StateAfterReset, Cool, Weather, breaker
  <2>2. /\ failureCount' >= FailureThreshold
        /\ failureCount' = Count(failureCount) /\ failStreak' = Count(failStreak)
    BY <2>1 DEF Fail, OnFailure
  <2>3. /\ failureCount \in 0..CountCap /\ failStreak \in 0..CountCap
        /\ failureCount <= failStreak
    BY DEF TypeOK, BreakerInv
  <2> QED
    BY <2>2, <2>3 DEF Count
<1> QED
  BY <1>1, BreakerInvariant, PTL DEF Spec, OpensOnStreak

\* The circuit recloses only on successes in a row, or by hand.
THEOREM ClosesOnlyOnSuccesses == Spec => ClosesOnSuccesses
<1>1. TypeOK /\ BreakerInv /\ [Next]_vars =>
        [state = "HALF_OPEN" /\ state' = "CLOSED" =>
           okStreak' >= SuccessThreshold \/ (failStreak' = 0 /\ okStreak' = 0)]_vars
  <2> SUFFICES ASSUME TypeOK, BreakerInv, Next, state = "HALF_OPEN", state' = "CLOSED"
               PROVE  okStreak' >= SuccessThreshold \/ (failStreak' = 0 /\ okStreak' = 0)
    BY DEF vars
  <2>1. Reset \/ \E c \in Callers : Succeed(c)
    BY DEF Next, CallStep, Admit, Fail, OnFailure, BackOff, Retry, GetState, HalfOpen,
           Cool, Weather, breaker
  <2>2. ASSUME NEW c \in Callers, Succeed(c) PROVE okStreak' >= SuccessThreshold
    <3>1. successCount + 1 >= SuccessThreshold /\ okStreak' = Count(okStreak)
      BY <2>2 DEF Succeed, OnSuccess, Closes
    <3>2. /\ okStreak \in 0..CountCap /\ successCount \in 0..SuccessThreshold - 1
          /\ successCount <= okStreak
      BY DEF TypeOK, BreakerInv
    <3> QED
      BY <3>1, <3>2 DEF Count
  <2> QED
    BY <2>1, <2>2 DEF Reset
<1> QED
  BY <1>1, BreakerInvariant, PTL DEF Spec, ClosesOnSuccesses
=============================================================================

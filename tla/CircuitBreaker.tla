--------------------------- MODULE CircuitBreaker ---------------------------
(***************************************************************************)
(* The circuit breaker around Horizon calls                                *)
(* (packages/indexer/src/circuit-breaker/CircuitBreaker.ts, and its copy   *)
(* packages/api/src/services/circuit-breaker.ts), with the calls that run  *)
(* through it: StellarService.executeWithRetry retries inside the breaker, *)
(* so one call of the breaker is up to MaxAttempts requests, and any       *)
(* number of calls are in flight when the breaker changes its state.       *)
(*                                                                         *)
(* The time since lastFailureTime matters only against cooldownMs.         *)
(***************************************************************************)
EXTENDS Integers, FiniteSets

CONSTANTS
    Callers,            \* concurrent users of the service
    FailureThreshold, SuccessThreshold,
    MaxAttempts,        \* HORIZON_RETRY_MAX, the first request included
    CountCap            \* bound: where failureCount saturates in the model

ASSUME ThresholdAssumption == FailureThreshold \in Nat \ {0} /\ SuccessThreshold \in Nat \ {0}
ASSUME AttemptAssumption == MaxAttempts \in Nat \ {0}
ASSUME CapAssumption ==
    CountCap \in Nat /\ CountCap >= FailureThreshold /\ CountCap >= SuccessThreshold

VARIABLES
    state, failureCount, successCount,
    lastFailure,        \* none (null), recent, or cooled: cooldownMs ago or longer
    call,               \* per caller: idle, request or backoff
    trouble,            \* environment: requests may fail
    failStreak,         \* history: failed calls since the last successful one
    okStreak            \* history: successful calls since the last failed one

breaker == <<state, failureCount, successCount, lastFailure>>
history == <<failStreak, okStreak>>
vars == <<state, failureCount, successCount, lastFailure, call, trouble, failStreak, okStreak>>

Idle == [pc |-> "idle", attempt |-> 0, admitted |-> "CLOSED"]

\* A count is compared with a threshold and reported; the model stops it at
\* CountCap.
Count(n) == IF n < CountCap THEN n + 1 ELSE n

Init ==
    /\ state = "CLOSED" /\ failureCount = 0 /\ successCount = 0
    /\ lastFailure = "none"
    /\ call = [c \in Callers |-> Idle]
    /\ trouble = FALSE
    /\ failStreak = 0 /\ okStreak = 0

-----------------------------------------------------------------------------
(* The breaker *)

\* transitionIfNeeded
CooledDown == state = "OPEN" /\ lastFailure = "cooled"

HalfOpen ==
    /\ CooledDown
    /\ state' = "HALF_OPEN" /\ successCount' = 0
    /\ UNCHANGED <<failureCount, lastFailure>>

\* Mutants: one success too few, or one too many, closes; closing keeps the
\* failure count; a reset clears the time and the counts and leaves the circuit
\* as it is.
ClosesEarly == successCount + 2 >= SuccessThreshold
ClosesLate == successCount >= SuccessThreshold
KeepsCount == failureCount
ResetKeepsState == state

Closes == successCount + 1 >= SuccessThreshold
CountWhenClosed == 0

OnSuccess ==
    \/ /\ state = "HALF_OPEN" /\ Closes
       /\ state' = "CLOSED" /\ failureCount' = CountWhenClosed /\ successCount' = 0
       /\ lastFailure' = "none"
    \/ /\ state = "HALF_OPEN" /\ ~Closes
       /\ successCount' = successCount + 1
       /\ UNCHANGED <<state, failureCount, lastFailure>>
    \/ /\ state # "HALF_OPEN"
       /\ failureCount' = 0
       /\ UNCHANGED <<state, successCount, lastFailure>>

OnFailure ==
    /\ failureCount' = Count(failureCount)
    /\ lastFailure' = "recent"
    /\ IF state = "HALF_OPEN"
       THEN state' = "OPEN" /\ successCount' = 0
       ELSE /\ state' = IF failureCount' >= FailureThreshold THEN "OPEN" ELSE state
            /\ UNCHANGED successCount

-----------------------------------------------------------------------------
(* Calls *)

\* execute: the breaker lets the call through
Admit(c) ==
    /\ call[c].pc = "idle" /\ (state # "OPEN" \/ CooledDown)
    /\ HalfOpen \/ (~CooledDown /\ UNCHANGED breaker)
    /\ call' = [call EXCEPT ![c] = [pc |-> "request", attempt |-> 1, admitted |-> state']]
    /\ UNCHANGED <<trouble, history>>

\* The request is answered and fn() resolves.
Succeed(c) ==
    /\ call[c].pc = "request"
    /\ OnSuccess
    /\ call' = [call EXCEPT ![c] = Idle]
    /\ failStreak' = 0 /\ okStreak' = Count(okStreak)
    /\ UNCHANGED trouble

\* A transient error with attempts left: wait and try again, whatever the
\* breaker has become meanwhile.
BackOff(c) ==
    /\ call[c].pc = "request" /\ trouble
    /\ call[c].attempt < MaxAttempts
    /\ call' = [call EXCEPT ![c].pc = "backoff"]
    /\ UNCHANGED <<breaker, trouble, history>>

Retry(c) ==
    /\ call[c].pc = "backoff"
    /\ call' = [call EXCEPT ![c].pc = "request", ![c].attempt = @ + 1]
    /\ UNCHANGED <<breaker, trouble, history>>

\* A permanent error on any attempt, or a transient one on the last: fn()
\* rejects.
Fail(c) ==
    /\ call[c].pc = "request" /\ trouble
    /\ OnFailure
    /\ call' = [call EXCEPT ![c] = Idle]
    /\ failStreak' = Count(failStreak) /\ okStreak' = 0
    /\ UNCHANGED trouble

CallStep(c) == Admit(c) \/ Succeed(c) \/ BackOff(c) \/ Retry(c) \/ Fail(c)

-----------------------------------------------------------------------------
(* Around the calls *)

\* getState and getStats, from a health or metrics endpoint
GetState == HalfOpen /\ UNCHANGED <<call, trouble, history>>

StateAfterReset == "CLOSED"

\* The administrator resets the breaker; calls stay in flight.
Reset ==
    /\ state' = StateAfterReset /\ failureCount' = 0 /\ successCount' = 0
    /\ lastFailure' = "none"
    /\ failStreak' = 0 /\ okStreak' = 0
    /\ UNCHANGED <<call, trouble>>

\* cooldownMs passes after the last failure.
Cool ==
    /\ lastFailure = "recent" /\ lastFailure' = "cooled"
    /\ UNCHANGED <<state, failureCount, successCount, call, trouble, history>>

\* Horizon starts or stops failing.
Weather ==
    /\ trouble' = ~trouble
    /\ UNCHANGED <<breaker, call, history>>

Next == (\E c \in Callers : CallStep(c)) \/ GetState \/ Reset \/ Cool \/ Weather

\* The poll and backfill timers keep calling, requests and backoff timers come
\* to an end, and time passes.
Fairness == WF_vars(Cool) /\ \A c \in Callers : WF_vars(CallStep(c))

Spec == Init /\ [][Next]_vars /\ Fairness

-----------------------------------------------------------------------------
(* Properties *)

\* Type correctness of the breaker's fields, the calls and the history.
TypeOK ==
    /\ state \in {"CLOSED", "OPEN", "HALF_OPEN"}
    /\ failureCount \in 0..CountCap /\ successCount \in 0..SuccessThreshold - 1
    /\ lastFailure \in {"none", "recent", "cooled"}
    /\ call \in [Callers -> [pc : {"idle", "request", "backoff"},
                             attempt : 0..MaxAttempts,
                             admitted : {"CLOSED", "OPEN", "HALF_OPEN"}]]
    /\ \A c \in Callers : call[c].pc = "backoff" => call[c].attempt < MaxAttempts
    /\ trouble \in BOOLEAN
    /\ failStreak \in 0..CountCap /\ okStreak \in 0..CountCap

\* An open circuit always has a failure time to cool down from: without it
\* transitionIfNeeded would keep it open for good.  Late results of calls that
\* were in flight when the circuit closed or was reset never bring that about.
NeverStuckOpen == state = "OPEN" => lastFailure # "none"

\* The circuit opens only when the last failureThreshold calls that ended have
\* all failed, or on a failed probe (CircuitBreaker.ts:20): successes and
\* failures of calls from before an outage leave no count behind.
OpensOnStreak ==
    [][state = "CLOSED" /\ state' = "OPEN" => failStreak' >= FailureThreshold]_vars

\* The circuit recloses only after successThreshold successes in a row
\* (CircuitBreaker.ts:24), unless it is reset by hand.
ClosesOnSuccesses ==
    [][state = "HALF_OPEN" /\ state' = "CLOSED" =>
         okStreak' >= SuccessThreshold \/ (failStreak' = 0 /\ okStreak' = 0)]_vars

\* When Horizon stops failing for good, the circuit closes for good.
Recovers == <>[]~trouble => <>[](state = "CLOSED")

-----------------------------------------------------------------------------
(* Inductive invariant *)

\* The counts of the breaker are backed by results that were seen in a row.
BreakerInv ==
    /\ NeverStuckOpen
    /\ state = "CLOSED" => failureCount < FailureThreshold /\ failureCount <= failStreak
    /\ successCount <= okStreak
    /\ successCount > 0 => state = "HALF_OPEN"

-----------------------------------------------------------------------------
(* What the documentation says and the code does not do *)

\* CircuitBreaker.ts:9: HALF_OPEN, cooldown elapsed; one probe call is allowed
\* through.
OneProbe ==
    state = "HALF_OPEN" =>
        Cardinality({c \in Callers : call[c].pc # "idle" /\ call[c].admitted = "HALF_OPEN"}) <= 1
=============================================================================

------------------------ MODULE HorizonRateLimiter ------------------------
(***************************************************************************)
(* The limiter in front of Horizon in the legacy indexer                   *)
(* (packages/indexer/src/rate-limiter/RateLimiter.ts): the times of the    *)
(* requests let through in the last window, and callers that wait for the  *)
(* oldest of them to leave it.  Time is counted by age: Tick makes every   *)
(* request one tick older, and a waiting caller's timer one tick shorter.  *)
(* The list of times is kept as the number of requests younger than each   *)
(* age, so one of age a lies between requests[a] and requests[a + 1].      *)
(***************************************************************************)
EXTENDS Integers, FiniteSets, FiniteSetsExt

CONSTANTS
    Consumers,     \* calls of consume under way
    MaxRequests,
    WindowMs       \* in ticks

VARIABLES
    requests,      \* how many requests are younger than each age
    timer          \* what is left of a caller's wait; -1 when it does not wait

limiterVars == <<requests, timer>>

-----------------------------------------------------------------------------

Ages == 0..WindowMs - 1
NoWait == -1

InWindow == requests[WindowMs]
OfAge(a) == requests[a + 1] - requests[a]
Oldest == Max({a \in Ages : OfAge(a) > 0})

Init ==
    /\ requests = [a \in 0..WindowMs |-> 0]
    /\ timer = [c \in Consumers |-> NoWait]

\* requests.push(Date.now()), and consume resolves
Pass(c) ==
    /\ requests' = [a \in 0..WindowMs |-> IF a = 0 THEN 0 ELSE requests[a] + 1]
    /\ timer' = [timer EXCEPT ![c] = NoWait]

\* consume, called or calling itself again: no await from filter to push.
Consume(c) ==
    IF InWindow >= MaxRequests
    THEN /\ timer' = [timer EXCEPT ![c] = WindowMs - Oldest]
         /\ UNCHANGED requests
    ELSE Pass(c)

Call(c) ==
    /\ timer[c] = NoWait
    /\ Consume(c)

\* Mutant: who has waited goes ahead without looking again.
WakeAndPass(c) ==
    /\ timer[c] = 0
    /\ Pass(c)

\* The timer fires, at once or late.
Wake(c) ==
    /\ timer[c] = 0
    /\ Consume(c)

Tick ==
    /\ requests' = [a \in 0..WindowMs |-> IF a = 0 THEN 0 ELSE requests[a - 1]]
    /\ timer' = [c \in Consumers |-> IF timer[c] > 0 THEN timer[c] - 1 ELSE timer[c]]

Next == Tick \/ \E c \in Consumers : Call(c) \/ Wake(c)

Spec == Init /\ [][Next]_limiterVars

-----------------------------------------------------------------------------

TypeOK ==
    /\ requests \in [0..WindowMs -> Nat]
    /\ timer \in [Consumers -> -1..WindowMs]

(***************************************************************************)
(* Callers that have waited for the same request do not overrun the limit  *)
(* together: in no stretch as long as the window are more than MaxRequests *)
(* let through.  And nobody sleeps past the moment a slot becomes free: a  *)
(* timer still running means that requests of the last window hold it up.  *)
(***************************************************************************)
SlidingBudget ==
    /\ InWindow <= MaxRequests
    /\ \A c \in Consumers : timer[c] > 0 =>
          \E a \in Ages : OfAge(a) > 0 /\ WindowMs - a = timer[c]

=============================================================================

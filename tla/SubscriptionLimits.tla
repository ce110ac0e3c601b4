------------------------- MODULE SubscriptionLimits -------------------------
(***************************************************************************)
(* The limits on subscriptions of the API (packages/api/src/pubsub.ts),    *)
(* as its socket server asks for them (packages/api/src/index.ts): a       *)
(* connection counts against one limit, a subscription against the other.  *)
(*                                                                         *)
(* The server looks for the address where graphql-ws does not put it, so   *)
(* all clients count under the one key 'unknown': one record of each limit *)
(* is modelled.  left is what remains of a window; a window of w ms is     *)
(* over from its (w + 1)th on, so the constants stand for w + 1.           *)
(***************************************************************************)
EXTENDS Integers

CONSTANTS
    Limits,        \* "subscription" and "event"
    MaxOf,         \* MAX_SUBSCRIPTIONS_PER_IP, MAX_EVENTS_PER_SECOND
    WindowOf,      \* RATE_LIMIT_WINDOW_MS, 1000, in ticks
    MaxOpen        \* connections at a time (bound)

VARIABLES
    limit,         \* the record of each limit
    open,          \* connections let in, which may subscribe
    \* history
    allowed        \* by limit and n: requests allowed in the last n ticks

subscriptionVars == <<limit, open, allowed>>

-----------------------------------------------------------------------------

\* The stretches of time, up to now, in which requests are counted.
Spans(l) == 1..WindowOf[l]

\* No record; one whose window is over but which is still there has count > 0.
NoLimit == [count |-> 0, left |-> 0]

Init ==
    /\ limit = [l \in Limits |-> NoLimit]
    /\ open = 0
    /\ allowed = [l \in Limits |-> [n \in Spans(l) |-> 0]]

\* Mutant: one more request fits than the limit says.
MayPassOneMore(l) == limit[l].left = 0 \/ limit[l].count <= MaxOf[l]

\* checkSubscriptionRateLimit, checkEventRateLimit: whether a request is let in
MayPass(l) == limit[l].left = 0 \/ limit[l].count < MaxOf[l]

\* The record of limit l with one more request counted.
Counted(rec, l) ==
    IF rec.left = 0 THEN [count |-> 1, left |-> WindowOf[l]]
    ELSE [rec EXCEPT !.count = @ + 1]

\* The request of limit l is let in and counted.
Pass(l) ==
    /\ MayPass(l)
    /\ limit' = [limit EXCEPT ![l] = Counted(@, l)]
    /\ allowed' = [allowed EXCEPT ![l] = [n \in Spans(l) |-> @[n] + 1]]

\* onConnect, onSubscribe; a request that is not let in changes nothing.
ClientConnects ==
    /\ open < MaxOpen /\ Pass("subscription")
    /\ open' = open + 1
ClientSubscribes ==
    /\ open > 0 /\ Pass("event")
    /\ UNCHANGED open
ClientCloses ==
    /\ open > 0 /\ open' = open - 1
    /\ UNCHANGED <<limit, allowed>>

\* cleanupRateLimits, every minute
CleanUp ==
    /\ limit' = [l \in Limits |-> IF limit[l].left = 0 THEN NoLimit ELSE limit[l]]
    /\ UNCHANGED <<open, allowed>>

Tick ==
    /\ limit' = [l \in Limits |-> [limit[l] EXCEPT !.left = IF @ = 0 THEN 0 ELSE @ - 1]]
    /\ allowed' = [l \in Limits |-> [n \in Spans(l) |->
          IF n = 1 THEN 0 ELSE allowed[l][n - 1]]]
    /\ UNCHANGED open

Next == ClientConnects \/ ClientSubscribes \/ ClientCloses \/ CleanUp \/ Tick

Spec == Init /\ [][Next]_subscriptionVars

-----------------------------------------------------------------------------

TypeOK ==
    /\ \A l \in Limits : limit[l] \in [count : 0..MaxOf[l], left : 0..WindowOf[l]]
    /\ open \in 0..MaxOpen
    /\ \A l \in Limits : allowed[l] \in [Spans(l) -> Nat]

(***************************************************************************)
(* However requests, the passing of time and the clean-up interleave: no   *)
(* window lets in more than its limit, nor does any stretch as long let in *)
(* more than two.  The limit is that of all clients together.              *)
(***************************************************************************)
SubscriptionBudget ==
    \A l \in Limits :
        /\ allowed[l][WindowOf[l]] <= 2 * MaxOf[l]
        /\ limit[l].left > 0 =>
              allowed[l][WindowOf[l] - limit[l].left + 1] <= MaxOf[l]

=============================================================================

--------------------------- MODULE ApiRateLimit ---------------------------
(***************************************************************************)
(* The request budget of one client of the API (api/src/rateLimit.ts and   *)
(* the middleware of api/src/index.ts): fixed windows, counted in          *)
(* PostgreSQL for all replicas, and in a replica's own memory when the     *)
(* shared store fails.                                                     *)
(*                                                                         *)
(* Time is what is left of a window, counted down by Tick, and counts      *)
(* saturate past the budget.  A request asks the store in one step and is  *)
(* answered in another.                                                    *)
(***************************************************************************)
EXTENDS Integers

CONSTANTS
    Replicas,
    Requests,      \* requests of the client under way at a time
    ReplicaOf,     \* the replica that serves a request
    RateLimitMax,  \* RATE_LIMIT_MAX
    Window         \* RATE_LIMIT_WINDOW, in ticks

VARIABLES
    shared,        \* the row of api_rate_limits
    memory,        \* each replica's MemoryRateLimitStore
    request,       \* each request: where it is, its count, the store that counted
    \* history
    granted        \* by store and n: requests allowed in the last n ticks

limitVars == <<shared, memory, request, granted>>

-----------------------------------------------------------------------------

Stores == {"shared"} \union Replicas

\* The stretches of time, up to now, in which requests are counted.
Spans == 1..Window

\* count 0 is no record; left 0 is a window that is over.
NoRecord == [count |-> 0, left |-> 0]

Idle == [at |-> "idle", count |-> 0, store |-> "shared"]

Cap(n) == IF n <= RateLimitMax THEN n ELSE RateLimitMax + 1

\* One tick less of a window.
Elapsed(rec) == [rec EXCEPT !.left = IF @ = 0 THEN 0 ELSE @ - 1]

\* increment, of both stores: the upsert of PostgreSQL is one statement.
Incremented(rec) ==
    IF rec.left = 0 THEN [count |-> 1, left |-> Window]
    ELSE [rec EXCEPT !.count = Cap(@ + 1)]

\* Mutant: prune takes the windows that are still open as well.
PrunedEarly(rec) == NoRecord

\* prune
Pruned(rec) == IF rec.left = 0 THEN NoRecord ELSE rec

Ask(q, store, rec) ==
    request' = [request EXCEPT ![q] = [at |-> "counted", count |-> rec.count, store |-> store]]

\* A request is allowed from the moment it is counted within the budget.
Count(store, rec) ==
    granted' = IF rec.count > RateLimitMax THEN granted
               ELSE [granted EXCEPT ![store] = [n \in Spans |-> @[n] + 1]]

Init ==
    /\ shared = NoRecord
    /\ memory = [r \in Replicas |-> NoRecord]
    /\ request = [q \in Requests |-> Idle]
    /\ granted = [s \in Stores |-> [n \in Spans |-> 0]]

(* checkRateLimit with the shared store *)

Arrive(q) ==
    /\ request[q].at = "idle"
    /\ request' = [request EXCEPT ![q].at = "asking"]
    /\ UNCHANGED <<shared, memory, granted>>

CountShared(q) ==
    /\ request[q].at = "asking"
    /\ shared' = Incremented(shared)
    /\ Ask(q, "shared", shared')
    /\ Count("shared", shared')
    /\ UNCHANGED memory

\* The table cannot be created, or the upsert fails, before or after it
\* counted: the replica counts by itself.
FallBack(q) ==
    LET r == ReplicaOf[q] IN
    /\ request[q].at = "asking"
    /\ memory' = [memory EXCEPT ![r] = Incremented(@)]
    /\ Ask(q, r, memory'[r])
    /\ Count(r, memory'[r])
    /\ \/ shared' = Incremented(shared)
       \/ UNCHANGED shared

\* 429, or next()
Answer(q) ==
    /\ request[q].at = "counted"
    /\ request' = [request EXCEPT ![q] = Idle]
    /\ UNCHANGED <<shared, memory, granted>>

(* setInterval *)

PruneMemory(r) ==
    /\ memory' = [memory EXCEPT ![r] = Pruned(@)]
    /\ UNCHANGED <<shared, request, granted>>

PruneShared ==
    /\ shared' = Pruned(shared)
    /\ UNCHANGED <<memory, request, granted>>

Tick ==
    /\ shared' = Elapsed(shared)
    /\ memory' = [r \in Replicas |-> Elapsed(memory[r])]
    /\ granted' = [s \in Stores |-> [n \in Spans |->
          IF n = 1 THEN 0 ELSE granted[s][n - 1]]]
    /\ UNCHANGED request

Next ==
    \/ Tick \/ PruneShared
    \/ \E r \in Replicas : PruneMemory(r)
    \/ \E q \in Requests : Arrive(q) \/ CountShared(q) \/ FallBack(q) \/ Answer(q)

Spec == Init /\ [][Next]_limitVars

-----------------------------------------------------------------------------

Records == [count : 0..RateLimitMax + 1, left : 0..Window]

TypeOK ==
    /\ shared \in Records /\ memory \in [Replicas -> Records]
    /\ request \in [Requests -> [at : {"idle", "asking", "counted"},
                                 count : 0..RateLimitMax + 1, store : Stores]]
    /\ granted \in [Stores -> [Spans -> Nat]]

Record(s) == IF s = "shared" THEN shared ELSE memory[s]

(***************************************************************************)
(* However requests of all replicas, the fallback, pruning and the end of  *)
(* a window interleave: no store allows more than the budget within one    *)
(* of its windows, and, what two adjoining windows make possible, never    *)
(* more than twice the budget in any stretch as long as a window.  For all *)
(* replicas together that is 2 * (1 + replicas) budgets while the shared   *)
(* store comes and goes.                                                   *)
(***************************************************************************)
BudgetHolds ==
    \A s \in Stores :
        /\ granted[s][Window] <= 2 * RateLimitMax
        /\ Record(s).left > 0 =>
              granted[s][Window - Record(s).left + 1] <= RateLimitMax

=============================================================================

--------------------------- MODULE DatabasePool ---------------------------
(***************************************************************************)
(* The connection pool wrapper of the legacy indexer's configuration       *)
(* (packages/indexer/src/config/database.ts).  pg.Pool is external: it     *)
(* answers a connect() with a client or an error, at any time; end() is    *)
(* answered once every client is back, and a second end() is refused.      *)
(* recycle replaces the pool by a new generation of it: once the old one   *)
(* is empty, or at once if a shutdown was called before.                   *)
(***************************************************************************)
EXTENDS Integers, FiniteSets

CONSTANTS
    Callers,       \* of acquire and query
    HealthChecks,  \* performHealthCheck calls that may overlap
    PoolMax,
    MaxAttempts,   \* retry.maxAttempts
    Pools,         \* bound: generations, 1 and those recycle creates; a further
                   \* recycle waits
    MaxOrphans     \* bound: one more promise left behind is taken to fail

VARIABLES
    pool,          \* the generation in this.pool
    isShuttingDown,
    healthCheckTimer,
    ended,         \* end() of each generation: not called, asked, answered
    awaits,        \* the shutdown() begun on each: the generations whose end() it awaits
    recycling,     \* those begun by recycle
    client,        \* each call: where it is, its attempt, its pool's generation
    orphans,       \* connect() promises of callers that have timed out
    out,           \* clients checked out of each pool
    \* history
    late,          \* clients given to callers that had timed out
    abandoned      \* generations replaced by a recycle that did not await their end()

drainVars == <<ended, awaits, recycling, abandoned>>
poolVars ==
    <<pool, isShuttingDown, healthCheckTimer, drainVars, client, orphans, out, late>>

-----------------------------------------------------------------------------

Calls == Callers \union HealthChecks
Generations == 1..Pools

NoClient == [at |-> "idle", attempt |-> 0, gen |-> 1]

Connecting(attempt) == [at |-> "connecting", attempt |-> attempt, gen |-> pool]

Set(c, v) == client' = [client EXCEPT ![c] = v]

\* The pool is not over and has a client to give.
Free(g) ==
    /\ g <= pool /\ ended[g] # "answered"
    /\ out[g] < PoolMax

Init ==
    /\ pool = 1 /\ isShuttingDown = FALSE /\ healthCheckTimer = TRUE
    /\ ended = [g \in Generations |-> "no"]
    /\ awaits = [g \in Generations |-> {}]
    /\ recycling = {} /\ abandoned = {}
    /\ client = [c \in Calls |-> NoClient]
    /\ orphans = [g \in Generations |-> 0]
    /\ out = [g \in Generations |-> 0]
    /\ late = [g \in Generations |-> 0]

\* none of the pool's own fields
SamePool == UNCHANGED <<pool, isShuttingDown, healthCheckTimer, drainVars>>

\* acquire, the first statement of query; refused while shutting down
Acquire(c) ==
    /\ c \in Callers
    /\ client[c].at = "idle" /\ ~isShuttingDown
    /\ Set(c, Connecting(0))
    /\ SamePool /\ UNCHANGED <<orphans, out, late>>

\* setInterval and setImmediate; a check has no timeout and no retry
PerformHealthCheck(c) ==
    /\ c \in HealthChecks
    /\ client[c].at = "idle" /\ healthCheckTimer
    /\ Set(c, Connecting(0))
    /\ SamePool /\ UNCHANGED <<orphans, out, late>>

Connected(c) ==
    /\ client[c].at = "connecting"
    /\ Free(client[c].gen)
    /\ Set(c, [client[c] EXCEPT !.at = "holding"])
    /\ out' = [out EXCEPT ![client[c].gen] = @ + 1]
    /\ SamePool /\ UNCHANGED <<orphans, late>>

\* Mutant: the attempts are not counted.
RetryForever(c) == [client[c] EXCEPT !.at = "backoff"]

\* Mutant: one attempt more than configured.
OneMoreAttempt(c) ==
    IF client[c].attempt < MaxAttempts
    THEN [client[c] EXCEPT !.at = "backoff", !.attempt = @ + 1]
    ELSE NoClient

\* A refused connection is tried again until the attempts are used up.
AfterRefusal(c) ==
    IF c \in Callers /\ client[c].attempt < MaxAttempts - 1
    THEN [client[c] EXCEPT !.at = "backoff", !.attempt = @ + 1]
    ELSE NoClient

ConnectFails(c) ==
    /\ client[c].at = "connecting"
    /\ Set(c, AfterRefusal(c))
    /\ SamePool /\ UNCHANGED <<orphans, out, late>>

\* A promise more, as far as they are counted.
LeftBehind(n) == IF n < MaxOrphans THEN n + 1 ELSE n

\* connectWithTimeout rejects and is not retried; its connect() goes on.
AcquireTimesOut(c) ==
    /\ c \in Callers
    /\ client[c].at = "connecting"
    /\ orphans' = [orphans EXCEPT ![client[c].gen] = LeftBehind(@)]
    /\ Set(c, NoClient)
    /\ SamePool /\ UNCHANGED <<out, late>>

\* After the delay this.pool is read again, and isShuttingDown is not.
Retry(c) ==
    /\ client[c].at = "backoff"
    /\ Set(c, Connecting(client[c].attempt))
    /\ SamePool /\ UNCHANGED <<orphans, out, late>>

\* resolve() of a settled promise: nobody will release this client.
OrphanConnected(g) ==
    /\ orphans[g] > 0
    /\ Free(g)
    /\ orphans' = [orphans EXCEPT ![g] = @ - 1]
    /\ out' = [out EXCEPT ![g] = @ + 1]
    /\ late' = [late EXCEPT ![g] = @ + 1]
    /\ SamePool /\ UNCHANGED client

OrphanFails(g) ==
    /\ orphans[g] > 0
    /\ orphans' = [orphans EXCEPT ![g] = @ - 1]
    /\ SamePool /\ UNCHANGED <<client, out, late>>

\* The finally of query and performHealthCheck; who called acquire does the same.
Release(c) ==
    /\ client[c].at = "holding"
    /\ out' = [out EXCEPT ![client[c].gen] = @ - 1]
    /\ Set(c, NoClient)
    /\ SamePool /\ UNCHANGED <<orphans, late>>

\* shutdown(timeout), called by a user or by recycle.  It rejects if the pool
\* has been ended already, by the timeout of an earlier drain.
Shutdown ==
    /\ ~isShuttingDown
    /\ isShuttingDown' = TRUE
    /\ healthCheckTimer' = FALSE
    /\ \/ /\ ended[pool] = "no"
          /\ ended' = [ended EXCEPT ![pool] = "asked"]
          /\ awaits' = [awaits EXCEPT ![pool] = {pool}]
          /\ recycling' \in {recycling, recycling \union {pool}}
       \/ /\ ended[pool] # "no"
          /\ UNCHANGED <<ended, awaits, recycling>>
    /\ UNCHANGED <<pool, client, orphans, out, late, abandoned>>

\* createPool, startHealthCheck and the flag, in the same turn
NewPool ==
    /\ pool < Pools
    /\ pool' = pool + 1
    /\ healthCheckTimer' = TRUE
    /\ isShuttingDown' = FALSE

\* recycle while the flag is set: its shutdown() returns at once.
RecycleAtOnce ==
    /\ isShuttingDown
    /\ NewPool
    /\ abandoned' = IF ended[pool] = "answered" THEN abandoned ELSE abandoned \union {pool}
    /\ UNCHANGED <<ended, awaits, recycling, client, orphans, out, late>>

\* An end() that the shutdown() of g awaits is answered.  A recycle goes on to
\* replace the pool in use, which need not be the one that is over.
Drained(g) ==
    /\ \E p \in awaits[g] :
          /\ out[p] = 0
          /\ ended' = [ended EXCEPT ![p] = "answered"]
          /\ \/ g \in recycling /\ NewPool /\ abandoned' = abandoned \union ({pool} \ {p})
             \/ g \notin recycling
                /\ UNCHANGED <<pool, isShuttingDown, healthCheckTimer, abandoned>>
    /\ awaits' = [awaits EXCEPT ![g] = {}]
    /\ recycling' = recycling \ {g}
    /\ UNCHANGED <<client, orphans, out, late>>

\* Mutant: recycle goes on after the drain timeout.
RecycleAnyway(g) ==
    /\ awaits[g] = {g} /\ g \in recycling
    /\ NewPool
    /\ awaits' = [awaits EXCEPT ![g] = {}]
    /\ recycling' = recycling \ {g}
    /\ UNCHANGED <<ended, client, orphans, out, late, abandoned>>

\* forceTimeout calls end() of the pool in use.  That is refused if it was
\* called before: shutdown, and recycle with it, rejects, and the flag stays
\* set.  Otherwise recycle has put a new pool in place of g, and ends that.
DrainTimesOut(g) ==
    /\ awaits[g] = {g}
    /\ \/ /\ ended[pool] = "no"
          /\ ended' = [ended EXCEPT ![pool] = "asked"]
          /\ awaits' = [awaits EXCEPT ![g] = {g, pool}]
          /\ UNCHANGED recycling
       \/ /\ ended[pool] # "no"
          /\ awaits' = [awaits EXCEPT ![g] = {}]
          /\ recycling' = recycling \ {g}
          /\ UNCHANGED ended
    /\ UNCHANGED <<pool, isShuttingDown, healthCheckTimer, client, orphans, out, late, abandoned>>

Next ==
    \/ Shutdown \/ RecycleAtOnce
    \/ \E g \in Generations : Drained(g) \/ DrainTimesOut(g)
    \/ \E c \in Calls :
          \/ Acquire(c) \/ PerformHealthCheck(c) \/ Connected(c) \/ ConnectFails(c)
          \/ AcquireTimesOut(c) \/ Retry(c) \/ Release(c)
    \/ \E g \in Generations : OrphanConnected(g) \/ OrphanFails(g)

\* The timer an acquire waits for, of its attempt or between two, fires.
\* Nothing is assumed of the server or of who holds a client.
TimerFires(c) == AcquireTimesOut(c) \/ Retry(c)

Fairness == \A c \in Callers : WF_poolVars(TimerFires(c))

Spec == Init /\ [][Next]_poolVars /\ Fairness

-----------------------------------------------------------------------------

TypeOK ==
    /\ pool \in Generations
    /\ isShuttingDown \in BOOLEAN /\ healthCheckTimer \in BOOLEAN
    /\ ended \in [Generations -> {"no", "asked", "answered"}]
    /\ awaits \in [Generations -> SUBSET Generations]
    /\ recycling \subseteq Generations /\ abandoned \subseteq Generations
    /\ client \in [Calls -> [at : {"idle", "connecting", "backoff", "holding"},
                             attempt : 0..MaxAttempts - 1, gen : Generations]]
    /\ orphans \in [Generations -> 0..MaxOrphans]
    /\ out \in [Generations -> 0..PoolMax] /\ late \in [Generations -> 0..PoolMax]

Holding(g) == {c \in Calls : client[c].at = "holding" /\ client[c].gen = g}

(***************************************************************************)
(* Every client out of a pool is with a call that will release it, or was  *)
(* given to a caller after its timeout, and no pool gives more than        *)
(* PoolMax.  However timeouts, retries and recycling interleave, no client *)
(* is out of any pool but the one in use and those abandoned: by a recycle *)
(* called while a shutdown was under way or had timed out, or by one that  *)
(* awaited the end of a pool that another recycle had replaced.            *)
(***************************************************************************)
ClientsAccounted ==
    /\ \A g \in Generations : out[g] = Cardinality(Holding(g)) + late[g]
    /\ \A g \in Generations : out[g] <= PoolMax
    /\ \A g \in Generations \ (abandoned \union {pool}) : out[g] = 0

(***************************************************************************)
(* Every acquire ends, with a client or with an error, whatever the server *)
(* and the other callers do: by the timers and the attempt limit alone.    *)
(***************************************************************************)
AcquireSettles ==
    \A c \in Callers :
        (client[c].at \in {"connecting", "backoff"})
            ~> (client[c].at \in {"idle", "holding"})

=============================================================================

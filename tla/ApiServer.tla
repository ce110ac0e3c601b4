----------------------------- MODULE ApiServer -----------------------------
(***************************************************************************)
(* Start and stop of the API server (packages/api/src/index.ts).           *)
(*                                                                         *)
(* start() and the stop() of every signal run interleaved, each await a    *)
(* step of its own.  db.connect() takes a client of the pool and never     *)
(* returns it, so the pool.end() of the first stop() waits for good and    *)
(* nothing after it (Redis, the HTTP server, exit 0) is reached; the model *)
(* has no step for it.  Apollo Server handles the two signals as well and  *)
(* may send itself one again: that is one more signal here.                *)
(***************************************************************************)
EXTENDS Integers, FiniteSets

CONSTANTS Signals      \* the SIGTERMs and SIGINTs that may come

VARIABLES
    starting,          \* what start() awaits, or "listening"
    apollo,            \* the phase of the public Apollo server
    pool,              \* "open" or "ending"
    running,           \* RealtimePublisher.running
    timers,            \* the intervals armed
    stop,              \* what the stop() of each signal awaits
    exit,              \* "alive", or how the process ended
    \* history
    overtaken          \* what start() awaited when the first signal came

serverVars == <<starting, apollo, pool, running, timers, stop, exit, overtaken>>

-----------------------------------------------------------------------------

Init ==
    /\ starting = "postgres" /\ apollo = "initialized" /\ pool = "open"
    /\ running = FALSE /\ timers = {}
    /\ stop = [s \in Signals |-> "none"]
    /\ exit = "alive" /\ overtaken = "none"

(* start *)

\* db.connect: the client of pool.connect() stays out.
PostgresConnects ==
    /\ exit = "alive" /\ starting = "postgres"
    /\ starting' = "redis"
    /\ UNCHANGED <<apollo, pool, running, timers, stop, exit, overtaken>>

\* Health is polled where alerting is enabled.
RedisConnects ==
    /\ exit = "alive" /\ starting = "redis"
    /\ starting' = "apollo" /\ apollo' = "starting"
    /\ timers' \in {timers, timers \union {"health"}}
    /\ UNCHANGED <<pool, running, stop, exit, overtaken>>

ApolloStarts ==
    /\ exit = "alive" /\ starting = "apollo"
    /\ starting' = "admin" /\ apollo' = "started"
    /\ UNCHANGED <<pool, running, timers, stop, exit, overtaken>>

\* The HTTP server and its socket server are made, and the publisher seeds.
AdminMounted ==
    /\ exit = "alive" /\ starting = "admin"
    /\ starting' = "seed" /\ running' = TRUE
    /\ timers' = timers \union {"cleanup"}
    /\ UNCHANGED <<apollo, pool, stop, exit, overtaken>>

\* The seed's errors are caught; whether stop() came is not looked at.
Seeded ==
    /\ exit = "alive" /\ starting = "seed"
    /\ starting' = "listening"
    /\ timers' = timers \union {"publisher"}
    /\ UNCHANGED <<apollo, pool, running, stop, exit, overtaken>>

\* Any await of start() but the seed may reject.
StartFails ==
    /\ exit = "alive" /\ starting \in {"postgres", "redis", "apollo", "admin"}
    /\ exit' = "failed"
    /\ UNCHANGED <<starting, apollo, pool, running, timers, stop, overtaken>>

(* gracefulShutdown *)

\* Mutant: the catch logs and returns.
StopIgnored == UNCHANGED exit

\* The catch of gracefulShutdown: a stop() that rejects ends the process.
StopRejected == exit' = "failed"

\* Mutant: the publisher's interval is left running.
ClearedHealthOnly == timers \ {"health"}

\* What stopHealthPolling and the publisher's stop leave of the intervals.
Cleared == timers \ {"health", "publisher"}

\* apolloServer.stop() throws until the server has started, and joins a stop
\* under way.
Signal(s) ==
    /\ exit = "alive" /\ stop[s] = "none"
    /\ overtaken' = IF overtaken = "none" THEN starting ELSE overtaken
    /\ running' = FALSE
    /\ timers' = Cleared
    /\ \/ /\ apollo \in {"initialized", "starting"}
          /\ stop' = [stop EXCEPT ![s] = "over"]
          /\ StopRejected
          /\ UNCHANGED apollo
       \/ /\ apollo \in {"started", "stopping", "stopped"}
          /\ stop' = [stop EXCEPT ![s] = "apollo"]
          /\ apollo' = IF apollo = "started" THEN "stopping" ELSE apollo
          /\ UNCHANGED exit
    /\ UNCHANGED <<starting, pool>>

ApolloStopped ==
    /\ exit = "alive" /\ apollo = "stopping"
    /\ apollo' = "stopped"
    /\ UNCHANGED <<starting, pool, running, timers, stop, exit, overtaken>>

\* db.disconnect: a pool that is ending already refuses to end again.
Disconnect(s) ==
    /\ exit = "alive" /\ stop[s] = "apollo" /\ apollo = "stopped"
    /\ \/ /\ pool = "open"
          /\ pool' = "ending"
          /\ stop' = [stop EXCEPT ![s] = "pool"]
          /\ UNCHANGED exit
       \/ /\ pool = "ending"
          /\ stop' = [stop EXCEPT ![s] = "over"]
          /\ StopRejected
          /\ UNCHANGED pool
    /\ UNCHANGED <<starting, apollo, running, timers, overtaken>>

Next ==
    \/ PostgresConnects \/ RedisConnects \/ ApolloStarts \/ AdminMounted \/ Seeded
    \/ StartFails \/ ApolloStopped
    \/ \E s \in Signals : Signal(s) \/ Disconnect(s)

\* What a stop() awaits settles, but for pool.end(); each step happens once.
StopGoesOn == ApolloStopped \/ \E s \in Signals : Disconnect(s)

Fairness == WF_serverVars(StopGoesOn)

Spec == Init /\ [][Next]_serverVars /\ Fairness

-----------------------------------------------------------------------------

TypeOK ==
    /\ starting \in {"postgres", "redis", "apollo", "admin", "seed", "listening"}
    /\ apollo \in {"initialized", "starting", "started", "stopping", "stopped"}
    /\ pool \in {"open", "ending"} /\ running \in BOOLEAN
    /\ timers \subseteq {"health", "cleanup", "publisher"}
    /\ stop \in [Signals -> {"none", "apollo", "pool", "over"}]
    /\ exit \in {"alive", "failed"}
    /\ overtaken \in {"none", "postgres", "redis", "apollo", "admin", "seed", "listening"}

(***************************************************************************)
(* The publisher polls after a signal only if the signal came while        *)
(* start() was still awaiting the admin server or the publisher's seed,    *)
(* and goes on without looking.                                            *)
(***************************************************************************)
PollsOnlyOvertaken ==
    exit = "alive" /\ overtaken # "none" /\ "publisher" \in timers
        => overtaken \in {"admin", "seed"}

(***************************************************************************)
(* Whenever the signals come, before, while or after the server starts:    *)
(* the second one ends the process, and the first does while Apollo has    *)
(* not started.  (One signal alone never ends a server that runs.)         *)
(***************************************************************************)
StopEnds ==
    \/ overtaken \in {"postgres", "redis", "apollo"}
    \/ Cardinality({s \in Signals : stop[s] # "none"}) >= 2
    ~> exit = "failed"

=============================================================================

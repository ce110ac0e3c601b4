-------------------------- MODULE RuntimeIndexer --------------------------
(***************************************************************************)
(* The runtime indexer's process (indexer/src/index.ts): polling cycles    *)
(* that may overlap, health checks with their alert and its cooldown       *)
(* (alert-cooldown.ts), the connection pool they share, and shutdown.      *)
(*                                                                         *)
(* pollLatestLedger throws on every path out of it (ingester.ts calls an   *)
(* undefined end() in its finally), so a cycle is a poll that fails.       *)
(* pg.Pool, PostgreSQL and the alert service are external.  An alert takes *)
(* any time; the call may reject, and it may resolve with nothing          *)
(* delivered: alerting is disabled, the alert throttled, or every provider *)
(* has failed.  Time passes by Tick, and ages saturate.                    *)
(***************************************************************************)
EXTENDS Integers, FiniteSets

CONSTANTS
    Checks,        \* checkDatabaseHealth calls under way at a time
    Cycles,        \* runCycle calls under way at a time; the first is main's
    PoolMax,
    Cooldown       \* of the database alert, in ticks

ASSUME CooldownAssumption == Cooldown \in Nat
ASSUME PoolAssumption == PoolMax \in Nat
ASSUME ChecksAssumption == IsFiniteSet(Checks)

VARIABLES
    pooled,        \* a database is configured
    check,         \* each health check: where it is, the age of its "now"
    cycle,
    polling,       \* main: its first cycle, the timer armed, or cleared
    life,          \* shutdown: running, alerting, ending the pool, closing, exited
    lastAlert,     \* age of lastDatabaseErrorAlertAt; Never
    out,           \* clients of the pool being connected or checked out
    \* history
    leaked,        \* clients whose SELECT 1 failed
    resolved,      \* age of the last alert whose call resolved, as of its decision
    unreported     \* a failure was silent, and no such alert within the cooldown

history == <<leaked, resolved, unreported>>
runtimeVars == <<pooled, check, cycle, polling, life, lastAlert, out, history>>

-----------------------------------------------------------------------------

Never == Cooldown + 1
Older(age) == IF age < Never THEN age + 1 ELSE Never

IsShuttingDown == life # "running"
Alive == life # "exited"

Idle == [at |-> "idle", age |-> 0]

SetCheck(h, v) == check' = [check EXCEPT ![h] = v]

Init ==
    /\ pooled \in BOOLEAN
    /\ check = [h \in Checks |-> Idle]
    /\ \E first \in Cycles :
          cycle = [c \in Cycles |-> IF c = first THEN "polling" ELSE "idle"]
    /\ polling = "first"
    /\ life = "running"
    /\ lastAlert = Never
    /\ out = 0 /\ leaked = 0
    /\ resolved = Never
    /\ unreported = FALSE

Tick ==
    /\ Alive
    /\ check' = [h \in Checks |->
          IF check[h].at = "alert" THEN [check[h] EXCEPT !.age = Older(@)] ELSE check[h]]
    /\ lastAlert' = Older(lastAlert)
    /\ resolved' = Older(resolved)
    /\ UNCHANGED <<pooled, cycle, polling, life, out, leaked, unreported>>

(* checkDatabaseHealth, for a request to /health *)

\* A health check changes none of these.
SameProcess == UNCHANGED <<pooled, cycle, polling, life>>

\* connect() is given a client that is idle or new, or waits in the pool's
\* queue.  Without a pool the check answers at once, with an error and no alert.
Request(h) ==
    /\ pooled /\ life \notin {"ending", "closing", "exited"}
    /\ check[h].at = "idle"
    /\ IF out < PoolMax
       THEN SetCheck(h, [Idle EXCEPT !.at = "connect"]) /\ out' = out + 1
       ELSE SetCheck(h, [Idle EXCEPT !.at = "queued"]) /\ UNCHANGED out
    /\ SameProcess /\ UNCHANGED <<lastAlert, history>>

\* A client is back: it goes to one that waits, but not once end() was called.
Served(h) ==
    /\ check[h].at = "queued"
    /\ out < PoolMax /\ life \notin {"ending", "closing", "exited"}
    /\ SetCheck(h, [Idle EXCEPT !.at = "connect"]) /\ out' = out + 1
    /\ SameProcess /\ UNCHANGED <<lastAlert, history>>

Connect(h) ==
    /\ Alive /\ check[h].at = "connect"
    /\ SetCheck(h, [Idle EXCEPT !.at = "select"])
    /\ SameProcess /\ UNCHANGED <<lastAlert, out, history>>

\* Mutant: a healthy check keeps its client.
HealthyKeeps(h) ==
    /\ Alive /\ check[h].at = "select"
    /\ lastAlert' = Never
    /\ SetCheck(h, Idle)
    /\ SameProcess /\ UNCHANGED <<out, history>>

\* SELECT 1 answers: the client goes back and the cooldown is forgotten.
Healthy(h) ==
    /\ Alive /\ check[h].at = "select"
    /\ out' = out - 1
    /\ lastAlert' = Never
    /\ SetCheck(h, Idle)
    /\ SameProcess /\ UNCHANGED history

\* The catch: alert, or keep silent during the cooldown.
AlertOrNot(h) ==
    IF lastAlert > Cooldown
    THEN SetCheck(h, [at |-> "alert", age |-> 0]) /\ UNCHANGED unreported
    ELSE SetCheck(h, Idle) /\ unreported' = (unreported \/ resolved > Cooldown)

\* connect() rejects: the server is down.
ConnectFails(h) ==
    /\ Alive /\ check[h].at = "connect"
    /\ out' = out - 1
    /\ AlertOrNot(h)
    /\ SameProcess /\ UNCHANGED <<lastAlert, leaked, resolved>>

\* After end() it rejects at once.
Refused(h) ==
    /\ pooled /\ life = "ending"
    /\ check[h].at = "idle"
    /\ AlertOrNot(h)
    /\ SameProcess /\ UNCHANGED <<lastAlert, out, leaked, resolved>>

\* SELECT 1 rejects: nobody releases the client.
SelectFails(h) ==
    /\ Alive /\ check[h].at = "select"
    /\ leaked' = leaked + 1
    /\ AlertOrNot(h)
    /\ SameProcess /\ UNCHANGED <<lastAlert, out, resolved>>

\* alertDatabaseError resolves, the alert delivered or swallowed; either way
\* the cooldown runs from the "now" before it.
Alerted(h) ==
    /\ Alive /\ check[h].at = "alert"
    /\ lastAlert' = check[h].age
    /\ resolved' = IF check[h].age < resolved THEN check[h].age ELSE resolved
    /\ SetCheck(h, Idle)
    /\ SameProcess /\ UNCHANGED <<out, leaked, unreported>>

\* Mutant: the cooldown is set although the call rejected.
RejectedCounts(h) ==
    /\ Alive /\ check[h].at = "alert"
    /\ lastAlert' = check[h].age
    /\ SetCheck(h, Idle)
    /\ SameProcess /\ UNCHANGED <<out, history>>

\* It rejects: the request is answered with 500, and nothing is noted.
AlertRejected(h) ==
    /\ Alive /\ check[h].at = "alert"
    /\ SetCheck(h, Idle)
    /\ SameProcess /\ UNCHANGED <<lastAlert, out, history>>

(* runCycle and main *)

CycleStarts(c) ==
    /\ polling = "armed" /\ ~IsShuttingDown
    /\ cycle[c] = "idle"
    /\ cycle' = [cycle EXCEPT ![c] = "polling"]
    /\ UNCHANGED <<pooled, check, polling, life, lastAlert, out, history>>

PollFails(c) ==
    /\ Alive /\ cycle[c] = "polling"
    /\ cycle' = [cycle EXCEPT ![c] = "alert"]
    /\ UNCHANGED <<pooled, check, polling, life, lastAlert, out, history>>

\* alertLedgerProcessingError settles; main arms the timer after the first
\* cycle, even when shutdown has begun, and exits if that cycle rejected.
CycleEnds(c) ==
    /\ Alive /\ cycle[c] = "alert"
    /\ cycle' = [cycle EXCEPT ![c] = "idle"]
    /\ IF polling = "first"
       THEN \/ polling' = "armed" /\ UNCHANGED life
            \/ life' = "exited" /\ UNCHANGED polling
       ELSE UNCHANGED <<polling, life>>
    /\ UNCHANGED <<pooled, check, lastAlert, out, history>>

(* shutdown, for the first signal; later ones return at once *)

Signal ==
    /\ life = "running"
    /\ life' = "alerting"
    /\ UNCHANGED <<pooled, check, cycle, polling, lastAlert, out, history>>

\* alertGracefulShutdown resolves; the timer is cleared, and pool.end() called.
ShutdownAlerted ==
    /\ life = "alerting"
    /\ life' = "ending"
    /\ polling' = IF polling = "armed" THEN "cleared" ELSE polling
    /\ UNCHANGED <<pooled, check, cycle, lastAlert, out, history>>

\* It rejects: the handler logs the error, and shutdown never goes on.
ShutdownRejected ==
    /\ life = "alerting"
    /\ life' = "stuck"
    /\ UNCHANGED <<pooled, check, cycle, polling, lastAlert, out, history>>

\* end() resolves once every client is back, or being connected no more.
PoolEnded ==
    /\ life = "ending" /\ out = 0
    /\ life' = "closing"
    /\ UNCHANGED <<pooled, check, cycle, polling, lastAlert, out, history>>

\* healthServer.close waits for the requests it has.
ServerClosed ==
    /\ life = "closing"
    /\ \A h \in Checks : check[h].at = "idle"
    /\ life' = "exited"
    /\ UNCHANGED <<pooled, check, cycle, polling, lastAlert, out, history>>

Next ==
    \/ Tick \/ Signal \/ ShutdownAlerted \/ ShutdownRejected \/ PoolEnded \/ ServerClosed
    \/ \E h \in Checks :
          \/ Request(h) \/ Served(h) \/ Connect(h) \/ Healthy(h) \/ ConnectFails(h)
          \/ Refused(h) \/ SelectFails(h) \/ Alerted(h) \/ AlertRejected(h)
    \/ \E c \in Cycles : CycleStarts(c) \/ PollFails(c) \/ CycleEnds(c)

\* A query, a connect() with a client for it and an alert are answered.
Answered(h) ==
    \/ Connect(h) \/ ConnectFails(h) \/ Healthy(h) \/ SelectFails(h)
    \/ Alerted(h) \/ AlertRejected(h)

\* What shutdown() awaits settles; each of these steps happens once.
ShutdownGoesOn == ShutdownAlerted \/ ShutdownRejected \/ PoolEnded \/ ServerClosed

Fairness ==
    /\ \A h \in Checks : WF_runtimeVars(Answered(h))
    /\ WF_runtimeVars(ShutdownGoesOn)

Spec == Init /\ [][Next]_runtimeVars /\ Fairness

-----------------------------------------------------------------------------

TypeOK ==
    /\ pooled \in BOOLEAN
    /\ check \in [Checks -> [at : {"idle", "queued", "connect", "select", "alert"}, age : 0..Never]]
    /\ cycle \in [Cycles -> {"idle", "polling", "alert"}]
    /\ polling \in {"first", "armed", "cleared"}
    /\ life \in {"running", "alerting", "stuck", "ending", "closing", "exited"}
    /\ lastAlert \in 0..Never /\ resolved \in 0..Never
    /\ out \in 0..PoolMax /\ leaked \in 0..PoolMax
    /\ unreported \in BOOLEAN

(***************************************************************************)
(* A failing health check that keeps silent does so only because, within   *)
(* the cooldown, an alert was decided whose call has resolved, be it       *)
(* delivered or swallowed by the alert service.  One whose call rejected,  *)
(* or was still under way when others failed, silences nobody, and a       *)
(* swallowed one does so for no longer than the cooldown.                  *)
(***************************************************************************)
SilenceExplained == ~unreported

(***************************************************************************)
(* A shutdown ends the process, unless it has come to a halt for good: its *)
(* own alert was rejected; pool.end() waits for a client that a failed     *)
(* SELECT 1 leaked; or pool.end() was called while a health check waited   *)
(* in the pool's queue, which nobody serves from then on.  No other        *)
(* interleaving of cycles, health checks and late alerts keeps it from     *)
(* exiting.                                                                *)
(***************************************************************************)
ShutdownEnds ==
    (life = "alerting") ~>
        \/ life \in {"exited", "stuck"}
        \/ life = "ending" /\ leaked > 0
        \/ life \in {"ending", "closing"} /\ \E h \in Checks : check[h].at = "queued"

=============================================================================

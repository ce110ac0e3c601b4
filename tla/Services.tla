------------------------------ MODULE Services ------------------------------
(***************************************************************************)
(* The smaller services around the indexers: the runtime indexer's own     *)
(* process and its sockets, the connection pool, ledger events, the start  *)
(* and stop of the API server, its limits, its paged reads, and the list   *)
(* in the browser.  They share no state in these models; the first state   *)
(* chooses the part, and the others stay as they are.                      *)
(***************************************************************************)
EXTENDS RuntimeIndexer, Sequences

CONSTANTS
    Callers, HealthChecks, DbPoolMax, MaxAttempts, Pools, MaxOrphans,
    MaxEvents, Conns, MaxTimers, Subscribers,
    Replicas, Requests, ReplicaOf, RateLimitMax, RateWindow,
    MaxSequence, First, Readers, ListFirst,
    Signals,
    Limits, MaxOf, WindowOf, MaxOpen,
    Clients, MaxMessages, MessageWindow

\* Windows last at least a tick; a replica's name is not that of the shared store.
ASSUME RateAssumption ==
    /\ RateWindow \in Nat \ {0} /\ RateLimitMax \in Nat
    /\ "shared" \notin Replicas /\ ReplicaOf \in [Requests -> Replicas]
ASSUME SubscriptionAssumption ==
    /\ MaxOf \in [Limits -> Nat \ {0}] /\ WindowOf \in [Limits -> Nat \ {0}]
    /\ {"subscription", "event"} \subseteq Limits
    /\ MaxOpen \in Nat
ASSUME SocketAssumption ==
    MaxMessages \in Nat /\ MessageWindow \in Nat \ {0}
ASSUME ConnectionAssumption ==
    /\ DbPoolMax \in Nat /\ MaxAttempts \in Nat \ {0}
    /\ Pools \in Nat \ {0} /\ MaxOrphans \in Nat
    /\ IsFiniteSet(Callers) /\ IsFiniteSet(HealthChecks)
ASSUME EventAssumption ==
    IsFiniteSet(Conns) /\ MaxEvents \in Nat /\ MaxTimers \in Nat \ {0}
ASSUME PageAssumption ==
    MaxSequence \in Nat /\ First \in Nat \ {0} /\ ListFirst \in Nat \ {0}

VARIABLES
    part,
    pool, isShuttingDown, healthCheckTimer, ended, awaits, recycling, abandoned,
    client, orphans, given, late,
    up, events, conn, timers, lastArmed, listener, stopped, sub, published,
    shared, memory, request, granted,
    ledgers, cached, list, read, cursor, asksOn, got, common, lost,
    starting, apollo, apiPool, running, intervals, stop, exit, overtaken,
    limit, open, allowed,
    socket, marked, state, accepted,
    tables, answer, edges, disorder, lateLedgers, burst

D == INSTANCE DatabasePool WITH PoolMax <- DbPoolMax, out <- given
E == INSTANCE LedgerEvents WITH client <- listener
A == INSTANCE ApiRateLimit WITH Window <- RateWindow
R == INSTANCE ApiReads
S == INSTANCE ApiServer WITH pool <- apiPool, timers <- intervals
B == INSTANCE SubscriptionLimits
W == INSTANCE RealtimeSockets WITH Window <- MessageWindow
L == INSTANCE LiveList WITH First <- ListFirst, late <- lateLedgers

poolVars ==
    <<pool, isShuttingDown, healthCheckTimer, ended, awaits, recycling, abandoned,
      client, orphans, given, late>>
eventVars ==
    <<up, events, conn, timers, lastArmed, listener, stopped, sub, published>>
limitVars == <<shared, memory, request, granted>>
readVars == <<ledgers, cached, list, read, cursor, asksOn, got, common, lost>>
serverVars == <<starting, apollo, apiPool, running, intervals, stop, exit, overtaken>>
subscriptionVars == <<limit, open, allowed>>
socketVars == <<socket, marked, state, accepted>>
listVars == <<tables, answer, edges, disorder, lateLedgers, burst>>
apiVars == <<limitVars, readVars, serverVars, subscriptionVars>>
vars == <<part, runtimeVars, poolVars, eventVars, apiVars, socketVars, listVars>>

ServiceInit ==
    /\ part \in {"runtime", "pool", "events", "limits", "reads", "server",
                "subscriptions", "sockets", "list"}
    /\ D!Init /\ A!Init /\ S!Init /\ B!Init /\ W!Init
    /\ IF part = "runtime" THEN Init
       ELSE Init /\ pooled /\ cycle[CHOOSE c \in Cycles : TRUE] = "polling"
    /\ IF part = "events" THEN E!Init
       ELSE E!Init /\ ~up /\ conn[CHOOSE c \in Conns : TRUE].at = "connecting"
    /\ IF part = "reads" THEN R!Init ELSE R!Init /\ ledgers = {}
    /\ IF part = "list" THEN L!Init ELSE L!Init /\ tables = <<{}>>

\* While a part is the one chosen, the others stay as they are.
RuntimeOnly ==
    /\ part = "runtime"
    /\ UNCHANGED <<part, poolVars, eventVars, apiVars, socketVars, listVars>>
PoolOnly ==
    /\ part = "pool"
    /\ UNCHANGED <<part, runtimeVars, eventVars, apiVars, socketVars, listVars>>
EventsOnly ==
    /\ part = "events"
    /\ UNCHANGED <<part, runtimeVars, poolVars, apiVars, socketVars, listVars>>
SocketsOnly ==
    /\ part = "sockets"
    /\ UNCHANGED <<part, runtimeVars, poolVars, eventVars, apiVars, listVars>>
ListOnly ==
    /\ part = "list"
    /\ UNCHANGED <<part, runtimeVars, poolVars, eventVars, apiVars, socketVars>>
ApiOnly == UNCHANGED <<part, runtimeVars, poolVars, eventVars, socketVars, listVars>>
LimitsOnly ==
    /\ part = "limits" /\ ApiOnly
    /\ UNCHANGED <<readVars, serverVars, subscriptionVars>>
ReadsOnly ==
    /\ part = "reads" /\ ApiOnly
    /\ UNCHANGED <<limitVars, serverVars, subscriptionVars>>
ServerOnly ==
    /\ part = "server" /\ ApiOnly
    /\ UNCHANGED <<limitVars, readVars, subscriptionVars>>
SubscriptionsOnly ==
    /\ part = "subscriptions" /\ ApiOnly
    /\ UNCHANGED <<limitVars, readVars, serverVars>>

ServiceNext ==
    \/ RuntimeOnly /\ Next
    \/ PoolOnly /\ D!Next
    \/ EventsOnly /\ E!Next
    \/ LimitsOnly /\ A!Next
    \/ ReadsOnly /\ R!Next
    \/ ServerOnly /\ S!Next
    \/ SubscriptionsOnly /\ B!Next
    \/ SocketsOnly /\ W!Next
    \/ ListOnly /\ L!Next

\* The fairness of each part, while it is the part chosen.
Fair ==
    /\ \A h \in Checks : WF_vars(RuntimeOnly /\ Answered(h))
    /\ WF_vars(RuntimeOnly /\ ShutdownGoesOn)
    /\ \A c \in Callers : WF_vars(PoolOnly /\ D!TimerFires(c))
    /\ WF_vars(EventsOnly /\ E!TimerFires)
    /\ \A c \in Conns : WF_vars(EventsOnly /\ E!Settles(c))
    /\ WF_vars(ServerOnly /\ S!StopGoesOn)

ServiceSpec == ServiceInit /\ [][ServiceNext]_vars /\ Fair

-----------------------------------------------------------------------------

\* The type invariants of the parts.
TypesOK ==
    /\ part = "runtime" => TypeOK
    /\ part = "pool" => D!TypeOK
    /\ part = "events" => E!TypeOK
    /\ part = "limits" => A!TypeOK
    /\ part = "reads" => R!TypeOK
    /\ part = "server" => S!TypeOK
    /\ part = "subscriptions" => B!TypeOK
    /\ part = "sockets" => W!TypeOK
    /\ part = "list" => L!TypeOK

\* Every client out of a pool is with a call that returns it, or came late, and
\* is out of the pool in use or of one that a recycle abandoned.
ClientsAccounted == part = "pool" => D!ClientsAccounted

\* Every acquire ends, by the timers and the attempt limit alone.
AcquireSettles == D!AcquireSettles

\* A subscriber is given what was published since it subscribed, in order.
EveryEventHeard == part = "events" => E!EveryEventHeard

\* While PostgreSQL stays up and nobody stops it, the listener listens again.
ListensAgain == E!ListensAgain

\* No store of the API, limit on subscriptions or connection lets more through
\* in a window than it may.
BudgetHolds ==
    /\ part = "limits" => A!BudgetHolds
    /\ part = "subscriptions" => B!SubscriptionBudget
    /\ part = "sockets" => W!SocketBudget

\* Pages cut from different lists fit together, in the API's answers and in the
\* list the browser merges them into.
PagesFit ==
    /\ part = "reads" => R!PagesFit
    /\ part = "list" => L!ShownFits

\* The API's publisher polls after a signal only if the signal overtook start().
PollsOnlyOvertaken == part = "server" => S!PollsOnlyOvertaken

\* A signal to the runtime indexer ends it unless its alert fails, a client is
\* out for good or a check waits for one for good; a second signal to the API
\* server ends that.
ProcessesEnd == ShutdownEnds /\ S!StopEnds

=============================================================================

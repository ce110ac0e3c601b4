--------------------------- MODULE LedgerEvents ---------------------------
(***************************************************************************)
(* Ledger events in the API process: the LISTEN connection                 *)
(* (api/src/pg-listener.ts), the in-process publish/subscribe behind the   *)
(* GraphQL subscriptions (api/src/pubsub.ts) and, external, PostgreSQL,    *)
(* which queues each NOTIFY for every session that listens.                *)
(*                                                                         *)
(* The delay of a reconnection is left out: a timer may fire at any time.  *)
(* A connection is a slot that is used again once it has ended.            *)
(***************************************************************************)
EXTENDS Integers, Sequences, FiniteSets

CONSTANTS
    MaxEvents,     \* bound: ledgers the indexer commits
    Conns,         \* bound: the connections open or opening at a time
    MaxTimers,     \* bound: reconnect timers told apart; one more changes nothing
    Subscribers

VARIABLES
    up,            \* PostgreSQL answers
    events,        \* NOTIFYs sent so far
    conn,          \* each connection: its state and its notifications under way
    timers,        \* reconnect timers armed
    lastArmed,     \* reconnectTimer is one of them
    client, stopped,
    sub,           \* each subscription's iterator
    published      \* history: what was published on LEDGER_ADDED

listenVars == <<up, events, conn, timers, lastArmed, client, stopped>>
eventVars == <<listenVars, sub, published>>

-----------------------------------------------------------------------------

Unused == [at |-> "none", inbox |-> <<>>]
NoConn == "none"

Closed == [at |-> "closed", pending |-> FALSE, queue |-> <<>>, since |-> 0, got |-> <<>>]

Init ==
    /\ up \in BOOLEAN /\ events = 0
    /\ \E first \in Conns :
          conn = [c \in Conns |-> IF c = first THEN [Unused EXCEPT !.at = "connecting"] ELSE Unused]
    /\ timers = 0 /\ lastArmed = FALSE
    /\ client = NoConn /\ stopped = FALSE
    /\ sub = [s \in Subscribers |-> Closed]
    /\ published = <<>>

\* scheduleReconnect: the new timer is the one stop() knows
ScheduleReconnect ==
    IF stopped THEN UNCHANGED <<timers, lastArmed>>
    ELSE /\ timers' = IF timers < MaxTimers THEN timers + 1 ELSE timers
         /\ lastArmed' = TRUE

(* PostgreSQL and the network, external *)

DatabaseUp ==
    /\ up' = ~up
    /\ UNCHANGED <<events, conn, timers, lastArmed, client, stopped, sub, published>>

Notify ==
    /\ up /\ events < MaxEvents
    /\ events' = events + 1
    /\ conn' = [c \in Conns |->
          IF conn[c].at = "listening"
          THEN [conn[c] EXCEPT !.inbox = Append(@, events')] ELSE conn[c]]
    /\ UNCHANGED <<up, timers, lastArmed, client, stopped, sub, published>>

(* startLedgerEventListener *)

TimerFires ==
    /\ timers > 0
    /\ \E c \in Conns :
          /\ conn[c].at = "none"
          /\ conn' = [conn EXCEPT ![c].at = "connecting"]
    /\ timers' = timers - 1
    /\ lastArmed' \in IF timers = 1 THEN {FALSE} ELSE {FALSE, lastArmed}
    /\ UNCHANGED <<up, events, client, stopped, sub, published>>

\* connect() and LISTEN succeed, whether or not stop() was called meanwhile.
Listens(c) ==
    /\ conn[c].at = "connecting" /\ up
    /\ conn' = [conn EXCEPT ![c].at = "listening"]
    /\ client' = c
    /\ UNCHANGED <<up, events, timers, lastArmed, stopped, sub, published>>

\* connect() or LISTEN rejects: the catch schedules, and the 'end' of the
\* failed connection follows and schedules too.
ConnectRejects(c) ==
    /\ conn[c].at = "connecting" /\ ~up
    /\ conn' = [conn EXCEPT ![c].at = "ending"]
    /\ ScheduleReconnect
    /\ UNCHANGED <<up, events, client, stopped, sub, published>>

\* An established connection is lost.
ConnectionLost(c) ==
    /\ conn[c].at = "listening" /\ ~up
    /\ conn' = [conn EXCEPT ![c].at = "ending"]
    /\ client' = IF client = c THEN NoConn ELSE client
    /\ UNCHANGED <<up, events, timers, lastArmed, stopped, sub, published>>

\* Mutant: nobody reconnects.
EndIgnored(c) ==
    /\ conn[c].at = "ending"
    /\ conn' = [conn EXCEPT ![c] = Unused]
    /\ UNCHANGED <<up, events, timers, lastArmed, client, stopped, sub, published>>

\* newClient.on("end")
ConnectionEnds(c) ==
    /\ conn[c].at = "ending"
    /\ conn' = [conn EXCEPT ![c] = Unused]
    /\ ScheduleReconnect
    /\ UNCHANGED <<up, events, client, stopped, sub, published>>

\* stop: one timer is cleared, and the connection it knows is ended.
StopListener ==
    /\ ~stopped
    /\ stopped' = TRUE
    /\ timers' = IF lastArmed THEN timers - 1 ELSE timers
    /\ lastArmed' = FALSE
    /\ conn' = IF client = NoConn THEN conn ELSE [conn EXCEPT ![client] = Unused]
    /\ client' = NoConn
    /\ UNCHANGED <<up, events, sub, published>>

(* SimplePubSub *)

\* Mutant: what arrives between two next() calls is dropped.
HeardOnlyPending(s, e) ==
    IF s.at = "open" /\ s.pending
    THEN [s EXCEPT !.pending = FALSE, !.got = Append(@, e)] ELSE s

\* The listener answers the next() that waits, or queues.
Heard(s, e) ==
    CASE s.at = "closed" -> s
      [] s.at = "open" /\ s.pending -> [s EXCEPT !.pending = FALSE, !.got = Append(@, e)]
      [] OTHER -> [s EXCEPT !.queue = Append(@, e)]

\* on("notification"): publish calls every listener in the same turn.
Publish(c) ==
    /\ conn[c].inbox # <<>>
    /\ conn[c].at = "listening"
    /\ LET e == Head(conn[c].inbox) IN
          /\ sub' = [s \in Subscribers |-> Heard(sub[s], e)]
          /\ published' = Append(published, e)
    /\ conn' = [conn EXCEPT ![c].inbox = Tail(@)]
    /\ UNCHANGED <<up, events, timers, lastArmed, client, stopped>>

\* an iterator on which nothing has been called yet
Opened ==
    [at |-> "open", pending |-> FALSE, queue |-> <<>>, since |-> Len(published), got |-> <<>>]

Subscribe(s) ==
    /\ sub[s] = Closed
    /\ sub' = [sub EXCEPT ![s] = Opened]
    /\ UNCHANGED <<listenVars, published>>

\* next() is answered from the queue, or waits.
Asked(s) ==
    IF s.queue = <<>> THEN [s EXCEPT !.pending = TRUE]
    ELSE [s EXCEPT !.queue = Tail(@), !.got = Append(@, Head(s.queue))]

\* A subscription's consumer waits for one next() before it calls another.
NextEvent(s) ==
    /\ sub[s].at = "open" /\ ~sub[s].pending
    /\ sub' = [sub EXCEPT ![s] = Asked(@)]
    /\ UNCHANGED <<listenVars, published>>

\* return() and throw()
Return(s) ==
    /\ sub[s].at = "open"
    /\ sub' = [sub EXCEPT ![s] = Closed]
    /\ UNCHANGED <<listenVars, published>>

Next ==
    \/ DatabaseUp \/ Notify \/ TimerFires \/ StopListener
    \/ \E c \in Conns :
          Listens(c) \/ ConnectRejects(c) \/ ConnectionLost(c) \/ ConnectionEnds(c) \/ Publish(c)
    \/ \E s \in Subscribers : Subscribe(s) \/ NextEvent(s) \/ Return(s)

\* What a connection waits for: connect() and LISTEN settle, a close ends.
Settles(c) == Listens(c) \/ ConnectRejects(c) \/ ConnectionEnds(c)

\* Timers fire, and connections settle.
Fairness ==
    /\ WF_eventVars(TimerFires)
    /\ \A c \in Conns : WF_eventVars(Settles(c))

Spec == Init /\ [][Next]_eventVars /\ Fairness

-----------------------------------------------------------------------------

TypeOK ==
    /\ up \in BOOLEAN /\ stopped \in BOOLEAN /\ lastArmed \in BOOLEAN
    /\ events \in 0..MaxEvents /\ timers \in 0..MaxTimers
    /\ conn \in [Conns -> [at : {"none", "connecting", "listening", "ending"},
                           inbox : Seq(1..MaxEvents)]]
    /\ client \in Conns \union {NoConn}
    /\ published \in Seq(1..MaxEvents)
    /\ sub \in [Subscribers -> [at : {"open", "closed"}, pending : BOOLEAN,
                  queue : Seq(1..MaxEvents), since : Nat, got : Seq(1..MaxEvents)]]

(***************************************************************************)
(* What a subscriber has received, then what waits in its queue, is what   *)
(* was published since it subscribed: nothing is lost, repeated or         *)
(* overtaken between the connection and a slow consumer; and an event is   *)
(* published again only by another connection that listens too.            *)
(***************************************************************************)
EveryEventHeard ==
    /\ \A s \in Subscribers : sub[s].at = "open" =>
          sub[s].got \o sub[s].queue
              = SubSeq(published, sub[s].since + 1, Len(published))
    /\ \A e \in 1..events :
          Cardinality({i \in DOMAIN published : published[i] = e})
              + Cardinality({c \in Conns : e \in {conn[c].inbox[i] : i \in DOMAIN conn[c].inbox}})
              <= Cardinality(Conns)

(***************************************************************************)
(* If PostgreSQL stays up from some time on and nobody stops the listener, *)
(* it listens again: through failed connections, lost ones and the double  *)
(* scheduling of a failure, a reconnection is always under way.            *)
(***************************************************************************)
ListensAgain ==
    <>[](up /\ ~stopped) => <>[](\E c \in Conns : conn[c].at = "listening")

=============================================================================

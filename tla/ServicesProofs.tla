--------------------------- MODULE ServicesProofs ---------------------------
(***************************************************************************)
(* Proofs about the services of Services, for every value of its           *)
(* constants: each part has an inductive invariant of its own, and a step  *)
(* of the whole is a step or a stutter of each part.                       *)
(***************************************************************************)
EXTENDS Services, CountingLemmas, FiniteSetTheorems, SequenceTheorems, TLAPS

USE CooldownAssumption, PoolAssumption, ChecksAssumption

(* The runtime indexer's process.                                          *)

CheckRecord ==
    [at : {"idle", "queued", "connect", "select", "alert"}, age : 0..Never]

\* A client is being connected for the check, or the check holds it.
HasClient(v) == v.at \in {"connect", "select"}

Serving == {h \in Checks : HasClient(check[h])}

\* Every client out of the pool is with a check, or leaked by one.
ClientsOut == out = leaked + Cardinality(Serving)

\* The cooldown never runs from later than the last alert that resolved.
CooldownFromAlert == resolved <= lastAlert

\* All types but that of the clients, which needs ClientsOut.
PlainTypes ==
    /\ pooled \in BOOLEAN
    /\ check \in [Checks -> CheckRecord]
    /\ cycle \in [Cycles -> {"idle", "polling", "alert"}]
    /\ polling \in {"first", "armed", "cleared"}
    /\ life \in {"running", "alerting", "stuck", "ending", "closing", "exited"}
    /\ lastAlert \in 0..Never /\ resolved \in 0..Never
    /\ out \in 0..PoolMax /\ leaked \in Nat
    /\ unreported \in BOOLEAN

RuntimeInv == PlainTypes /\ ClientsOut /\ CooldownFromAlert /\ SilenceExplained

\* How the checks that hold a client change when one check moves.
LEMMA ServingCounts ==
    ASSUME NEW h \in Checks, NEW v \in CheckRecord,
           PlainTypes, SetCheck(h, v)
    PROVE  /\ Cardinality(Serving) \in Nat /\ Cardinality(Serving') \in Nat
           /\ Cardinality(Serving') = Cardinality(Serving)
                + (IF HasClient(v) THEN 1 ELSE 0)
                - (IF HasClient(check[h]) THEN 1 ELSE 0)
<1>1. IsFiniteSet(Serving) /\ IsFiniteSet(Serving')
  BY FS_Subset DEF Serving
<1>2. Cardinality(Serving) \in Nat /\ Cardinality(Serving') \in Nat
  BY <1>1, FS_CardinalityType
<1>3. Serving' = IF HasClient(v) THEN Serving \cup {h} ELSE Serving \ {h}
  BY DEF Serving, SetCheck, PlainTypes
<1>4. h \in Serving <=> HasClient(check[h])
  BY DEF Serving
<1>5. CASE HasClient(v)
  BY <1>1, <1>2, <1>3, <1>4, <1>5, FS_AddElement
<1>6. CASE ~HasClient(v)
  BY <1>1, <1>2, <1>3, <1>4, <1>6, FS_RemoveElement
<1>7. QED
  BY <1>5, <1>6

LEMMA RuntimeInit == Init => RuntimeInv
<1> SUFFICES ASSUME Init PROVE RuntimeInv
  OBVIOUS
<1>1. PlainTypes
  <2>1. cycle \in [Cycles -> {"idle", "polling", "alert"}]
    <3>1. PICK first \in Cycles :
             cycle = [c \in Cycles |-> IF c = first THEN "polling" ELSE "idle"]
      BY DEF Init
    <3>2. QED
      BY <3>1
  <2>2. check \in [Checks -> CheckRecord]
    BY DEF Init, Idle, Never, CheckRecord
  <2>3. /\ pooled \in BOOLEAN /\ polling = "first" /\ life = "running" /\ unreported = FALSE
        /\ out = 0 /\ leaked = 0 /\ lastAlert = Never /\ resolved = Never
    BY DEF Init
  <2>4. lastAlert \in 0..Never /\ resolved \in 0..Never /\ out \in 0..PoolMax /\ leaked \in Nat
    BY <2>3 DEF Never
  <2>5. QED
    BY <2>1, <2>2, <2>3, <2>4 DEF PlainTypes
<1>2. Serving = {}
  BY DEF Init, Serving, HasClient, Idle
<1>3. ClientsOut
  BY <1>2, FS_EmptySet DEF Init, ClientsOut
<1>4. CooldownFromAlert /\ SilenceExplained
  BY DEF Init, CooldownFromAlert, SilenceExplained, Never
<1>5. QED
  BY <1>1, <1>3, <1>4 DEF RuntimeInv

\* A failed check that keeps silent does so within the cooldown of an alert.
LEMMA SilenceJustified ==
    ASSUME RuntimeInv, NEW h \in Checks, AlertOrNot(h)
    PROVE  /\ unreported' = unreported
           /\ \E v \in CheckRecord : ~HasClient(v) /\ SetCheck(h, v)
<1>1. CASE lastAlert > Cooldown
  <2>1. [at |-> "alert", age |-> 0] \in CheckRecord /\ ~HasClient([at |-> "alert", age |-> 0])
    BY DEF CheckRecord, HasClient, Never
  <2>2. SetCheck(h, [at |-> "alert", age |-> 0]) /\ unreported' = unreported
    BY <1>1 DEF AlertOrNot
  <2>3. QED
    BY <2>1, <2>2
<1>2. CASE ~(lastAlert > Cooldown)
  <2>1. Idle \in CheckRecord /\ ~HasClient(Idle)
    BY DEF CheckRecord, HasClient, Idle, Never
  <2>2. ~(resolved > Cooldown)
    BY <1>2 DEF RuntimeInv, PlainTypes, CooldownFromAlert, Never
  <2>3. SetCheck(h, Idle) /\ unreported' = unreported
    BY <1>2, <2>2 DEF AlertOrNot, RuntimeInv, PlainTypes
  <2>4. QED
    BY <2>1, <2>3
<1>3. QED
  BY <1>1, <1>2

LEMMA RuntimeStep == RuntimeInv /\ [Next]_runtimeVars => RuntimeInv'
<1> SUFFICES ASSUME RuntimeInv, [Next]_runtimeVars PROVE RuntimeInv'
  OBVIOUS
<1> USE DEF RuntimeInv, PlainTypes, ClientsOut, CooldownFromAlert, SilenceExplained
<1>n. Never \in Nat /\ Never = Cooldown + 1 /\ \A a \in 0..Never : Older(a) \in 0..Never
  BY DEF Never, Older
<1>s. ASSUME UNCHANGED check PROVE Serving' = Serving
  BY <1>s DEF Serving
<1>i. Idle \in CheckRecord /\ ~HasClient(Idle)
  BY <1>n DEF Idle, CheckRecord, HasClient
<1>v. ASSUME NEW at \in {"queued", "connect", "select"}
      PROVE  /\ [Idle EXCEPT !.at = at] \in CheckRecord
             /\ HasClient([Idle EXCEPT !.at = at]) <=> at # "queued"
  BY <1>n DEF Idle, CheckRecord, HasClient
\* A check moves, and the clients that are out stay accounted for.
<1>m. ASSUME NEW h \in Checks, NEW v \in CheckRecord, SetCheck(h, v), SameProcess,
             lastAlert' \in 0..Never, resolved' \in 0..Never, resolved' <= lastAlert',
             unreported' = unreported, leaked' \in Nat, out' \in Int, out' <= PoolMax,
             out' - leaked' = out - leaked + (IF HasClient(v) THEN 1 ELSE 0)
                                           - (IF HasClient(check[h]) THEN 1 ELSE 0)
      PROVE  RuntimeInv'
  <2>1. /\ Cardinality(Serving) \in Nat /\ Cardinality(Serving') \in Nat
        /\ out' = leaked' + Cardinality(Serving')
    BY <1>m, ServingCounts
  <2>2. check' \in [Checks -> CheckRecord]
    BY <1>m DEF SetCheck
  <2>3. QED
    BY <1>m, <2>1, <2>2 DEF SameProcess
<1>1. CASE UNCHANGED runtimeVars
  BY <1>1, <1>s DEF runtimeVars, history
<1>2. CASE Tick
  <2>1. check' \in [Checks -> CheckRecord]
    BY <1>2, <1>n DEF Tick, CheckRecord
  <2>2. Serving' = Serving
    BY <1>2 DEF Tick, Serving, HasClient
  <2>3. lastAlert' \in 0..Never /\ resolved' \in 0..Never /\ resolved' <= lastAlert'
    BY <1>2, <1>n DEF Tick, Older
  <2>4. QED
    BY <1>2, <2>1, <2>2, <2>3 DEF Tick
<1>3. CASE Signal \/ ShutdownAlerted \/ ShutdownRejected \/ PoolEnded \/ ServerClosed
  <2>1. UNCHANGED <<pooled, check, lastAlert, out, leaked, resolved, unreported, cycle>>
    BY <1>3 DEF Signal, ShutdownAlerted, ShutdownRejected, PoolEnded, ServerClosed, history
  <2>2. /\ polling' \in {"first", "armed", "cleared"}
        /\ life' \in {"running", "alerting", "stuck", "ending", "closing", "exited"}
    BY <1>3 DEF Signal, ShutdownAlerted, ShutdownRejected, PoolEnded, ServerClosed
  <2>3. QED
    BY <1>s, <2>1, <2>2
<1>4. ASSUME NEW h \in Checks, Request(h) \/ Served(h) PROVE RuntimeInv'
  <2>1. /\ ~HasClient(check[h])
        /\ SameProcess /\ UNCHANGED <<lastAlert, leaked, resolved, unreported>>
    BY <1>4 DEF Request, Served, HasClient, history
  <2>2. \/ SetCheck(h, [Idle EXCEPT !.at = "connect"]) /\ out' = out + 1 /\ out < PoolMax
        \/ SetCheck(h, [Idle EXCEPT !.at = "queued"]) /\ out' = out
    BY <1>4 DEF Request, Served
  <2>3. QED
    BY <1>m, <1>v, <2>1, <2>2
<1>5. ASSUME NEW h \in Checks, Connect(h) PROVE RuntimeInv'
  <2>1. /\ SetCheck(h, [Idle EXCEPT !.at = "select"]) /\ HasClient(check[h])
        /\ SameProcess /\ UNCHANGED <<lastAlert, out, leaked, resolved, unreported>>
    BY <1>5 DEF Connect, HasClient, history
  <2>2. QED
    BY <1>m, <1>v, <2>1
<1>6. ASSUME NEW h \in Checks, Healthy(h) PROVE RuntimeInv'
  <2>1. /\ SetCheck(h, Idle) /\ HasClient(check[h])
        /\ out' = out - 1 /\ lastAlert' = Never
        /\ SameProcess /\ UNCHANGED <<leaked, resolved, unreported>>
    BY <1>6 DEF Healthy, HasClient, history
  <2>2. QED
    BY <1>i, <1>m, <1>n, <2>1
<1>7. ASSUME NEW h \in Checks, ConnectFails(h) \/ SelectFails(h) \/ Refused(h)
      PROVE  RuntimeInv'
  <2>1. AlertOrNot(h) /\ SameProcess /\ UNCHANGED <<lastAlert, resolved>>
    BY <1>7 DEF ConnectFails, SelectFails, Refused
  <2>2. \/ HasClient(check[h]) /\ out' = out - 1 /\ leaked' = leaked
        \/ HasClient(check[h]) /\ out' = out /\ leaked' = leaked + 1
        \/ ~HasClient(check[h]) /\ out' = out /\ leaked' = leaked
    BY <1>7 DEF ConnectFails, SelectFails, Refused, HasClient
  <2>3. PICK v \in CheckRecord : ~HasClient(v) /\ SetCheck(h, v)
    BY <2>1, SilenceJustified
  <2>4. unreported' = unreported
    BY <2>1, SilenceJustified
  <2>5. QED
    BY <1>m, <2>1, <2>2, <2>3, <2>4
<1>8. ASSUME NEW h \in Checks, Alerted(h) \/ AlertRejected(h) PROVE RuntimeInv'
  <2>1. /\ SetCheck(h, Idle) /\ ~HasClient(check[h]) /\ check[h].age \in 0..Never
        /\ SameProcess /\ UNCHANGED <<out, leaked, unreported>>
    BY <1>8 DEF Alerted, AlertRejected, HasClient, CheckRecord, history
  <2>2. lastAlert' \in 0..Never /\ resolved' \in 0..Never /\ resolved' <= lastAlert'
    BY <1>8, <1>n, <2>1 DEF Alerted, AlertRejected, history
  <2>3. QED
    BY <1>i, <1>m, <2>1, <2>2
<1>9. ASSUME NEW c \in Cycles, CycleStarts(c) \/ PollFails(c) \/ CycleEnds(c) PROVE RuntimeInv'
  <2>1. UNCHANGED <<pooled, check, lastAlert, out, leaked, resolved, unreported>>
    BY <1>9 DEF CycleStarts, PollFails, CycleEnds, history
  <2>2. cycle' \in [Cycles -> {"idle", "polling", "alert"}]
    BY <1>9 DEF CycleStarts, PollFails, CycleEnds
  <2>3. /\ polling' \in {"first", "armed", "cleared"}
        /\ life' \in {"running", "alerting", "stuck", "ending", "closing", "exited"}
    BY <1>9 DEF CycleStarts, PollFails, CycleEnds
  <2>4. QED
    BY <1>s, <2>1, <2>2, <2>3
<1>10. QED
  BY <1>1, <1>2, <1>3, <1>4, <1>5, <1>6, <1>7, <1>8, <1>9 DEF Next

\* The pool's size bounds the leaked clients as well.
LEMMA RuntimeFollows == RuntimeInv => TypeOK /\ SilenceExplained
<1> SUFFICES ASSUME RuntimeInv PROVE TypeOK
  BY DEF RuntimeInv
<1>1. Cardinality(Serving) \in Nat
  BY FS_Subset, FS_CardinalityType DEF Serving
<1>2. leaked \in 0..PoolMax
  BY <1>1 DEF RuntimeInv, PlainTypes, ClientsOut
<1>3. QED
  BY <1>2 DEF RuntimeInv, PlainTypes, CheckRecord, TypeOK

-----------------------------------------------------------------------------

(* The connection pool.                                                    *)

CallStates == [at : {"idle", "connecting", "backoff", "holding"},
               attempt : 0..MaxAttempts - 1, gen : D!Generations]

\* No client is out of the pool g.
Over(g) == ended[g] = "answered" \/ g > pool

\* A pool is replaced when it is over, or abandoned.
PoolInv ==
    /\ D!TypeOK
    /\ \A g \in D!Generations : given[g] = Cardinality(D!Holding(g)) + late[g]
    /\ \A g \in D!Generations : Over(g) => given[g] = 0
    /\ \A g \in D!Generations : g < pool => g \in abandoned \/ ended[g] = "answered"

\* The instance's own name for Cardinality.
LEMMA PoolCardinality == \A T : D!Cardinality(T) = Cardinality(T)
BY DEF D!Cardinality, Cardinality

LEMMA CallsFinite == IsFiniteSet(D!Calls)
BY ConnectionAssumption, FS_Union DEF D!Calls

LEMMA HoldingFinite ==
    ASSUME NEW g
    PROVE  IsFiniteSet(D!Holding(g)) /\ Cardinality(D!Holding(g)) \in Nat
<1>1. D!Holding(g) \subseteq D!Calls
  BY DEF D!Holding
<1>2. QED
  BY <1>1, CallsFinite, FS_Subset, FS_CardinalityType

LEMMA GenerationOne == 1 \in D!Generations /\ D!Generations \subseteq Int
BY ConnectionAssumption DEF D!Generations

\* A call moves that neither takes nor gives back a client.
LEMMA CallMoves ==
    ASSUME PoolInv, NEW c \in D!Calls, NEW v \in CallStates, D!Set(c, v),
           client[c].at # "holding", v.at # "holding"
    PROVE  /\ client' \in [D!Calls -> CallStates]
           /\ \A g \in D!Generations : D!Holding(g)' = D!Holding(g)
<1>1. client \in [D!Calls -> CallStates]
  BY DEF PoolInv, D!TypeOK, CallStates
<1>2. client' = [client EXCEPT ![c] = v]
  BY DEF D!Set
<1>3. client' \in [D!Calls -> CallStates]
  BY <1>1, <1>2
<1>4. ASSUME NEW g \in D!Generations PROVE D!Holding(g)' = D!Holding(g)
  BY <1>1, <1>2 DEF D!Holding
<1>5. QED
  BY <1>3, <1>4

LEMMA PoolInit == D!Init => PoolInv
<1> SUFFICES ASSUME D!Init PROVE PoolInv
  OBVIOUS
<1>1. D!TypeOK
  <2>1. D!NoClient \in CallStates
    BY ConnectionAssumption, GenerationOne DEF D!NoClient, CallStates
  <2>2. client \in [D!Calls -> CallStates]
    BY <2>1 DEF D!Init
  <2>3. 0 \in 0..MaxOrphans /\ 0 \in 0..DbPoolMax
    BY ConnectionAssumption
  <2>4. /\ orphans \in [D!Generations -> 0..MaxOrphans]
        /\ given \in [D!Generations -> 0..DbPoolMax]
        /\ late \in [D!Generations -> 0..DbPoolMax]
    BY <2>3 DEF D!Init
  <2>5. /\ pool \in D!Generations /\ isShuttingDown \in BOOLEAN
        /\ healthCheckTimer \in BOOLEAN
        /\ ended \in [D!Generations -> {"no", "asked", "answered"}]
        /\ awaits \in [D!Generations -> SUBSET D!Generations]
        /\ recycling \subseteq D!Generations /\ abandoned \subseteq D!Generations
    BY GenerationOne DEF D!Init
  <2>6. QED
    BY <2>2, <2>4, <2>5 DEF D!TypeOK, CallStates
<1>2. ASSUME NEW g \in D!Generations
      PROVE  given[g] = 0 /\ given[g] = Cardinality(D!Holding(g)) + late[g]
  <2>1. D!Holding(g) = {}
    BY DEF D!Holding, D!Init, D!NoClient
  <2>2. Cardinality(D!Holding(g)) = 0
    BY <2>1, FS_EmptySet
  <2>3. given[g] = 0 /\ late[g] = 0
    BY DEF D!Init
  <2>4. QED
    BY <2>2, <2>3
<1>3. ASSUME NEW g \in D!Generations PROVE ~(g < pool)
  BY DEF D!Init, D!Generations
<1>4. QED
  BY <1>1, <1>2, <1>3 DEF PoolInv

\* Clients are taken from a pool that is not over.
LEMMA FreeIsOpen ==
    ASSUME NEW g \in D!Generations, D!Free(g), pool \in D!Generations
    PROVE  ~Over(g) /\ given[g] < DbPoolMax
BY DEF D!Free, Over, D!Generations

LEMMA PoolStep == PoolInv /\ [D!Next]_poolVars => PoolInv'
<1> SUFFICES ASSUME PoolInv, [D!Next]_poolVars PROVE PoolInv'
  OBVIOUS
<1>0. /\ pool \in D!Generations /\ isShuttingDown \in BOOLEAN
      /\ healthCheckTimer \in BOOLEAN
      /\ ended \in [D!Generations -> {"no", "asked", "answered"}]
      /\ awaits \in [D!Generations -> SUBSET D!Generations]
      /\ recycling \subseteq D!Generations /\ abandoned \subseteq D!Generations
      /\ client \in [D!Calls -> CallStates]
      /\ orphans \in [D!Generations -> 0..MaxOrphans]
      /\ given \in [D!Generations -> 0..DbPoolMax]
      /\ late \in [D!Generations -> 0..DbPoolMax]
  BY DEF PoolInv, D!TypeOK, CallStates
<1>1. /\ \A g \in D!Generations : given[g] = Cardinality(D!Holding(g)) + late[g]
      /\ \A g \in D!Generations : Over(g) => given[g] = 0
      /\ \A g \in D!Generations : g < pool => g \in abandoned \/ ended[g] = "answered"
      /\ \A g \in D!Generations : Cardinality(D!Holding(g)) \in Nat
  BY HoldingFinite DEF PoolInv
<1>2. \A c \in D!Calls : client[c].gen \in D!Generations /\ client[c].attempt \in 0..MaxAttempts - 1
  BY <1>0 DEF CallStates
<1>n. D!NoClient \in CallStates /\ D!NoClient.at = "idle"
  BY ConnectionAssumption, GenerationOne DEF D!NoClient, CallStates
<1>c. ASSUME NEW a \in 0..MaxAttempts - 1
      PROVE  D!Connecting(a) \in CallStates /\ D!Connecting(a).at = "connecting"
  BY <1>0 DEF D!Connecting, CallStates
<1>a. 0 \in 0..MaxAttempts - 1
  BY ConnectionAssumption
\* The calls leave all else of the pools alone.
<1>f. ASSUME D!SamePool
      PROVE  /\ UNCHANGED <<pool, isShuttingDown, healthCheckTimer, ended, awaits,
                            recycling, abandoned>>
             /\ \A g \in D!Generations : Over(g)' <=> Over(g)
  BY <1>f DEF D!SamePool, D!drainVars, Over
\* A call moves, and no client with it.
<1>m. ASSUME NEW c \in D!Calls, NEW v \in CallStates, D!Set(c, v),
             client[c].at # "holding", v.at # "holding",
             orphans' \in [D!Generations -> 0..MaxOrphans],
             D!SamePool, UNCHANGED <<given, late>>
      PROVE  PoolInv'
  <2>1. /\ client' \in [D!Calls -> CallStates]
        /\ \A g \in D!Generations : D!Holding(g)' = D!Holding(g)
    BY <1>m, CallMoves
  <2>2. \A g \in D!Generations : Cardinality(D!Holding(g))' = Cardinality(D!Holding(g))
    BY <2>1
  <2>3. QED
    BY <1>0, <1>1, <1>f, <1>m, <2>1, <2>2 DEF PoolInv, D!TypeOK, CallStates
\* A client is taken or given back by a call of a generation.
<1>3. ASSUME NEW c \in D!Calls, D!Acquire(c) \/ D!PerformHealthCheck(c) \/ D!Retry(c)
      PROVE  PoolInv'
  <2>1. PICK a \in 0..MaxAttempts - 1 : D!Set(c, D!Connecting(a))
    BY <1>2, <1>3, <1>a DEF D!Acquire, D!PerformHealthCheck, D!Retry
  <2>2. client[c].at # "holding" /\ D!SamePool /\ UNCHANGED <<orphans, given, late>>
    BY <1>3 DEF D!Acquire, D!PerformHealthCheck, D!Retry
  <2>3. D!Connecting(a) \in CallStates /\ D!Connecting(a).at # "holding"
    BY <1>c
  <2>4. QED
    BY <1>0, <1>m, <2>1, <2>2, <2>3
<1>4. ASSUME NEW c \in D!Calls, D!ConnectFails(c) PROVE PoolInv'
  <2>1. D!AfterRefusal(c) \in CallStates /\ D!AfterRefusal(c).at # "holding"
    <3>1. CASE c \in Callers /\ client[c].attempt < MaxAttempts - 1
      <4>1. D!AfterRefusal(c)
              = [at |-> "backoff", attempt |-> client[c].attempt + 1, gen |-> client[c].gen]
        BY <1>0, <3>1 DEF D!AfterRefusal, CallStates
      <4>2. client[c].attempt + 1 \in 0..MaxAttempts - 1
        BY <1>2, <3>1, ConnectionAssumption
      <4>3. QED
        BY <1>2, <4>1, <4>2 DEF CallStates
    <3>2. CASE ~(c \in Callers /\ client[c].attempt < MaxAttempts - 1)
      BY <1>n, <3>2 DEF D!AfterRefusal
    <3>3. QED
      BY <3>1, <3>2
  <2>2. /\ client[c].at # "holding" /\ D!Set(c, D!AfterRefusal(c))
        /\ D!SamePool /\ UNCHANGED <<orphans, given, late>>
    BY <1>4 DEF D!ConnectFails
  <2>3. QED
    BY <1>0, <1>m, <2>1, <2>2
<1>5. ASSUME NEW c \in D!Calls, D!AcquireTimesOut(c) PROVE PoolInv'
  <2>1. /\ client[c].at # "holding" /\ D!Set(c, D!NoClient)
        /\ orphans' = [orphans EXCEPT ![client[c].gen] = D!LeftBehind(orphans[client[c].gen])]
        /\ D!SamePool /\ UNCHANGED <<given, late>>
    BY <1>5 DEF D!AcquireTimesOut
  <2>2. \A n \in 0..MaxOrphans : D!LeftBehind(n) \in 0..MaxOrphans
    BY ConnectionAssumption DEF D!LeftBehind
  <2>3. orphans' \in [D!Generations -> 0..MaxOrphans]
    BY <1>0, <1>2, <2>1, <2>2
  <2>4. QED
    BY <1>m, <1>n, <2>1, <2>3
<1>6. ASSUME NEW c \in D!Calls, D!Connected(c) PROVE PoolInv'
  <2>0. PICK g \in D!Generations : g = client[c].gen
    BY <1>2
  <2> DEFINE v == [at |-> "holding", attempt |-> client[c].attempt, gen |-> g]
  <2>1. g \in D!Generations /\ ~Over(g) /\ given[g] < DbPoolMax
    BY <1>0, <1>6, <2>0, FreeIsOpen DEF D!Connected
  <2>2. v \in CallStates
    BY <1>2 DEF CallStates
  <2>3. /\ client' = [client EXCEPT ![c] = v]
        /\ given' = [given EXCEPT ![g] = given[g] + 1]
        /\ D!SamePool /\ UNCHANGED <<orphans, late>>
        /\ client[c].at = "connecting"
    <3>1. [client[c] EXCEPT !.at = "holding"] = v
      BY <1>0, <2>0 DEF CallStates
    <3>2. QED
      BY <1>6, <2>0, <3>1 DEF D!Connected, D!Set
  <2>4. v.at = "holding" /\ v.gen = g
    OBVIOUS
  <2> HIDE DEF v
  <2>5. client' \in [D!Calls -> CallStates]
    BY <1>0, <2>2, <2>3
  <2>6. given' \in [D!Generations -> 0..DbPoolMax]
    <3>1. given[g] + 1 \in 0..DbPoolMax
      BY <1>0, <2>1, ConnectionAssumption
    <3>2. QED
      BY <1>0, <2>3, <3>1
  <2>7. D!Holding(g)' = D!Holding(g) \cup {c} /\ c \notin D!Holding(g)
    BY <1>0, <2>3, <2>4 DEF D!Holding
  <2>8. \A h \in D!Generations \ {g} : D!Holding(h)' = D!Holding(h)
    BY <1>0, <2>3, <2>4 DEF D!Holding
  <2>9. Cardinality(D!Holding(g)') = Cardinality(D!Holding(g)) + 1
    BY <2>7, HoldingFinite, FS_AddElement
  <2>10. \A h \in D!Generations : given'[h] = Cardinality(D!Holding(h)') + late'[h]
    <3>1. given'[g] = given[g] + 1
      BY <1>0, <2>1, <2>3
    <3>2. given'[g] = Cardinality(D!Holding(g)') + late'[g]
      BY <1>0, <1>1, <2>1, <2>3, <2>9, <3>1
    <3>3. \A h \in D!Generations \ {g} : given'[h] = Cardinality(D!Holding(h)') + late'[h]
      BY <1>0, <1>1, <2>3, <2>8
    <3>4. QED
      BY <3>2, <3>3
  <2>11. \A h \in D!Generations : Over(h)' => given'[h] = 0
    BY <1>0, <1>1, <1>f, <2>1, <2>3
  <2>12. QED
    BY <1>0, <1>1, <1>f, <2>3, <2>5, <2>6, <2>10, <2>11 DEF PoolInv, D!TypeOK, CallStates
<1>7. ASSUME NEW c \in D!Calls, D!Release(c) PROVE PoolInv'
  <2>0. PICK g \in D!Generations : g = client[c].gen
    BY <1>2
  <2>1. /\ g \in D!Generations /\ client[c].at = "holding"
        /\ client' = [client EXCEPT ![c] = D!NoClient]
        /\ given' = [given EXCEPT ![g] = given[g] - 1]
        /\ D!SamePool /\ UNCHANGED <<orphans, late>>
    BY <1>7, <2>0 DEF D!Release, D!Set
  <2>2. client' \in [D!Calls -> CallStates]
    BY <1>0, <1>n, <2>1
  <2>3. D!Holding(g)' = D!Holding(g) \ {c} /\ c \in D!Holding(g)
    BY <1>0, <1>n, <2>0, <2>1 DEF D!Holding
  <2>4. \A h \in D!Generations \ {g} : D!Holding(h)' = D!Holding(h)
    BY <1>0, <1>n, <2>0, <2>1 DEF D!Holding
  <2>5. /\ Cardinality(D!Holding(g)') = Cardinality(D!Holding(g)) - 1
        /\ Cardinality(D!Holding(g)') \in Nat
    BY <2>3, HoldingFinite, FS_RemoveElement, FS_CardinalityType
  <2>6. given[g] - 1 \in 0..DbPoolMax
    BY <1>0, <1>1, <2>1, <2>5, ConnectionAssumption
  <2>7. given' \in [D!Generations -> 0..DbPoolMax]
    BY <1>0, <2>1, <2>6
  <2>8. \A h \in D!Generations : given'[h] = Cardinality(D!Holding(h)') + late'[h]
    <3>1. given'[g] = given[g] - 1
      BY <1>0, <2>1
    <3>2. given'[g] = Cardinality(D!Holding(g)') + late'[g]
      BY <1>0, <1>1, <2>1, <2>5, <3>1
    <3>3. \A h \in D!Generations \ {g} : given'[h] = Cardinality(D!Holding(h)') + late'[h]
      BY <1>0, <1>1, <2>1, <2>4
    <3>4. QED
      BY <3>2, <3>3
  <2>9. ~Over(g)
    BY <1>0, <1>1, <2>1, <2>6
  <2>10. \A h \in D!Generations : Over(h)' => given'[h] = 0
    BY <1>0, <1>1, <1>f, <2>1, <2>9
  <2>11. QED
    BY <1>0, <1>1, <1>f, <2>1, <2>2, <2>7, <2>8, <2>10 DEF PoolInv, D!TypeOK, CallStates
\* Nothing but the calls decides who holds a client.
<1>h. ASSUME UNCHANGED client
      PROVE  \A g \in D!Generations : Cardinality(D!Holding(g)') = Cardinality(D!Holding(g))
  BY <1>h DEF D!Holding
<1>8. ASSUME NEW g \in D!Generations, D!OrphanConnected(g) PROVE PoolInv'
  <2>1. /\ ~Over(g) /\ given[g] < DbPoolMax /\ orphans[g] > 0
        /\ orphans' = [orphans EXCEPT ![g] = orphans[g] - 1]
        /\ given' = [given EXCEPT ![g] = given[g] + 1]
        /\ late' = [late EXCEPT ![g] = late[g] + 1]
        /\ D!SamePool /\ UNCHANGED client
    BY <1>0, <1>8, FreeIsOpen DEF D!OrphanConnected
  <2>2. orphans[g] - 1 \in 0..MaxOrphans /\ given[g] + 1 \in 0..DbPoolMax
    BY <1>0, <2>1, ConnectionAssumption
  <2>3. late[g] + 1 \in 0..DbPoolMax
    BY <1>0, <1>1, <2>1, ConnectionAssumption
  <2>4. /\ orphans' \in [D!Generations -> 0..MaxOrphans]
        /\ given' \in [D!Generations -> 0..DbPoolMax]
        /\ late' \in [D!Generations -> 0..DbPoolMax]
    BY <1>0, <2>1, <2>2, <2>3
  <2>5. \A h \in D!Generations : given'[h] = Cardinality(D!Holding(h)') + late'[h]
    <3>1. given'[g] = given[g] + 1 /\ late'[g] = late[g] + 1
      BY <1>0, <2>1
    <3>2. given'[g] = Cardinality(D!Holding(g)') + late'[g]
      BY <1>0, <1>1, <1>h, <2>1, <3>1
    <3>3. \A h \in D!Generations \ {g} : given'[h] = Cardinality(D!Holding(h)') + late'[h]
      BY <1>0, <1>1, <1>h, <2>1
    <3>4. QED
      BY <3>2, <3>3
  <2>6. \A h \in D!Generations : Over(h)' => given'[h] = 0
    BY <1>0, <1>1, <1>f, <2>1
  <2>7. QED
    BY <1>0, <1>1, <1>f, <2>1, <2>4, <2>5, <2>6 DEF PoolInv, D!TypeOK, CallStates
<1>9. ASSUME NEW g \in D!Generations, D!OrphanFails(g) PROVE PoolInv'
  <2>1. /\ orphans[g] > 0 /\ orphans' = [orphans EXCEPT ![g] = orphans[g] - 1]
        /\ D!SamePool /\ UNCHANGED <<client, given, late>>
    BY <1>9 DEF D!OrphanFails
  <2>2. orphans[g] - 1 \in 0..MaxOrphans
    BY <1>0, <2>1, ConnectionAssumption
  <2>3. orphans' \in [D!Generations -> 0..MaxOrphans]
    BY <1>0, <2>1, <2>2
  <2>4. QED
    BY <1>0, <1>1, <1>f, <1>h, <2>1, <2>3 DEF PoolInv, D!TypeOK, CallStates
\* The pools are ended, or the one in use is replaced, and no client moves.
<1>r. ASSUME UNCHANGED <<client, orphans, given, late>>,
             pool' \in D!Generations,
             isShuttingDown' \in BOOLEAN, healthCheckTimer' \in BOOLEAN,
             ended' \in [D!Generations -> {"no", "asked", "answered"}],
             awaits' \in [D!Generations -> SUBSET D!Generations],
             recycling' \subseteq D!Generations, abandoned' \subseteq D!Generations,
             \A h \in D!Generations : Over(h)' => given[h] = 0,
             \A h \in D!Generations : h < pool' => h \in abandoned' \/ ended'[h] = "answered"
      PROVE  PoolInv'
  BY <1>0, <1>1, <1>h, <1>r DEF PoolInv, D!TypeOK, CallStates
<1>o. pool \in Int /\ \A h \in D!Generations : h \in Int
  BY <1>0, GenerationOne
\* What createPool does: the pool in use was over, or is left behind.
<1>w. ASSUME D!NewPool
      PROVE  /\ pool' \in D!Generations /\ pool' = pool + 1
             /\ isShuttingDown' \in BOOLEAN /\ healthCheckTimer' \in BOOLEAN
             /\ \A h \in D!Generations : h < pool' <=> h < pool \/ h = pool
  <2>1. /\ pool < Pools /\ pool' = pool + 1
        /\ isShuttingDown' \in BOOLEAN /\ healthCheckTimer' \in BOOLEAN
    BY <1>w DEF D!NewPool
  <2>2. pool' \in D!Generations
    BY <1>0, <2>1, ConnectionAssumption DEF D!Generations
  <2>3. \A h \in D!Generations : h < pool' <=> h < pool \/ h = pool
    BY <1>o, <2>1
  <2>4. QED
    BY <2>1, <2>2, <2>3
<1>10. CASE D!Shutdown
  <2>1. /\ UNCHANGED <<pool, client, orphans, given, late, abandoned>>
        /\ isShuttingDown' \in BOOLEAN /\ healthCheckTimer' \in BOOLEAN
        /\ \/ /\ ended' = [ended EXCEPT ![pool] = "asked"] /\ ended[pool] = "no"
              /\ awaits' = [awaits EXCEPT ![pool] = {pool}]
              /\ recycling' \in {recycling, recycling \union {pool}}
           \/ UNCHANGED <<ended, awaits, recycling>>
    BY <1>10 DEF D!Shutdown
  <2>2. /\ ended' \in [D!Generations -> {"no", "asked", "answered"}]
        /\ awaits' \in [D!Generations -> SUBSET D!Generations]
        /\ recycling' \subseteq D!Generations
    BY <1>0, <2>1
  <2>3. \A h \in D!Generations : ended'[h] = "answered" <=> ended[h] = "answered"
    BY <1>0, <2>1
  <2>4. QED
    BY <1>0, <1>1, <1>r, <2>1, <2>2, <2>3 DEF Over
<1>11. CASE D!RecycleAtOnce
  <2>1. /\ D!NewPool /\ UNCHANGED <<ended, awaits, recycling, client, orphans, given, late>>
        /\ abandoned' = IF ended[pool] = "answered" THEN abandoned ELSE abandoned \union {pool}
    BY <1>11 DEF D!RecycleAtOnce
  <2>2. \A h \in D!Generations : Over(h)' => given[h] = 0
    BY <1>0, <1>1, <1>o, <1>w, <2>1 DEF Over
  <2>3. \A h \in D!Generations : h < pool' => h \in abandoned' \/ ended'[h] = "answered"
    BY <1>0, <1>1, <1>w, <2>1
  <2>4. QED
    BY <1>0, <1>r, <1>w, <2>1, <2>2, <2>3
<1>12. ASSUME NEW g \in D!Generations, D!Drained(g) PROVE PoolInv'
  <2>1. PICK p \in awaits[g] :
           /\ given[p] = 0 /\ ended' = [ended EXCEPT ![p] = "answered"]
           /\ \/ D!NewPool /\ abandoned' = abandoned \union ({pool} \ {p})
              \/ UNCHANGED <<pool, isShuttingDown, healthCheckTimer, abandoned>>
    BY <1>12 DEF D!Drained
  <2>2. /\ awaits' = [awaits EXCEPT ![g] = {}] /\ recycling' = recycling \ {g}
        /\ UNCHANGED <<client, orphans, given, late>>
    BY <1>12 DEF D!Drained
  <2>3. /\ p \in D!Generations /\ ended'[p] = "answered"
        /\ \A h \in D!Generations \ {p} : ended'[h] = ended[h]
        /\ ended' \in [D!Generations -> {"no", "asked", "answered"}]
        /\ awaits' \in [D!Generations -> SUBSET D!Generations]
        /\ recycling' \subseteq D!Generations
    BY <1>0, <2>1, <2>2
  <2>4. CASE D!NewPool /\ abandoned' = abandoned \union ({pool} \ {p})
    <3>1. \A h \in D!Generations : Over(h)' => given[h] = 0
      BY <1>1, <1>o, <1>w, <2>1, <2>3, <2>4 DEF Over
    <3>2. \A h \in D!Generations : h < pool' => h \in abandoned' \/ ended'[h] = "answered"
      BY <1>1, <1>w, <2>3, <2>4
    <3>3. abandoned' \subseteq D!Generations
      BY <1>0, <2>4
    <3>4. QED
      BY <1>r, <1>w, <2>2, <2>3, <2>4, <3>1, <3>2, <3>3
  <2>5. CASE UNCHANGED <<pool, isShuttingDown, healthCheckTimer, abandoned>>
    <3>1. \A h \in D!Generations : Over(h)' => given[h] = 0
      BY <1>1, <2>1, <2>3, <2>5 DEF Over
    <3>2. \A h \in D!Generations : h < pool' => h \in abandoned' \/ ended'[h] = "answered"
      BY <1>1, <2>3, <2>5
    <3>3. QED
      BY <1>0, <1>r, <2>2, <2>3, <2>5, <3>1, <3>2
  <2>6. QED
    BY <2>1, <2>4, <2>5
<1>13. ASSUME NEW g \in D!Generations, D!DrainTimesOut(g) PROVE PoolInv'
  <2>1. /\ UNCHANGED <<pool, isShuttingDown, healthCheckTimer, client, orphans, given, late,
                       abandoned>>
        /\ \/ /\ ended' = [ended EXCEPT ![pool] = "asked"] /\ ended[pool] = "no"
              /\ awaits' = [awaits EXCEPT ![g] = {g, pool}] /\ UNCHANGED recycling
           \/ /\ awaits' = [awaits EXCEPT ![g] = {}] /\ recycling' = recycling \ {g}
              /\ UNCHANGED ended
    BY <1>13 DEF D!DrainTimesOut
  <2>2. /\ ended' \in [D!Generations -> {"no", "asked", "answered"}]
        /\ awaits' \in [D!Generations -> SUBSET D!Generations]
        /\ recycling' \subseteq D!Generations
    BY <1>0, <2>1
  <2>3. \A h \in D!Generations : ended'[h] = "answered" <=> ended[h] = "answered"
    BY <1>0, <2>1
  <2>4. QED
    BY <1>0, <1>1, <1>r, <2>1, <2>2, <2>3 DEF Over
<1>14. CASE UNCHANGED poolVars
  <2>1. /\ UNCHANGED <<pool, isShuttingDown, healthCheckTimer, ended, awaits, recycling, abandoned>>
        /\ UNCHANGED <<client, orphans, given, late>>
    BY <1>14 DEF poolVars
  <2>2. QED
    BY <1>0, <1>1, <1>r, <2>1 DEF Over
<1>15. QED
  BY <1>3, <1>4, <1>5, <1>6, <1>7, <1>8, <1>9, <1>10, <1>11, <1>12, <1>13, <1>14 DEF D!Next

LEMMA PoolFollows == PoolInv => D!TypeOK /\ D!ClientsAccounted
<1> SUFFICES ASSUME PoolInv PROVE D!ClientsAccounted
  BY DEF PoolInv
<1>1. \A g \in D!Generations : given[g] <= DbPoolMax
  BY ConnectionAssumption DEF PoolInv, D!TypeOK
<1>2. ASSUME NEW g \in D!Generations \ (abandoned \union {pool}) PROVE given[g] = 0
  <2>1. pool \in Int /\ g \in Int
    BY GenerationOne DEF PoolInv, D!TypeOK
  <2>2. Over(g)
    BY <1>2, <2>1 DEF PoolInv, Over
  <2>3. QED
    BY <2>2 DEF PoolInv
<1>3. QED
  BY <1>1, <1>2, PoolCardinality DEF PoolInv, D!ClientsAccounted

-----------------------------------------------------------------------------

(* Ledger events.                                                          *)

Events == 1..MaxEvents
SubState == [at : {"open", "closed"}, pending : BOOLEAN, queue : Seq(Events),
             since : Nat, got : Seq(Events)]
ConnState == [at : {"none", "connecting", "listening", "ending"}, inbox : Seq(Events)]

\* A subscription has heard what was published, and waits only when nothing does.
HasHeard(s, all) ==
    s.at = "open" =>
       /\ s.since <= Len(all)
       /\ s.got \o s.queue = SubSeq(all, s.since + 1, Len(all))
       /\ s.pending => s.queue = <<>>

\* The notifications of a connection come in the order they were sent.
InboxInOrder(inbox, last) ==
    /\ \A i, j \in 1..Len(inbox) : i < j => inbox[i] < inbox[j]
    /\ \A i \in 1..Len(inbox) : inbox[i] <= last

\* Where an event has been published, and where it is on its way.
PublishedAt(e) == {i \in DOMAIN published : published[i] = e}
OnItsWay(e) == {c \in Conns : e \in {conn[c].inbox[i] : i \in DOMAIN conn[c].inbox}}

EventInv ==
    /\ E!TypeOK
    /\ lastArmed => timers > 0
    /\ \A s \in Subscribers : HasHeard(sub[s], published)
    /\ \A c \in Conns : InboxInOrder(conn[c].inbox, events)
    /\ \A i \in 1..Len(published) : published[i] <= events
    /\ \A e \in 1..events :
          Cardinality(PublishedAt(e)) + Cardinality(OnItsWay(e)) <= Cardinality(Conns)

\* The instance's own name for Cardinality.
LEMMA EventCardinality == \A T : E!Cardinality(T) = Cardinality(T)
BY DEF E!Cardinality, Cardinality

LEMMA EventsAreNumbers ==
    ASSUME NEW s \in Seq(Events)
    PROVE  Len(s) \in Nat /\ \A i \in 1..Len(s) : s[i] \in Int
<1>1. Len(s) \in Nat /\ \A i \in 1..Len(s) : s[i] \in Events
  BY LenProperties, ElementOfSeq
<1>2. Events \subseteq Int
  BY DEF Events
<1>3. QED
  BY <1>1, <1>2

LEMMA AppendAfter ==
    ASSUME NEW T, NEW s \in Seq(T), NEW t \in Seq(T), NEW e \in T
    PROVE  s \o Append(t, e) = Append(s \o t, e)
<1>1. <<e>> \in Seq(T) /\ s \o t \in Seq(T)
  BY ConcatProperties
<1>2. Append(t, e) = t \o <<e>>
  BY AppendIsConcat
<1>3. (s \o t) \o <<e>> = s \o (t \o <<e>>)
  BY <1>1, ConcatAssociative
<1>4. Append(s \o t, e) = (s \o t) \o <<e>>
  BY <1>1, AppendIsConcat
<1>5. QED
  BY <1>2, <1>3, <1>4

LEMMA HeadMoves ==
    ASSUME NEW T, NEW s \in Seq(T), NEW t \in Seq(T), t # <<>>
    PROVE  Append(s, Head(t)) \o Tail(t) = s \o t
<1>1. Head(t) \in T /\ Tail(t) \in Seq(T) /\ <<Head(t)>> \in Seq(T)
  BY HeadTailProperties
<1>2. t = <<Head(t)>> \o Tail(t)
  <2>1. 1 \in 1..Len(t) /\ Len(t) \in 1..Len(t)
    BY EmptySeq, LenProperties
  <2>2. SubSeq(t, 1, Len(t)) = <<t[1]>> \o SubSeq(t, 1 + 1, Len(t))
    BY <2>1, SubSeqRecursiveFirst
  <2>3. t[1] = Head(t) /\ Tail(t) = SubSeq(t, 2, Len(t))
    BY <2>1, TailIsSubSeq
  <2>4. QED
    BY <2>2, <2>3, SubSeqFull
<1>3. (s \o <<Head(t)>>) \o Tail(t) = s \o (<<Head(t)>> \o Tail(t))
  BY <1>1, ConcatAssociative
<1>4. Append(s, Head(t)) = s \o <<Head(t)>>
  BY <1>1, AppendIsConcat
<1>5. QED
  BY <1>2, <1>3, <1>4

LEMMA SubSeqGrows ==
    ASSUME NEW all \in Seq(Events), NEW e \in Events, NEW n \in Nat, n <= Len(all)
    PROVE  /\ SubSeq(all, n + 1, Len(all)) \in Seq(Events)
           /\ SubSeq(Append(all, e), n + 1, Len(Append(all, e)))
                = Append(SubSeq(all, n + 1, Len(all)), e)
<1> DEFINE more == Append(all, e)
           old == SubSeq(all, n + 1, Len(all))
           left == SubSeq(more, n + 1, Len(more))
<1>1. /\ more \in Seq(Events) /\ Len(more) = Len(all) + 1 /\ Len(all) \in Nat
      /\ \A i \in 1..Len(all) : more[i] = all[i]
      /\ more[Len(all) + 1] = e
  BY AppendProperties, LenProperties
<1>2. /\ \A i \in 1..Len(all) : all[i] \in Events
      /\ \A i \in 1..Len(more) : more[i] \in Events
  BY <1>1, ElementOfSeq
<1> HIDE DEF more
<1>3. /\ old \in Seq(Events) /\ Len(old) = Len(all) - n
      /\ \A i \in 1..Len(old) : old[i] = all[n + i]
  <2>1. n + 1 \in Int /\ Len(all) \in Int /\ \A i \in n + 1..Len(all) : all[i] \in Events
    BY <1>1, <1>2
  <2>2. /\ old \in Seq(Events)
        /\ Len(old) = IF n + 1 <= Len(all) THEN Len(all) - (n + 1) + 1 ELSE 0
        /\ \A i \in 1..Len(all) - (n + 1) + 1 : old[i] = all[n + 1 + i - 1]
    BY <2>1, SubSeqProperties
  <2> HIDE DEF old
  <2>3. QED
    BY <1>1, <2>2
<1>4. /\ left \in Seq(Events) /\ Len(left) = Len(all) + 1 - n
      /\ \A i \in 1..Len(left) : left[i] = more[n + i]
  <2>1. n + 1 \in Int /\ Len(more) \in Int /\ \A i \in n + 1..Len(more) : more[i] \in Events
    BY <1>1, <1>2
  <2>2. /\ left \in Seq(Events)
        /\ Len(left) = IF n + 1 <= Len(more) THEN Len(more) - (n + 1) + 1 ELSE 0
        /\ \A i \in 1..Len(more) - (n + 1) + 1 : left[i] = more[n + 1 + i - 1]
    BY <2>1, SubSeqProperties
  <2> HIDE DEF left
  <2>3. Len(left) = Len(all) + 1 - n
    BY <1>1, <2>2
  <2>4. ASSUME NEW i \in 1..Len(left) PROVE left[i] = more[n + i]
    <3>1. i \in 1..Len(more) - (n + 1) + 1 /\ n + 1 + i - 1 = n + i
      BY <1>1, <2>3
    <3>2. QED
      BY <2>2, <3>1
  <2>5. QED
    BY <2>2, <2>3, <2>4
<1> HIDE DEF old, left
<1>5. /\ Append(old, e) \in Seq(Events) /\ Len(Append(old, e)) = Len(old) + 1
      /\ \A i \in 1..Len(old) : Append(old, e)[i] = old[i]
      /\ Append(old, e)[Len(old) + 1] = e
  BY <1>3, AppendProperties
<1>6. ASSUME NEW i \in 1..Len(left) PROVE left[i] = Append(old, e)[i]
  <2>1. left[i] = more[n + i] /\ n + i \in 1..Len(all) + 1
    BY <1>1, <1>4
  <2>2. CASE i \in 1..Len(old)
    <3>1. Append(old, e)[i] = all[n + i] /\ n + i \in 1..Len(all)
      BY <1>1, <1>3, <1>5, <2>2
    <3>2. QED
      BY <1>1, <2>1, <3>1
  <2>3. CASE i = Len(old) + 1
    <3>1. n + i = Len(all) + 1
      BY <1>1, <1>3, <2>3
    <3>2. QED
      BY <1>1, <1>5, <2>1, <2>3, <3>1
  <2>4. i \in 1..Len(old) + 1 /\ Len(old) \in Int
    BY <1>1, <1>3, <1>4
  <2>5. QED
    BY <2>2, <2>3, <2>4
<1>7. Len(left) = Len(Append(old, e))
  BY <1>1, <1>3, <1>4, <1>5
<1>8. left = Append(old, e)
  BY <1>4, <1>5, <1>6, <1>7, SeqEqual
<1>9. QED
  BY <1>3, <1>8 DEF more, old, left

\* publish keeps what a subscription has heard complete and in order.
LEMMA HeardInOrder ==
    ASSUME NEW all \in Seq(Events), NEW e \in Events, NEW s \in SubState, HasHeard(s, all)
    PROVE  E!Heard(s, e) \in SubState /\ HasHeard(E!Heard(s, e), Append(all, e))
<1>1. CASE s.at = "closed"
  BY <1>1 DEF E!Heard, HasHeard
<1>2. CASE s.at = "open" /\ s.pending
  <2> DEFINE heard == [at |-> "open", pending |-> FALSE, queue |-> s.queue,
                       since |-> s.since, got |-> Append(s.got, e)]
  <2>0. s.got \in Seq(Events) /\ s.queue \in Seq(Events) /\ s.since \in Nat /\ s.queue = <<>>
        /\ s.since <= Len(all) /\ s.got \o s.queue = SubSeq(all, s.since + 1, Len(all))
    BY <1>2 DEF SubState, HasHeard
  <2>1. E!Heard(s, e) = heard
    BY <1>2 DEF E!Heard, SubState
  <2>2. Append(s.got, e) \in Seq(Events) /\ Append(s.got, e) \o <<>> = Append(s.got, e)
        /\ s.got \o <<>> = s.got
    BY <2>0, AppendProperties, ConcatEmptySeq
  <2>3. Append(s.got, e)
          = SubSeq(Append(all, e), s.since + 1, Len(Append(all, e)))
    <3>1. SubSeq(Append(all, e), s.since + 1, Len(Append(all, e)))
            = Append(SubSeq(all, s.since + 1, Len(all)), e)
      BY <2>0, SubSeqGrows, Zenon
    <3>2. s.got = SubSeq(all, s.since + 1, Len(all))
      BY <2>0, <2>2, Zenon
    <3>3. QED
      BY <3>1, <3>2, Zenon
  <2>4. s.since <= Len(Append(all, e))
    BY <2>0, AppendProperties, LenProperties
  <2>5. heard \in SubState
    BY <2>0, <2>2 DEF SubState
  <2>6. HasHeard(heard, Append(all, e))
    BY <2>0, <2>2, <2>3, <2>4 DEF HasHeard
  <2>7. QED
    BY <2>1, <2>5, <2>6
<1>3. CASE s.at = "open" /\ ~s.pending
  <2> DEFINE heard == [at |-> "open", pending |-> FALSE, queue |-> Append(s.queue, e),
                       since |-> s.since, got |-> s.got]
  <2>0. s.got \in Seq(Events) /\ s.queue \in Seq(Events) /\ s.since \in Nat
        /\ s.pending = FALSE
        /\ s.since <= Len(all) /\ s.got \o s.queue = SubSeq(all, s.since + 1, Len(all))
    BY <1>3 DEF SubState, HasHeard
  <2>1. E!Heard(s, e) = heard
    BY <1>3 DEF E!Heard, SubState
  <2>2. Append(s.queue, e) \in Seq(Events)
    BY <2>0, AppendProperties
  <2>3. s.got \o Append(s.queue, e) = Append(s.got \o s.queue, e)
    <3>1. \A g, q \in Seq(Events) : g \o Append(q, e) = Append(g \o q, e)
      BY AppendAfter
    <3>2. QED
      BY <2>0, <3>1
  <2>4. s.got \o Append(s.queue, e)
          = SubSeq(Append(all, e), s.since + 1, Len(Append(all, e)))
    <3>1. SubSeq(Append(all, e), s.since + 1, Len(Append(all, e)))
            = Append(SubSeq(all, s.since + 1, Len(all)), e)
      BY <2>0, SubSeqGrows, Zenon
    <3>2. QED
      BY <2>0, <2>3, <3>1, Zenon
  <2>5. s.since <= Len(Append(all, e))
    BY <2>0, AppendProperties, LenProperties
  <2>6. heard \in SubState
    BY <2>0, <2>2 DEF SubState
  <2>7. HasHeard(heard, Append(all, e))
    BY <2>4, <2>5 DEF HasHeard
  <2>8. QED
    BY <2>1, <2>6, <2>7
<1>4. QED
  BY <1>1, <1>2, <1>3 DEF SubState

\* next() moves the first of the queue, or waits.
LEMMA AskedInOrder ==
    ASSUME NEW all \in Seq(Events), NEW s \in SubState, HasHeard(s, all),
           s.at = "open", ~s.pending
    PROVE  E!Asked(s) \in SubState /\ HasHeard(E!Asked(s), all)
<1>0. s.got \in Seq(Events) /\ s.queue \in Seq(Events) /\ s.since \in Nat
      /\ s.pending = FALSE
      /\ s.since <= Len(all) /\ s.got \o s.queue = SubSeq(all, s.since + 1, Len(all))
  BY DEF SubState, HasHeard
<1>1. CASE s.queue = <<>>
  <2> DEFINE asked == [at |-> "open", pending |-> TRUE, queue |-> s.queue,
                       since |-> s.since, got |-> s.got]
  <2>1. E!Asked(s) = asked
    BY <1>1 DEF E!Asked, SubState
  <2>2. asked \in SubState
    BY <1>0 DEF SubState
  <2>3. HasHeard(asked, all)
    BY <1>0, <1>1 DEF HasHeard
  <2>4. QED
    BY <2>1, <2>2, <2>3
<1>2. CASE s.queue # <<>>
  <2> DEFINE asked == [at |-> "open", pending |-> FALSE, queue |-> Tail(s.queue),
                       since |-> s.since, got |-> Append(s.got, Head(s.queue))]
  <2>1. E!Asked(s) = asked
    BY <1>0, <1>2 DEF E!Asked, SubState
  <2>2. Head(s.queue) \in Events /\ Tail(s.queue) \in Seq(Events)
    BY <1>0, <1>2, HeadTailProperties
  <2>3. Append(s.got, Head(s.queue)) \in Seq(Events)
    BY <1>0, <2>2, AppendProperties
  <2>8. Append(s.got, Head(s.queue)) \o Tail(s.queue) = s.got \o s.queue
    BY <1>0, <1>2, HeadMoves
  <2>9. asked \in SubState
    BY <1>0, <2>2, <2>3 DEF SubState
  <2>10. HasHeard(asked, all)
    BY <1>0, <2>8 DEF HasHeard
  <2>11. QED
    BY <2>1, <2>9, <2>10
<1>3. QED
  BY <1>1, <1>2

LEMMA EventInit == E!Init => EventInv
<1> SUFFICES ASSUME E!Init PROVE EventInv
  OBVIOUS
<1>1. conn \in [Conns -> ConnState] /\ \A c \in Conns : conn[c].inbox = <<>>
  <2>1. PICK first \in Conns :
          conn = [c \in Conns |-> IF c = first THEN [E!Unused EXCEPT !.at = "connecting"]
                                  ELSE E!Unused]
    BY DEF E!Init
  <2>2. /\ E!Unused \in ConnState /\ [E!Unused EXCEPT !.at = "connecting"] \in ConnState
        /\ E!Unused.inbox = <<>> /\ [E!Unused EXCEPT !.at = "connecting"].inbox = <<>>
    <3>1. /\ E!Unused = [at |-> "none", inbox |-> <<>>]
          /\ [E!Unused EXCEPT !.at = "connecting"] = [at |-> "connecting", inbox |-> <<>>]
          /\ <<>> \in Seq(Events)
      BY DEF E!Unused
    <3>2. QED
      BY <3>1 DEF ConnState
  <2>3. QED
    BY <2>1, <2>2
<1>2. E!Closed \in SubState /\ E!Closed.at = "closed"
  BY DEF E!Closed, SubState
<1>3. sub \in [Subscribers -> SubState] /\ \A s \in Subscribers : sub[s].at = "closed"
  BY <1>2 DEF E!Init
<1>4. events = 0 /\ timers = 0 /\ lastArmed = FALSE /\ stopped = FALSE /\ published = <<>>
      /\ up \in BOOLEAN /\ listener = E!NoConn
  BY DEF E!Init
<1>5. events \in 0..MaxEvents /\ timers \in 0..MaxTimers /\ published \in Seq(Events)
      /\ Len(published) = 0
  BY <1>4, EventAssumption
<1>6. E!TypeOK
  BY <1>1, <1>3, <1>4, <1>5 DEF E!TypeOK, SubState, ConnState, Events
<1>7. \A s \in Subscribers : HasHeard(sub[s], published)
  BY <1>3 DEF HasHeard
<1>8. \A c \in Conns : InboxInOrder(conn[c].inbox, events)
  <2>1. InboxInOrder(<<>>, events)
    BY DEF InboxInOrder
  <2>2. QED
    BY <1>1, <2>1
<1>9. QED
  BY <1>4, <1>5, <1>6, <1>7, <1>8 DEF EventInv

\* PublishedAt and OnItsWay have a size.
LEMMA OccurrencesFinite ==
    ASSUME published \in Seq(Events), NEW e
    PROVE  /\ IsFiniteSet(PublishedAt(e)) /\ Cardinality(PublishedAt(e)) \in Nat
           /\ IsFiniteSet(OnItsWay(e)) /\ Cardinality(OnItsWay(e)) \in Nat
           /\ Cardinality(OnItsWay(e)) <= Cardinality(Conns)
           /\ IsFiniteSet(Conns) /\ Cardinality(Conns) \in Nat
<1>1. DOMAIN published = 1..Len(published) /\ Len(published) \in Int
  BY LenProperties
<1>2. IsFiniteSet(1..Len(published))
  BY <1>1, FS_Interval
<1>3. PublishedAt(e) \subseteq 1..Len(published)
  BY <1>1 DEF PublishedAt
<1>4. IsFiniteSet(PublishedAt(e)) /\ Cardinality(PublishedAt(e)) \in Nat
  BY <1>2, <1>3, FS_Subset, FS_CardinalityType
<1>5. OnItsWay(e) \subseteq Conns
  BY DEF OnItsWay
<1>6. QED
  BY <1>4, <1>5, EventAssumption, FS_Subset, FS_CardinalityType

\* A step that sends and publishes nothing: connections come and go, and lose
\* what was on its way.
LEMMA ConnectionsMove ==
    ASSUME EventInv, conn' \in [Conns -> ConnState],
           \A c \in Conns : conn'[c].inbox = conn[c].inbox \/ conn'[c].inbox = <<>>,
           listener' \in Conns \union {E!NoConn},
           up' \in BOOLEAN, stopped' \in BOOLEAN, lastArmed' \in BOOLEAN,
           timers' \in 0..MaxTimers, lastArmed' => timers' > 0,
           UNCHANGED <<events, sub, published>>
    PROVE  EventInv'
<1>1. E!TypeOK'
  BY DEF EventInv, E!TypeOK, ConnState, Events
<1>2. \A s \in Subscribers : HasHeard(sub'[s], published')
  BY DEF EventInv
<1>3. ASSUME NEW c \in Conns PROVE InboxInOrder(conn'[c].inbox, events')
  <2>1. InboxInOrder(conn[c].inbox, events)
    BY DEF EventInv
  <2>2. CASE conn'[c].inbox = conn[c].inbox
    BY <2>1, <2>2 DEF InboxInOrder
  <2>3. CASE conn'[c].inbox = <<>>
    BY <2>3 DEF InboxInOrder
  <2>4. QED
    BY <2>2, <2>3
<1>4. ASSUME NEW e \in 1..events
      PROVE  Cardinality(PublishedAt(e)') + Cardinality(OnItsWay(e)') <= Cardinality(Conns)
  <2>0. published \in Seq(Events) /\ published' = published
    BY DEF EventInv, E!TypeOK, Events
  <2>1. PublishedAt(e)' = PublishedAt(e)
    BY DEF PublishedAt
  <2>2. OnItsWay(e)' \subseteq OnItsWay(e)
    <3>1. ASSUME NEW c \in Conns, c \in OnItsWay(e)' PROVE c \in OnItsWay(e)
      <4>1. PICK i \in DOMAIN conn'[c].inbox : conn'[c].inbox[i] = e
        BY <3>1 DEF OnItsWay
      <4>2. conn'[c].inbox = conn[c].inbox
        BY <4>1
      <4>3. QED
        BY <4>1, <4>2 DEF OnItsWay
    <3>2. OnItsWay(e)' \subseteq Conns
      BY DEF OnItsWay
    <3>3. QED
      BY <3>1, <3>2
  <2>3. /\ IsFiniteSet(OnItsWay(e)) /\ Cardinality(OnItsWay(e)) \in Nat
        /\ Cardinality(PublishedAt(e)) \in Nat
        /\ Cardinality(Conns) \in Nat
    BY <2>0, OccurrencesFinite
  <2>4. Cardinality(OnItsWay(e)') <= Cardinality(OnItsWay(e)) /\ Cardinality(OnItsWay(e)') \in Nat
    BY <2>2, <2>3, FS_Subset, FS_CardinalityType
  <2>5. Cardinality(PublishedAt(e)) + Cardinality(OnItsWay(e)) <= Cardinality(Conns)
    BY DEF EventInv
  <2>6. QED
    BY <2>1, <2>3, <2>4, <2>5
<1>5. QED
  BY <1>1, <1>2, <1>3, <1>4 DEF EventInv

\* NOTIFY puts the next event last into the inboxes of those that listen.
LEMMA EventSent == EventInv /\ E!Notify => EventInv'
<1> SUFFICES ASSUME EventInv, E!Notify PROVE EventInv'
  OBVIOUS
<1> DEFINE new == events + 1
           Inbox(c) == IF conn[c].at = "listening" THEN Append(conn[c].inbox, new)
                       ELSE conn[c].inbox
<1>1. /\ events' = new /\ events < MaxEvents
      /\ conn' = [c \in Conns |->
            IF conn[c].at = "listening"
            THEN [conn[c] EXCEPT !.inbox = Append(conn[c].inbox, new)] ELSE conn[c]]
      /\ UNCHANGED <<up, timers, lastArmed, listener, stopped, sub, published>>
  BY DEF E!Notify
<1>2. /\ events \in 0..MaxEvents /\ conn \in [Conns -> ConnState]
      /\ published \in Seq(Events)
  BY DEF EventInv, E!TypeOK, ConnState, Events
<1>3. new \in Events /\ events' \in 0..MaxEvents /\ events \in Int /\ new > events
  BY <1>1, <1>2, EventAssumption DEF Events
<1>4. ASSUME NEW c \in Conns
      PROVE  /\ conn'[c] = [at |-> conn[c].at, inbox |-> Inbox(c)]
             /\ Inbox(c) \in Seq(Events)
             /\ InboxInOrder(conn'[c].inbox, events')
             /\ \A e \in 1..events :
                   e \in {conn'[c].inbox[i] : i \in DOMAIN conn'[c].inbox}
                      => e \in {conn[c].inbox[i] : i \in DOMAIN conn[c].inbox}
  <2>0. conn[c] \in ConnState /\ conn[c].inbox \in Seq(Events)
    BY <1>2 DEF ConnState
  <2>1. conn'[c] = [at |-> conn[c].at, inbox |-> Inbox(c)]
    BY <1>1, <2>0 DEF ConnState
  <2>2. InboxInOrder(conn[c].inbox, events)
    BY DEF EventInv
  <2>3. PICK box \in Seq(Events) : box = conn[c].inbox
    BY <2>0
  <2>4. CASE conn[c].at # "listening"
    <3>1. Inbox(c) = box /\ conn'[c].inbox = box
      BY <2>1, <2>3, <2>4
    <3>2. InboxInOrder(conn'[c].inbox, events')
      <4>1. Len(box) \in Nat /\ \A i \in 1..Len(box) : box[i] \in Int
        BY EventsAreNumbers
      <4>2. \A i \in 1..Len(box) : box[i] <= new
        BY <1>3, <2>2, <2>3, <4>1 DEF InboxInOrder
      <4>3. QED
        BY <1>1, <2>2, <2>3, <3>1, <4>2 DEF InboxInOrder
    <3>3. QED
      BY <2>1, <2>3, <3>1, <3>2
  <2>5. CASE conn[c].at = "listening"
    <3> DEFINE more == Append(box, new)
    <3>1. Inbox(c) = more /\ conn'[c].inbox = more
      BY <2>1, <2>3, <2>5
    <3>2. /\ more \in Seq(Events) /\ Len(more) = Len(box) + 1 /\ Len(box) \in Nat
          /\ \A i \in 1..Len(box) : more[i] = box[i]
          /\ more[Len(box) + 1] = new
          /\ DOMAIN more = 1..Len(box) + 1 /\ DOMAIN box = 1..Len(box)
      BY <1>3, AppendProperties, LenProperties
    <3> HIDE DEF more
    <3>3. /\ \A i \in 1..Len(box) : box[i] \in Int /\ box[i] <= events
          /\ \A i, j \in 1..Len(box) : i < j => box[i] < box[j]
      BY <2>2, <2>3, EventsAreNumbers DEF InboxInOrder
    <3>4. \A i \in 1..Len(more) : i \in 1..Len(box) \/ i = Len(box) + 1
      BY <3>2
    <3>5. \A i \in 1..Len(more) : more[i] <= new
      BY <1>3, <3>2, <3>3, <3>4
    <3>6. ASSUME NEW i \in 1..Len(more), NEW j \in 1..Len(more), i < j
          PROVE  more[i] < more[j]
      <4>1. i \in 1..Len(box)
        BY <3>2, <3>6
      <4>2. CASE j \in 1..Len(box)
        BY <3>2, <3>3, <3>6, <4>1, <4>2
      <4>3. CASE j = Len(box) + 1
        BY <1>3, <3>2, <3>3, <4>1, <4>3
      <4>4. QED
        BY <3>4, <4>2, <4>3
    <3>7. InboxInOrder(conn'[c].inbox, events')
      BY <1>1, <3>1, <3>5, <3>6 DEF InboxInOrder
    <3>8. ASSUME NEW e \in 1..events, NEW i \in DOMAIN more, more[i] = e
          PROVE  e \in {box[k] : k \in DOMAIN box}
      <4>1. i # Len(box) + 1
        BY <1>3, <3>2, <3>8
      <4>2. i \in DOMAIN box /\ box[i] = e
        BY <3>2, <3>8, <4>1
      <4>3. QED
        BY <4>2
    <3>9. QED
      BY <2>1, <2>3, <3>1, <3>2, <3>7, <3>8
  <2>6. QED
    BY <2>4, <2>5
<1> HIDE DEF Inbox
<1>5. conn' \in [Conns -> ConnState]
  <2>1. ASSUME NEW c \in Conns PROVE conn'[c] \in ConnState
    <3>1. conn[c].at \in {"none", "connecting", "listening", "ending"}
      BY <1>2 DEF ConnState
    <3>2. [at |-> conn[c].at, inbox |-> Inbox(c)] \in ConnState
      BY <1>4, <3>1 DEF ConnState
    <3>3. QED
      BY <1>4, <3>2
  <2>2. QED
    BY <1>1, <2>1
<1>6. E!TypeOK'
  BY <1>1, <1>3, <1>5 DEF EventInv, E!TypeOK, ConnState, Events
<1>7. \A i \in 1..Len(published) : published[i] \in Int /\ published[i] <= events
  <2>1. \A i \in 1..Len(published) : published[i] \in Int
    BY <1>2, EventsAreNumbers
  <2>2. QED
    BY <2>1 DEF EventInv
<1>8. ASSUME NEW e \in 1..new
      PROVE  Cardinality(PublishedAt(e)') + Cardinality(OnItsWay(e)') <= Cardinality(Conns)
  <2>1. PublishedAt(e)' = PublishedAt(e)
    BY <1>1 DEF PublishedAt
  <2>2. /\ IsFiniteSet(OnItsWay(e)) /\ Cardinality(OnItsWay(e)) \in Nat
        /\ Cardinality(PublishedAt(e)) \in Nat /\ IsFiniteSet(Conns)
        /\ Cardinality(Conns) \in Nat
    BY <1>2, OccurrencesFinite
  <2>3. OnItsWay(e)' \subseteq Conns
    BY DEF OnItsWay
  <2>4. Cardinality(OnItsWay(e)') <= Cardinality(Conns) /\ Cardinality(OnItsWay(e)') \in Nat
    BY <2>2, <2>3, FS_Subset, FS_CardinalityType
  <2>5. CASE e = new
    <3>1. PublishedAt(e) = {}
      BY <1>2, <1>3, <1>7, <2>5, LenProperties DEF PublishedAt
    <3>2. Cardinality(PublishedAt(e)) = 0
      BY <3>1, FS_EmptySet
    <3>3. QED
      BY <2>1, <2>4, <3>2
  <2>6. CASE e \in 1..events
    <3>1. OnItsWay(e)' \subseteq OnItsWay(e)
      BY <1>4, <2>6 DEF OnItsWay
    <3>2. Cardinality(OnItsWay(e)') <= Cardinality(OnItsWay(e))
      BY <2>2, <3>1, FS_Subset
    <3>3. Cardinality(PublishedAt(e)) + Cardinality(OnItsWay(e)) <= Cardinality(Conns)
      BY <2>6 DEF EventInv
    <3>4. QED
      BY <2>1, <2>2, <2>4, <3>2, <3>3
  <2>7. QED
    BY <1>3, <2>5, <2>6
<1>9. \A i \in 1..Len(published') : published'[i] <= events'
  BY <1>1, <1>3, <1>7
<1>10. lastArmed' => timers' > 0
  BY <1>1 DEF EventInv
<1>11. \A s \in Subscribers : HasHeard(sub'[s], published')
  BY <1>1 DEF EventInv
<1>12. QED
  BY <1>1, <1>4, <1>6, <1>8, <1>9, <1>10, <1>11 DEF EventInv

\* The first of an inbox is published: it leaves the inbox for good.
LEMMA EventPublished ==
    ASSUME EventInv, NEW c \in Conns, E!Publish(c) PROVE EventInv'
<1>0. /\ events \in 0..MaxEvents /\ conn \in [Conns -> ConnState]
      /\ published \in Seq(Events) /\ sub \in [Subscribers -> SubState]
  BY DEF EventInv, E!TypeOK, ConnState, SubState, Events
<1>1. PICK box \in Seq(Events) : box = conn[c].inbox
  BY <1>0 DEF ConnState
<1>2. box # <<>>
  BY <1>1 DEF E!Publish
<1>3. PICK e : e = Head(box)
  OBVIOUS
<1>4. PICK rest : rest = Tail(box)
  OBVIOUS
<1>5. /\ sub' = [s \in Subscribers |-> E!Heard(sub[s], e)]
      /\ published' = Append(published, e)
      /\ conn' = [conn EXCEPT ![c].inbox = rest]
      /\ UNCHANGED <<up, events, timers, lastArmed, listener, stopped>>
  BY <1>1, <1>3, <1>4 DEF E!Publish
<1>6. /\ e \in Events /\ rest \in Seq(Events) /\ e = box[1]
      /\ Len(box) \in Nat /\ Len(box) >= 1
      /\ Len(rest) = Len(box) - 1 /\ DOMAIN rest = 1..Len(rest) /\ DOMAIN box = 1..Len(box)
      /\ \A i \in 1..Len(rest) : rest[i] = box[i + 1]
  BY <1>2, <1>3, <1>4, HeadTailProperties, LenProperties, EmptySeq
<1>7. /\ \A i \in 1..Len(box) : box[i] \in Int /\ box[i] <= events
      /\ \A i, j \in 1..Len(box) : i < j => box[i] < box[j]
  <2>1. InboxInOrder(box, events)
    BY <1>1 DEF EventInv
  <2>2. \A i \in 1..Len(box) : box[i] \in Int
    BY EventsAreNumbers
  <2>3. QED
    BY <2>1, <2>2 DEF InboxInOrder
<1>8. \A i \in 1..Len(rest) : i + 1 \in 1..Len(box) /\ rest[i] > e /\ rest[i] <= events
  <2>1. ASSUME NEW i \in 1..Len(rest)
        PROVE  i + 1 \in 1..Len(box) /\ rest[i] > e /\ rest[i] <= events
    <3>1. i + 1 \in 1..Len(box) /\ 1 \in 1..Len(box) /\ 1 < i + 1
      BY <1>6
    <3>2. QED
      BY <1>6, <1>7, <3>1
  <2>2. QED
    BY <2>1
<1>9. e <= events /\ e \in Int
  <2>1. 1 \in 1..Len(box)
    BY <1>6
  <2>2. QED
    BY <1>6, <1>7, <2>1
<1>10. conn' = [conn EXCEPT ![c] = [at |-> conn[c].at, inbox |-> rest]]
  <2>1. [conn[c] EXCEPT !.inbox = rest] = [at |-> conn[c].at, inbox |-> rest]
    BY <1>0 DEF ConnState
  <2>2. QED
    BY <1>5, <2>1
<1>11. conn'[c].inbox = rest /\ \A d \in Conns \ {c} : conn'[d] = conn[d]
  BY <1>0, <1>10
<1>12. conn' \in [Conns -> ConnState]
  <2>1. [at |-> conn[c].at, inbox |-> rest] \in ConnState
    BY <1>0, <1>6 DEF ConnState
  <2>2. QED
    BY <1>0, <1>10, <2>1
<1>13. /\ published' \in Seq(Events) /\ Len(published') = Len(published) + 1
       /\ Len(published) \in Nat /\ DOMAIN published = 1..Len(published)
       /\ DOMAIN published' = 1..Len(published) + 1
       /\ \A i \in 1..Len(published) : published'[i] = published[i]
       /\ published'[Len(published) + 1] = e
  BY <1>0, <1>5, <1>6, AppendProperties, LenProperties
<1>14. \A s \in Subscribers : sub'[s] \in SubState /\ HasHeard(sub'[s], published')
  <2>1. ASSUME NEW s \in Subscribers
        PROVE  sub'[s] \in SubState /\ HasHeard(sub'[s], published')
    <3>1. sub[s] \in SubState /\ HasHeard(sub[s], published)
      BY <1>0 DEF EventInv
    <3>2. /\ E!Heard(sub[s], e) \in SubState
          /\ HasHeard(E!Heard(sub[s], e), Append(published, e))
      BY <1>0, <1>6, <3>1, HeardInOrder
    <3>3. QED
      BY <1>5, <3>2
  <2>2. QED
    BY <2>1
<1>15. sub' \in [Subscribers -> SubState]
  BY <1>5, <1>14
<1>16. E!TypeOK'
  BY <1>5, <1>12, <1>13, <1>15 DEF EventInv, E!TypeOK, ConnState, SubState, Events
<1>17. ASSUME NEW d \in Conns PROVE InboxInOrder(conn'[d].inbox, events')
  <2>1. CASE d = c
    <3>1. ASSUME NEW i \in 1..Len(rest), NEW j \in 1..Len(rest), i < j
          PROVE  rest[i] < rest[j]
      <4>1. i + 1 \in 1..Len(box) /\ j + 1 \in 1..Len(box) /\ i + 1 < j + 1
        BY <1>6, <3>1
      <4>2. QED
        BY <1>6, <1>7, <4>1
    <3>2. QED
      BY <1>5, <1>8, <1>11, <2>1, <3>1 DEF InboxInOrder
  <2>2. CASE d # c
    <3>1. InboxInOrder(conn[d].inbox, events) /\ conn'[d] = conn[d]
      BY <1>11, <2>2 DEF EventInv
    <3>2. QED
      BY <1>5, <3>1 DEF InboxInOrder
  <2>3. QED
    BY <2>1, <2>2
<1>18. \A i \in 1..Len(published') : published'[i] <= events'
  <2>1. \A i \in 1..Len(published) : published[i] <= events
    BY DEF EventInv
  <2>2. \A i \in 1..Len(published') : i \in 1..Len(published) \/ i = Len(published) + 1
    BY <1>13
  <2>3. QED
    BY <1>5, <1>9, <1>13, <2>1, <2>2
<1>19. ASSUME NEW f \in 1..events
       PROVE  Cardinality(PublishedAt(f)') + Cardinality(OnItsWay(f)') <= Cardinality(Conns)
  <2>1. /\ IsFiniteSet(PublishedAt(f)) /\ Cardinality(PublishedAt(f)) \in Nat
        /\ IsFiniteSet(OnItsWay(f)) /\ Cardinality(OnItsWay(f)) \in Nat
        /\ Cardinality(Conns) \in Nat
    BY <1>0, OccurrencesFinite
  <2>2. Cardinality(PublishedAt(f)) + Cardinality(OnItsWay(f)) <= Cardinality(Conns)
    BY DEF EventInv
  <2>3. CASE f # e
    <3>1. PublishedAt(f)' = PublishedAt(f)
      BY <1>13, <2>3 DEF PublishedAt
    <3>2. OnItsWay(f)' \subseteq OnItsWay(f)
      <4>1. ASSUME NEW d \in Conns, d \in OnItsWay(f)' PROVE d \in OnItsWay(f)
        <5>1. PICK i \in DOMAIN conn'[d].inbox : conn'[d].inbox[i] = f
          BY <4>1 DEF OnItsWay
        <5>2. CASE d = c
          <6>1. i + 1 \in DOMAIN box /\ box[i + 1] = f
            BY <1>6, <1>8, <1>11, <5>1, <5>2
          <6>2. QED
            BY <1>1, <5>2, <6>1 DEF OnItsWay
        <5>3. CASE d # c
          BY <1>11, <5>1, <5>3 DEF OnItsWay
        <5>4. QED
          BY <5>2, <5>3
      <4>2. OnItsWay(f)' \subseteq Conns
        BY DEF OnItsWay
      <4>3. QED
        BY <4>1, <4>2
    <3>3. Cardinality(OnItsWay(f)') <= Cardinality(OnItsWay(f))
          /\ Cardinality(OnItsWay(f)') \in Nat
      BY <2>1, <3>2, FS_Subset, FS_CardinalityType
    <3>4. QED
      BY <2>1, <2>2, <3>1, <3>3
  <2>4. CASE f = e
    <3>1. PublishedAt(f)' = PublishedAt(f) \cup {Len(published) + 1}
          /\ Len(published) + 1 \notin PublishedAt(f)
      BY <1>13, <2>4 DEF PublishedAt
    <3>2. Cardinality(PublishedAt(f)') = Cardinality(PublishedAt(f)) + 1
      BY <2>1, <3>1, FS_AddElement
    <3>3. c \in OnItsWay(f)
      <4>1. 1 \in DOMAIN box /\ box[1] = f
        BY <1>6, <2>4
      <4>2. QED
        BY <1>1, <4>1 DEF OnItsWay
    <3>4. OnItsWay(f)' \subseteq OnItsWay(f) \ {c}
      <4>1. c \notin OnItsWay(f)'
        <5>1. \A i \in DOMAIN rest : rest[i] # f
          BY <1>6, <1>8, <1>9, <2>4
        <5>2. QED
          BY <1>11, <5>1 DEF OnItsWay
      <4>2. ASSUME NEW d \in Conns \ {c}, d \in OnItsWay(f)' PROVE d \in OnItsWay(f)
        BY <1>11, <4>2 DEF OnItsWay
      <4>3. OnItsWay(f)' \subseteq Conns
        BY DEF OnItsWay
      <4>4. QED
        BY <4>1, <4>2, <4>3
    <3>5. /\ IsFiniteSet(OnItsWay(f) \ {c})
          /\ Cardinality(OnItsWay(f) \ {c}) = Cardinality(OnItsWay(f)) - 1
      BY <2>1, <3>3, FS_RemoveElement
    <3>6. Cardinality(OnItsWay(f)') <= Cardinality(OnItsWay(f)) - 1
          /\ Cardinality(OnItsWay(f)') \in Nat
      BY <3>4, <3>5, FS_Subset, FS_CardinalityType
    <3>7. QED
      BY <2>1, <2>2, <3>2, <3>6
  <2>5. QED
    BY <2>3, <2>4
<1>20. lastArmed' => timers' > 0
  BY <1>5 DEF EventInv
<1>21. events' = events
  BY <1>5
<1>22. QED
  BY <1>14, <1>16, <1>17, <1>18, <1>19, <1>20, <1>21 DEF EventInv

LEMMA EventStep == EventInv /\ [E!Next]_eventVars => EventInv'
<1> SUFFICES ASSUME EventInv, [E!Next]_eventVars PROVE EventInv'
  OBVIOUS
<1>0. /\ up \in BOOLEAN /\ stopped \in BOOLEAN /\ lastArmed \in BOOLEAN
      /\ timers \in 0..MaxTimers /\ timers \in Int /\ (lastArmed => timers > 0)
      /\ conn \in [Conns -> ConnState] /\ listener \in Conns \union {E!NoConn}
      /\ sub \in [Subscribers -> SubState] /\ published \in Seq(Events)
      /\ events \in 0..MaxEvents
  BY EventAssumption DEF EventInv, E!TypeOK, ConnState, SubState, Events
<1>s. E!ScheduleReconnect =>
         timers' \in 0..MaxTimers /\ lastArmed' \in BOOLEAN /\ (lastArmed' => timers' > 0)
  <2>1. CASE stopped
    BY <1>0, <2>1 DEF E!ScheduleReconnect
  <2>2. CASE ~stopped
    <3>1. SUFFICES ASSUME E!ScheduleReconnect
                   PROVE  timers' \in 0..MaxTimers /\ timers' > 0 /\ lastArmed' = TRUE
      OBVIOUS
    <3>2. timers' = (IF timers < MaxTimers THEN timers + 1 ELSE timers) /\ lastArmed' = TRUE
      BY <2>2, <3>1 DEF E!ScheduleReconnect
    <3>3. QED
      BY <1>0, <3>2, EventAssumption
  <2>3. QED
    BY <2>1, <2>2
<1>m. ASSUME NEW c \in Conns,
             NEW at \in {"none", "connecting", "listening", "ending"},
             conn' = [conn EXCEPT ![c].at = at]
      PROVE  /\ conn' \in [Conns -> ConnState]
             /\ \A d \in Conns : conn'[d].inbox = conn[d].inbox \/ conn'[d].inbox = <<>>
  <2>1. conn' = [conn EXCEPT ![c] = [at |-> at, inbox |-> conn[c].inbox]]
    <3>1. [conn[c] EXCEPT !.at = at] = [at |-> at, inbox |-> conn[c].inbox]
      BY <1>0 DEF ConnState
    <3>2. QED
      BY <1>m, <3>1
  <2>2. [at |-> at, inbox |-> conn[c].inbox] \in ConnState
    BY <1>0 DEF ConnState
  <2>3. QED
    BY <1>0, <2>1, <2>2
<1>u. ASSUME NEW c \in Conns, conn' = [conn EXCEPT ![c] = E!Unused]
      PROVE  /\ conn' \in [Conns -> ConnState]
             /\ \A d \in Conns : conn'[d].inbox = conn[d].inbox \/ conn'[d].inbox = <<>>
  <2>1. E!Unused = [at |-> "none", inbox |-> <<>>] /\ <<>> \in Seq(Events)
    BY DEF E!Unused
  <2>2. E!Unused \in ConnState /\ E!Unused.inbox = <<>>
    BY <2>1 DEF ConnState
  <2>3. QED
    BY <1>0, <1>u, <2>2
<1>1. CASE E!DatabaseUp
  BY <1>0, <1>1, ConnectionsMove DEF E!DatabaseUp
<1>2. CASE E!Notify
  BY <1>2, EventSent
<1>3. CASE E!TimerFires
  <2>1. PICK c \in Conns : conn' = [conn EXCEPT ![c].at = "connecting"]
    BY <1>3 DEF E!TimerFires
  <2>2. /\ timers' \in 0..MaxTimers /\ lastArmed' \in BOOLEAN /\ (lastArmed' => timers' > 0)
        /\ UNCHANGED <<up, events, listener, stopped, sub, published>>
    <3>1. /\ timers > 0 /\ timers' = timers - 1
          /\ lastArmed' \in (IF timers = 1 THEN {FALSE} ELSE {FALSE, lastArmed})
          /\ UNCHANGED <<up, events, listener, stopped, sub, published>>
      BY <1>3 DEF E!TimerFires
    <3>2. timers' \in 0..MaxTimers /\ (timers # 1 => timers' > 0)
      BY <1>0, <3>1, EventAssumption
    <3>3. lastArmed' \in BOOLEAN /\ (timers = 1 => lastArmed' = FALSE)
      BY <1>0, <3>1, Zenon
    <3>4. QED
      BY <3>1, <3>2, <3>3
  <2>3. QED
    BY <1>0, <1>m, <2>1, <2>2, ConnectionsMove
<1>4. CASE E!StopListener
  <2>1. /\ timers' \in 0..MaxTimers /\ lastArmed' = FALSE /\ stopped' = TRUE
        /\ listener' = E!NoConn /\ UNCHANGED <<up, events, sub, published>>
    <3>1. /\ timers' = (IF lastArmed THEN timers - 1 ELSE timers)
          /\ lastArmed' = FALSE /\ stopped' = TRUE
          /\ listener' = E!NoConn /\ UNCHANGED <<up, events, sub, published>>
      BY <1>4 DEF E!StopListener
    <3>2. timers' \in 0..MaxTimers
      <4>1. CASE lastArmed
        <5>1. timers > 0 /\ timers' = timers - 1
          BY <1>0, <3>1, <4>1
        <5>2. QED
          BY <1>0, <5>1, EventAssumption
      <4>2. CASE ~lastArmed
        BY <1>0, <3>1, <4>2
      <4>3. QED
        BY <4>1, <4>2
    <3>3. QED
      BY <3>1, <3>2
  <2>2. /\ conn' \in [Conns -> ConnState]
        /\ \A d \in Conns : conn'[d].inbox = conn[d].inbox \/ conn'[d].inbox = <<>>
    <3>1. CASE listener = E!NoConn
      BY <1>0, <1>4, <3>1 DEF E!StopListener
    <3>2. CASE listener # E!NoConn
      <4>1. listener \in Conns /\ conn' = [conn EXCEPT ![listener] = E!Unused]
        BY <1>0, <1>4, <3>2 DEF E!StopListener
      <4>2. QED
        BY <1>u, <4>1
    <3>3. QED
      BY <3>1, <3>2
  <2>3. QED
    BY <1>0, <2>1, <2>2, ConnectionsMove
<1>5. ASSUME NEW c \in Conns, E!Listens(c) \/ E!ConnectRejects(c) \/ E!ConnectionLost(c)
      PROVE  EventInv'
  <2>1. PICK at \in {"none", "connecting", "listening", "ending"} :
            conn' = [conn EXCEPT ![c].at = at]
    BY <1>5 DEF E!Listens, E!ConnectRejects, E!ConnectionLost
  <2>2. /\ timers' \in 0..MaxTimers /\ lastArmed' \in BOOLEAN /\ (lastArmed' => timers' > 0)
        /\ listener' \in Conns \union {E!NoConn}
        /\ UNCHANGED <<up, events, stopped, sub, published>>
    BY <1>0, <1>s, <1>5 DEF E!Listens, E!ConnectRejects, E!ConnectionLost
  <2>3. QED
    BY <1>0, <1>m, <2>1, <2>2, ConnectionsMove
<1>6. ASSUME NEW c \in Conns, E!ConnectionEnds(c) PROVE EventInv'
  <2>1. /\ timers' \in 0..MaxTimers /\ lastArmed' \in BOOLEAN /\ (lastArmed' => timers' > 0)
        /\ UNCHANGED <<up, events, listener, stopped, sub, published>>
        /\ conn' = [conn EXCEPT ![c] = E!Unused]
    BY <1>s, <1>6 DEF E!ConnectionEnds
  <2>2. QED
    BY <1>0, <1>u, <2>1, ConnectionsMove
<1>7. ASSUME NEW c \in Conns, E!Publish(c) PROVE EventInv'
  BY <1>7, EventPublished
\* Nothing is sent or published.
<1>k. ASSUME UNCHANGED <<up, events, conn, timers, lastArmed, listener, stopped, published>>,
             sub' \in [Subscribers -> SubState],
             \A s \in Subscribers : HasHeard(sub'[s], published)
      PROVE  EventInv'
  <2>1. E!TypeOK'
    BY <1>k DEF EventInv, E!TypeOK, SubState, Events
  <2>2. \A e : PublishedAt(e)' = PublishedAt(e) /\ OnItsWay(e)' = OnItsWay(e)
    BY <1>k DEF PublishedAt, OnItsWay
  <2>3. QED
    BY <1>k, <2>1, <2>2 DEF EventInv, InboxInOrder
<1>h. \A s \in Subscribers : sub[s] \in SubState /\ HasHeard(sub[s], published)
  BY <1>0 DEF EventInv
<1>8. ASSUME NEW s \in Subscribers, NEW v \in SubState, HasHeard(v, published),
             sub' = [sub EXCEPT ![s] = v],
             UNCHANGED <<up, events, conn, timers, lastArmed, listener, stopped, published>>
      PROVE  EventInv'
  <2>1. sub' \in [Subscribers -> SubState]
    BY <1>0, <1>8
  <2>2. \A r \in Subscribers : HasHeard(sub'[r], published)
    BY <1>0, <1>h, <1>8
  <2>3. QED
    BY <1>k, <1>8, <2>1, <2>2
<1>9. ASSUME NEW s \in Subscribers, E!Subscribe(s) PROVE EventInv'
  <2> DEFINE v == [at |-> "open", pending |-> FALSE, queue |-> <<>>,
                   since |-> Len(published), got |-> <<>>]
  <2>1. E!Opened = v
    BY DEF E!Opened
  <2>2. Len(published) \in Nat /\ <<>> \in Seq(Events)
    BY <1>0, LenProperties
  <2>3. v \in SubState
    BY <2>2 DEF SubState
  <2>4. HasHeard(v, published)
    <3>1. <<>> \o <<>> = <<>>
      BY <2>2, ConcatEmptySeq
    <3>2. SubSeq(published, Len(published) + 1, Len(published)) = <<>>
      BY <2>2, SubSeqEmpty
    <3>3. QED
      BY <2>2, <3>1, <3>2 DEF HasHeard
  <2>5. sub' = [sub EXCEPT ![s] = v] /\
        UNCHANGED <<up, events, conn, timers, lastArmed, listener, stopped, published>>
    BY <1>9, <2>1 DEF E!Subscribe, E!listenVars
  <2>6. QED
    BY <1>8, <2>3, <2>4, <2>5
<1>10. ASSUME NEW s \in Subscribers, E!NextEvent(s) PROVE EventInv'
  <2>1. E!Asked(sub[s]) \in SubState /\ HasHeard(E!Asked(sub[s]), published)
    BY <1>0, <1>h, <1>10, AskedInOrder DEF E!NextEvent
  <2>2. sub' = [sub EXCEPT ![s] = E!Asked(sub[s])] /\
        UNCHANGED <<up, events, conn, timers, lastArmed, listener, stopped, published>>
    BY <1>10 DEF E!NextEvent, E!listenVars
  <2>3. QED
    BY <1>8, <2>1, <2>2
<1>11. ASSUME NEW s \in Subscribers, E!Return(s) PROVE EventInv'
  <2>1. E!Closed \in SubState /\ HasHeard(E!Closed, published)
    BY DEF E!Closed, SubState, HasHeard
  <2>2. sub' = [sub EXCEPT ![s] = E!Closed] /\
        UNCHANGED <<up, events, conn, timers, lastArmed, listener, stopped, published>>
    BY <1>11 DEF E!Return, E!listenVars
  <2>3. QED
    BY <1>8, <2>1, <2>2
<1>12. CASE UNCHANGED eventVars
  <2>1. UNCHANGED <<up, events, conn, timers, lastArmed, listener, stopped, sub, published>>
    BY <1>12 DEF eventVars
  <2>2. QED
    BY <1>0, <1>h, <1>k, <2>1
<1>13. QED
  BY <1>1, <1>2, <1>3, <1>4, <1>5, <1>6, <1>7, <1>9, <1>10, <1>11, <1>12 DEF E!Next

LEMMA EventFollows == EventInv => E!TypeOK /\ E!EveryEventHeard
BY EventCardinality DEF EventInv, E!EveryEventHeard, HasHeard, PublishedAt, OnItsWay

-----------------------------------------------------------------------------

(* The request budget of the API.                                          *)

Within(rec, g) == Fits(RateWindow, RateLimitMax, rec.left, rec.count, g)

RateInv == A!TypeOK /\ \A s \in A!Stores : Within(A!Record(s), granted[s])

RequestType ==
    [at : {"idle", "asking", "counted"}, count : 0..RateLimitMax + 1, store : A!Stores]

\* What is known of every store.
LEMMA EachStore ==
    ASSUME RateInv
    PROVE  /\ \A s \in A!Stores : /\ A!Record(s) \in A!Records
                                  /\ granted[s] \in [1..RateWindow -> Nat]
                                  /\ Within(A!Record(s), granted[s])
           /\ "shared" \in A!Stores /\ A!Record("shared") = shared
           /\ \A r \in Replicas : r \in A!Stores /\ A!Record(r) = memory[r]
BY RateAssumption DEF RateInv, A!TypeOK, A!Record, A!Stores, A!Spans

\* What holds of each store holds of all of them.
LEMMA AllStores ==
    ASSUME shared \in A!Records, memory \in [Replicas -> A!Records],
           granted \in [A!Stores -> [1..RateWindow -> Nat]],
           request \in [Requests -> RequestType],
           Within(shared, granted["shared"]),
           \A r \in Replicas : Within(memory[r], granted[r])
    PROVE  RateInv
BY RateAssumption DEF RateInv, RequestType, A!Record, A!TypeOK, A!Stores, A!Spans

LEMMA RateInit == A!Init => RateInv
<1> SUFFICES ASSUME A!Init PROVE RateInv
  OBVIOUS
<1>1. /\ shared = [count |-> 0, left |-> 0] /\ memory = [r \in Replicas |-> shared]
      /\ granted = [s \in A!Stores |-> [n \in 1..RateWindow |-> 0]]
      /\ request = [q \in Requests |-> [at |-> "idle", count |-> 0, store |-> "shared"]]
  BY DEF A!Init, A!NoRecord, A!Idle, A!Spans
<1>2. shared \in A!Records /\ shared.left \in 0..RateWindow /\ shared.count \in Nat
  BY <1>1, RateAssumption DEF A!Records
<1>3. Within(shared, [n \in 1..RateWindow |-> 0]) /\ [n \in 1..RateWindow |-> 0] \in [1..RateWindow -> Nat]
  BY <1>2, RateAssumption, WindowBegins DEF Within
<1>4. "shared" \in A!Stores /\ \A r \in Replicas : r \in A!Stores
  BY DEF A!Stores
<1>5. request \in [Requests -> RequestType]
  BY <1>1, <1>4, RateAssumption DEF RequestType
<1>6. /\ granted \in [A!Stores -> [1..RateWindow -> Nat]] /\ memory \in [Replicas -> A!Records]
      /\ granted["shared"] = [n \in 1..RateWindow |-> 0]
      /\ \A r \in Replicas : memory[r] = shared /\ granted[r] = [n \in 1..RateWindow |-> 0]
  BY <1>1, <1>2, <1>3, <1>4, Zenon
<1>7. QED
  BY <1>2, <1>3, <1>5, <1>6, AllStores

\* Counting a request, and allowing it within the budget.
LEMMA StoreCounts ==
    ASSUME NEW rec \in A!Records, NEW g \in [1..RateWindow -> Nat], Within(rec, g),
           NEW now, now = A!Incremented(rec)
    PROVE  /\ now \in A!Records /\ Within(now, g)
           /\ now.count <= RateLimitMax => Within(now, OneMore(RateWindow, g))
<1>1. /\ RateWindow \in Nat \ {0} /\ RateLimitMax \in Nat
      /\ rec.count \in Nat /\ rec.count <= RateLimitMax + 1 /\ rec.left \in 0..RateWindow
  BY RateAssumption DEF A!Records
<1>2. CASE rec.left = 0
  <2>1. now = [count |-> 1, left |-> RateWindow]
    BY <1>2 DEF A!Incremented
  <2>2. /\ Fits(RateWindow, RateLimitMax, RateWindow, 1, g)
        /\ 1 <= RateLimitMax => Fits(RateWindow, RateLimitMax, RateWindow, 1, OneMore(RateWindow, g))
    BY <1>1, <1>2, WindowOpens DEF Within
  <2>3. QED
    BY <1>1, <2>1, <2>2 DEF Within, A!Records
<1>3. CASE rec.left # 0
  <2>1. /\ now.left = rec.left /\ now.count = A!Cap(rec.count + 1)
        /\ now = [count |-> now.count, left |-> now.left]
    BY <1>3 DEF A!Incremented, A!Records
  <2>2. /\ now.count \in 0..RateLimitMax + 1 /\ now.count \in Nat /\ rec.count <= now.count
        /\ now.count <= RateLimitMax => now.count = rec.count + 1
        /\ rec.left \in 1..RateWindow
    BY <1>1, <1>3, <2>1 DEF A!Cap
  <2>3. /\ Fits(RateWindow, RateLimitMax, rec.left, now.count, g)
        /\ now.count <= RateLimitMax =>
              Fits(RateWindow, RateLimitMax, rec.left, now.count, OneMore(RateWindow, g))
    BY <1>1, <2>2, WindowCounts DEF Within
  <2>4. QED
    BY <1>1, <2>1, <2>2, <2>3 DEF Within, A!Records
<1>4. QED
  BY <1>2, <1>3

LEMMA StoreAges ==
    ASSUME NEW rec \in A!Records, NEW g \in [1..RateWindow -> Nat], Within(rec, g)
    PROVE  /\ A!Elapsed(rec) \in A!Records /\ Aged(RateWindow, g) \in [1..RateWindow -> Nat]
           /\ Within(A!Elapsed(rec), Aged(RateWindow, g))
<1> DEFINE left == IF rec.left = 0 THEN 0 ELSE rec.left - 1
<1>1. /\ RateWindow \in Nat \ {0} /\ RateLimitMax \in Nat
      /\ rec.count \in 0..RateLimitMax + 1 /\ rec.count \in Nat /\ rec.left \in 0..RateWindow
  BY RateAssumption DEF A!Records
<1>2. A!Elapsed(rec) = [count |-> rec.count, left |-> left]
  BY DEF A!Elapsed, A!Records
<1>3. left \in 0..RateWindow
  BY <1>1
<1>4. /\ Aged(RateWindow, g) \in [1..RateWindow -> Nat]
      /\ Fits(RateWindow, RateLimitMax, left, rec.count, Aged(RateWindow, g))
  BY <1>1, WindowAges DEF Within
<1> HIDE DEF left
<1>5. QED
  BY <1>1, <1>2, <1>3, <1>4 DEF Within, A!Records

\* A request counted by one store, whose record becomes rec.
LEMMA StoreAllows ==
    ASSUME RateInv, NEW store \in A!Stores, NEW rec, rec = A!Incremented(A!Record(store)),
           A!Count(store, rec)
    PROVE  /\ granted' \in [A!Stores -> [1..RateWindow -> Nat]] /\ rec \in A!Records
           /\ Within(rec, granted'[store]) /\ Within(rec, granted[store])
           /\ \A s \in A!Stores : s # store => granted'[s] = granted[s]
<1>1. /\ rec \in A!Records /\ Within(rec, granted[store])
      /\ rec.count <= RateLimitMax => Within(rec, OneMore(RateWindow, granted[store]))
      /\ granted[store] \in [1..RateWindow -> Nat] /\ InOrder(RateWindow, granted[store])
  BY EachStore, StoreCounts DEF Within, Fits
<1>2. granted \in [A!Stores -> [1..RateWindow -> Nat]]
  BY DEF RateInv, A!TypeOK, A!Spans
<1>3. CASE rec.count > RateLimitMax
  BY <1>1, <1>2, <1>3 DEF A!Count
<1>4. CASE ~(rec.count > RateLimitMax)
  <2>1. granted' = [granted EXCEPT ![store] = OneMore(RateWindow, granted[store])]
    BY <1>4 DEF A!Count, A!Spans, OneMore
  <2>2. OneMore(RateWindow, granted[store]) \in [1..RateWindow -> Nat]
    BY <1>1, RateAssumption, OneMoreInOrder
  <2>3. rec.count <= RateLimitMax
    BY <1>1, <1>4, RateAssumption DEF A!Records
  <2>4. QED
    BY <1>1, <1>2, <2>1, <2>2, <2>3
<1>5. QED
  BY <1>3, <1>4

LEMMA RateStep ==
    ASSUME RateInv, [A!Next]_limitVars PROVE RateInv'
<1>1. CASE UNCHANGED limitVars
  BY <1>1 DEF limitVars, RateInv, A!TypeOK, A!Record
<1>2. /\ shared \in A!Records /\ memory \in [Replicas -> A!Records]
      /\ granted \in [A!Stores -> [1..RateWindow -> Nat]]
      /\ request \in [Requests -> RequestType]
      /\ Within(shared, granted["shared"])
      /\ \A r \in Replicas : Within(memory[r], granted[r])
  BY EachStore DEF RateInv, RequestType, A!TypeOK, A!Spans
<1>a. ASSUME shared' \in A!Records, memory' \in [Replicas -> A!Records],
             granted' \in [A!Stores -> [1..RateWindow -> Nat]],
             request' \in [Requests -> RequestType],
             Within(shared', granted'["shared"]),
             \A r \in Replicas : Within(memory'[r], granted'[r])
      PROVE  RateInv'
  BY <1>a, RateAssumption DEF RateInv, RequestType, A!Record, A!TypeOK, A!Stores, A!Spans
<1>4. CASE A!Tick
  <2>1. /\ \A s \in A!Stores : granted'[s] = Aged(RateWindow, granted[s])
        /\ granted' = [s \in A!Stores |-> granted'[s]]
        /\ shared' = A!Elapsed(shared) /\ memory' = [r \in Replicas |-> A!Elapsed(memory[r])]
        /\ request' = request
    BY <1>4 DEF A!Tick, A!Spans, Aged
  <2>2. \A s \in A!Stores : /\ A!Elapsed(A!Record(s)) \in A!Records
                            /\ Within(A!Elapsed(A!Record(s)), Aged(RateWindow, granted[s]))
                            /\ Aged(RateWindow, granted[s]) \in [1..RateWindow -> Nat]
    BY EachStore, StoreAges
  <2>3. granted' \in [A!Stores -> [1..RateWindow -> Nat]]
    BY <2>1, <2>2
  <2>4. QED
    BY <1>2, <1>a, <2>1, <2>2, <2>3, EachStore
<1>5. ASSUME NEW q \in Requests, A!Arrive(q) \/ A!Answer(q) PROVE RateInv'
  <2>1. /\ shared' = shared /\ memory' = memory /\ granted' = granted
        /\ \/ request' = [request EXCEPT ![q].at = "asking"]
           \/ request' = [request EXCEPT ![q] = A!Idle]
    BY <1>5 DEF A!Arrive, A!Answer
  <2>2. A!Idle \in RequestType
    BY RateAssumption, EachStore DEF RequestType, A!Idle
  <2>3. [request[q] EXCEPT !.at = "asking"] \in RequestType
    BY <1>2 DEF RequestType
  <2>4. request' \in [Requests -> RequestType]
    BY <1>2, <2>1, <2>2, <2>3
  <2>5. QED
    BY <1>2, <1>a, <2>1, <2>4
<1>6. ASSUME NEW rec \in A!Records, NEW g, Within(rec, g)
      PROVE  A!Pruned(rec) \in A!Records /\ Within(A!Pruned(rec), g)
  BY <1>6, RateAssumption DEF A!Pruned, A!NoRecord, A!Records, Within, Fits
<1>7. CASE A!PruneShared
  BY <1>2, <1>6, <1>7, <1>a DEF A!PruneShared
<1>8. ASSUME NEW r \in Replicas, A!PruneMemory(r) PROVE RateInv'
  BY <1>2, <1>6, <1>8, <1>a DEF A!PruneMemory
<1>b. ASSUME NEW q \in Requests, NEW store \in A!Stores, NEW rec \in A!Records,
             A!Ask(q, store, rec)
      PROVE  request' \in [Requests -> RequestType]
  BY <1>2, <1>b DEF A!Ask, RequestType, A!Records
<1>9. ASSUME NEW q \in Requests, A!CountShared(q) PROVE RateInv'
  <2>1. /\ shared' = A!Incremented(A!Record("shared")) /\ A!Count("shared", shared')
        /\ A!Ask(q, "shared", shared') /\ memory' = memory
    BY <1>9, EachStore DEF A!CountShared
  <2>2. /\ granted' \in [A!Stores -> [1..RateWindow -> Nat]] /\ shared' \in A!Records
        /\ Within(shared', granted'["shared"])
        /\ \A s \in A!Stores : s # "shared" => granted'[s] = granted[s]
    BY <2>1, EachStore, StoreAllows
  <2>3. \A r \in Replicas : Within(memory'[r], granted'[r])
    BY <1>2, <2>1, <2>2, EachStore, RateAssumption
  <2>4. QED
    BY <1>2, <1>a, <1>b, <2>1, <2>2, <2>3, EachStore
<1>10. ASSUME NEW q \in Requests, A!FallBack(q) PROVE RateInv'
  <2> DEFINE r == ReplicaOf[q]
  <2>1. r \in Replicas /\ r \in A!Stores /\ r # "shared" /\ A!Record(r) = memory[r]
    BY EachStore, RateAssumption
  <2>2. /\ memory' = [memory EXCEPT ![r] = A!Incremented(memory[r])]
        /\ A!Ask(q, r, memory'[r]) /\ A!Count(r, memory'[r])
        /\ shared' = A!Incremented(shared) \/ shared' = shared
    BY <1>10 DEF A!FallBack
  <2> HIDE DEF r
  <2>3. memory'[r] = A!Incremented(A!Record(r))
    BY <1>2, <2>1, <2>2
  <2>4. /\ granted' \in [A!Stores -> [1..RateWindow -> Nat]] /\ memory'[r] \in A!Records
        /\ Within(memory'[r], granted'[r])
        /\ \A s \in A!Stores : s # r => granted'[s] = granted[s]
    BY <2>1, <2>2, <2>3, StoreAllows
  <2>5. shared' \in A!Records /\ Within(shared', granted["shared"])
    BY <1>2, <2>2, EachStore, StoreCounts
  <2>6. memory' \in [Replicas -> A!Records]
    BY <1>2, <2>1, <2>2, <2>4
  <2>7. \A u \in Replicas : Within(memory'[u], granted'[u])
    BY <1>2, <2>1, <2>2, <2>4, EachStore
  <2>8. Within(shared', granted'["shared"])
    BY <2>1, <2>4, <2>5, EachStore
  <2>9. QED
    BY <1>a, <1>b, <2>1, <2>2, <2>4, <2>5, <2>6, <2>7, <2>8
<1>11. QED
  BY <1>1, <1>4, <1>5, <1>7, <1>8, <1>9, <1>10 DEF A!Next

LEMMA RateFollows ==
    ASSUME RateInv PROVE A!TypeOK /\ A!BudgetHolds
<1>1. ASSUME NEW s \in A!Stores
      PROVE  /\ granted[s][RateWindow] <= 2 * RateLimitMax
             /\ A!Record(s).left > 0 =>
                   granted[s][RateWindow - A!Record(s).left + 1] <= RateLimitMax
  <2>1. /\ A!Record(s).left \in 0..RateWindow /\ A!Record(s).count \in Nat
        /\ granted[s] \in [1..RateWindow -> Nat]
        /\ Fits(RateWindow, RateLimitMax, A!Record(s).left, A!Record(s).count, granted[s])
    BY EachStore, RateAssumption DEF Within, A!Records
  <2>2. QED
    BY <2>1, RateAssumption, WindowBudget
<1>2. QED
  BY <1>1 DEF RateInv, A!BudgetHolds

-----------------------------------------------------------------------------

(* The limits on subscriptions.                                            *)

SubscriptionInv ==
    /\ B!TypeOK
    /\ limit = [l \in Limits |-> limit[l]] /\ allowed = [l \in Limits |-> allowed[l]]
    /\ \A l \in Limits :
          Fits(WindowOf[l], MaxOf[l], limit[l].left, limit[l].count, allowed[l])

\* What holds of each limit holds of all of them.
LEMMA EachLimit ==
    ASSUME limit = [l \in Limits |-> limit[l]], allowed = [l \in Limits |-> allowed[l]],
           open \in 0..MaxOpen,
           \A l \in Limits :
              /\ limit[l] \in [count : 0..MaxOf[l], left : 0..WindowOf[l]]
              /\ allowed[l] \in [1..WindowOf[l] -> Nat]
              /\ Fits(WindowOf[l], MaxOf[l], limit[l].left, limit[l].count, allowed[l])
    PROVE  SubscriptionInv
BY DEF SubscriptionInv, B!TypeOK, B!Spans

LEMMA SubscriptionInit == B!Init => SubscriptionInv
<1> SUFFICES ASSUME B!Init PROVE SubscriptionInv
  OBVIOUS
<1>1. ASSUME NEW l \in Limits
      PROVE  /\ limit[l] \in [count : 0..MaxOf[l], left : 0..WindowOf[l]]
             /\ allowed[l] \in [1..WindowOf[l] -> Nat]
             /\ Fits(WindowOf[l], MaxOf[l], limit[l].left, limit[l].count, allowed[l])
  <2>1. WindowOf[l] \in Nat \ {0} /\ MaxOf[l] \in Nat
    BY SubscriptionAssumption
  <2>2. allowed[l] = [n \in 1..WindowOf[l] |-> 0] /\ limit[l] = [count |-> 0, left |-> 0]
    BY DEF B!Init, B!Spans, B!NoLimit
  <2>3. limit[l].left \in 0..WindowOf[l] /\ limit[l].count \in Nat
    BY <2>1, <2>2
  <2>4. QED
    BY <2>1, <2>2, <2>3, WindowBegins
<1>2. QED
  BY <1>1, EachLimit, SubscriptionAssumption DEF B!Init

\* A request that is let in.
LEMMA LetIn ==
    ASSUME SubscriptionInv, NEW l \in Limits, B!Pass(l), open' \in 0..MaxOpen
    PROVE  SubscriptionInv'
<1> DEFINE now == IF limit[l].left = 0 THEN [count |-> 1, left |-> WindowOf[l]]
                  ELSE [limit[l] EXCEPT !.count = @ + 1]
<1>1. /\ WindowOf[l] \in Nat \ {0} /\ MaxOf[l] \in Nat \ {0}
      /\ limit[l] \in [count : 0..MaxOf[l], left : 0..WindowOf[l]]
      /\ allowed[l] \in [1..WindowOf[l] -> Nat]
      /\ Fits(WindowOf[l], MaxOf[l], limit[l].left, limit[l].count, allowed[l])
  BY SubscriptionAssumption DEF SubscriptionInv, B!TypeOK, B!Spans
<1>2. /\ limit' = [limit EXCEPT ![l] = now]
      /\ allowed' = [allowed EXCEPT ![l] = OneMore(WindowOf[l], allowed[l])]
      /\ limit[l].left = 0 \/ limit[l].count < MaxOf[l]
  <2>1. /\ limit' = [limit EXCEPT ![l] = B!Counted(limit[l], l)]
        /\ allowed' = [allowed EXCEPT ![l] = [n \in 1..WindowOf[l] |-> @[n] + 1]]
        /\ limit[l].left = 0 \/ limit[l].count < MaxOf[l]
    BY DEF B!Pass, B!MayPass, B!Spans
  <2>2. B!Counted(limit[l], l) = now
    BY DEF B!Counted
  <2>3. allowed' = [allowed EXCEPT ![l] = OneMore(WindowOf[l], allowed[l])]
    BY <2>1, Zenon DEF SubscriptionInv, OneMore
  <2>4. QED
    BY <2>1, <2>2, <2>3
<1>3. /\ limit[l].count \in Nat /\ limit[l].left \in 0..WindowOf[l]
      /\ limit[l].count <= MaxOf[l]
  BY <1>1
<1>4. /\ now \in [count : 0..MaxOf[l], left : 0..WindowOf[l]]
      /\ Fits(WindowOf[l], MaxOf[l], now.left, now.count, OneMore(WindowOf[l], allowed[l]))
  <2>1. CASE limit[l].left = 0
    <3>1. now = [count |-> 1, left |-> WindowOf[l]]
      BY <2>1
    <3>2. 1 <= MaxOf[l]
      BY <1>1
    <3>3. Fits(WindowOf[l], MaxOf[l], WindowOf[l], 1, OneMore(WindowOf[l], allowed[l]))
      BY <1>1, <2>1, <3>2, WindowOpens
    <3>4. QED
      BY <1>1, <3>1, <3>2, <3>3
  <2>2. CASE limit[l].left # 0
    <3>1. /\ now.left = limit[l].left /\ now.count = limit[l].count + 1
          /\ now = [count |-> now.count, left |-> now.left]
      BY <1>1, <2>2
    <3>2. /\ limit[l].left \in 1..WindowOf[l] /\ limit[l].count + 1 \in 0..MaxOf[l]
          /\ limit[l].count + 1 \in Nat /\ limit[l].count <= limit[l].count + 1
          /\ limit[l].count + 1 <= MaxOf[l]
      BY <1>1, <1>2, <1>3, <2>2
    <3>3. Fits(WindowOf[l], MaxOf[l], limit[l].left, limit[l].count + 1,
               OneMore(WindowOf[l], allowed[l]))
      BY <1>1, <1>3, <3>2, WindowCounts
    <3> HIDE DEF now
    <3>4. QED
      BY <1>3, <3>1, <3>2, <3>3
  <2>3. QED
    BY <2>1, <2>2
<1> HIDE DEF now
<1>5. OneMore(WindowOf[l], allowed[l]) \in [1..WindowOf[l] -> Nat]
  BY <1>1, OneMoreInOrder DEF Fits
<1>6. /\ limit' = [m \in Limits |-> limit'[m]] /\ allowed' = [m \in Limits |-> allowed'[m]]
      /\ limit'[l] = now /\ allowed'[l] = OneMore(WindowOf[l], allowed[l])
      /\ \A m \in Limits : m # l => limit'[m] = limit[m] /\ allowed'[m] = allowed[m]
  BY <1>2 DEF SubscriptionInv
<1>7. \A m \in Limits : m # l =>
         /\ limit[m] \in [count : 0..MaxOf[m], left : 0..WindowOf[m]]
         /\ allowed[m] \in [1..WindowOf[m] -> Nat]
         /\ Fits(WindowOf[m], MaxOf[m], limit[m].left, limit[m].count, allowed[m])
  BY DEF SubscriptionInv, B!TypeOK, B!Spans
<1>8. QED
  BY <1>4, <1>5, <1>6, <1>7 DEF SubscriptionInv, B!TypeOK, B!Spans

LEMMA SubscriptionStep ==
    ASSUME SubscriptionInv, [B!Next]_subscriptionVars PROVE SubscriptionInv'
<1>0. /\ open \in 0..MaxOpen /\ MaxOpen \in Nat
      /\ "subscription" \in Limits /\ "event" \in Limits
  BY SubscriptionAssumption DEF SubscriptionInv, B!TypeOK
<1>1. CASE UNCHANGED subscriptionVars
  BY <1>1 DEF subscriptionVars, SubscriptionInv, B!TypeOK
<1>2. CASE B!ClientConnects
  <2>1. open' \in 0..MaxOpen /\ B!Pass("subscription")
    BY <1>0, <1>2 DEF B!ClientConnects
  <2>2. QED
    BY <1>0, <2>1, LetIn
<1>3. CASE B!ClientSubscribes
  BY <1>0, <1>3, LetIn DEF B!ClientSubscribes
<1>4. CASE B!ClientCloses
  BY <1>0, <1>4 DEF B!ClientCloses, SubscriptionInv, B!TypeOK
<1>5. ASSUME NEW l \in Limits
      PROVE  /\ WindowOf[l] \in Nat \ {0} /\ MaxOf[l] \in Nat
             /\ limit[l] \in [count : 0..MaxOf[l], left : 0..WindowOf[l]]
             /\ limit[l].left \in 0..WindowOf[l] /\ limit[l].count \in Nat
             /\ allowed[l] \in [1..WindowOf[l] -> Nat]
             /\ Fits(WindowOf[l], MaxOf[l], limit[l].left, limit[l].count, allowed[l])
  <2>1. WindowOf[l] \in Nat \ {0} /\ MaxOf[l] \in Nat
    BY SubscriptionAssumption
  <2>2. QED
    BY <2>1 DEF SubscriptionInv, B!TypeOK, B!Spans
<1>6. CASE B!CleanUp
  <2>1. /\ allowed' = allowed /\ open' = open
        /\ limit' = [l \in Limits |-> limit'[l]]
        /\ \A l \in Limits : limit'[l] = IF limit[l].left = 0 THEN [count |-> 0, left |-> 0]
                                         ELSE limit[l]
    BY <1>6 DEF B!CleanUp, B!NoLimit
  <2>2. \A l \in Limits :
           /\ limit'[l] \in [count : 0..MaxOf[l], left : 0..WindowOf[l]]
           /\ Fits(WindowOf[l], MaxOf[l], limit'[l].left, limit'[l].count, allowed[l])
    BY <1>5, <2>1 DEF Fits
  <2>3. QED
    BY <1>0, <1>5, <2>1, <2>2 DEF SubscriptionInv, B!TypeOK, B!Spans
<1>7. CASE B!Tick
  <2>1. /\ open' = open
        /\ limit' = [l \in Limits |-> limit'[l]] /\ allowed' = [l \in Limits |-> allowed'[l]]
        /\ \A l \in Limits :
              /\ limit'[l] = [limit[l] EXCEPT !.left = IF @ = 0 THEN 0 ELSE @ - 1]
              /\ allowed'[l] = Aged(WindowOf[l], allowed[l])
    BY <1>7 DEF B!Tick, B!Spans, Aged
  <2>2. ASSUME NEW l \in Limits
        PROVE  /\ limit'[l] \in [count : 0..MaxOf[l], left : 0..WindowOf[l]]
               /\ allowed'[l] \in [1..WindowOf[l] -> Nat]
               /\ Fits(WindowOf[l], MaxOf[l], limit'[l].left, limit'[l].count, allowed'[l])
    <3> DEFINE left == IF limit[l].left = 0 THEN 0 ELSE limit[l].left - 1
    <3>1. /\ limit'[l].left = left /\ limit'[l].count = limit[l].count
          /\ limit'[l] = [count |-> limit[l].count, left |-> left]
          /\ limit[l].count \in 0..MaxOf[l]
      BY <1>5, <2>1
    <3>2. left \in 0..WindowOf[l]
      BY <1>5
    <3>3. /\ Aged(WindowOf[l], allowed[l]) \in [1..WindowOf[l] -> Nat]
          /\ Fits(WindowOf[l], MaxOf[l], left, limit[l].count, Aged(WindowOf[l], allowed[l]))
      BY <1>5, WindowAges
    <3> HIDE DEF left
    <3>4. QED
      BY <2>1, <3>1, <3>2, <3>3
  <2>3. QED
    BY <1>0, <2>1, <2>2 DEF SubscriptionInv, B!TypeOK, B!Spans
<1>8. QED
  BY <1>1, <1>2, <1>3, <1>4, <1>6, <1>7 DEF B!Next

LEMMA SubscriptionFollows ==
    ASSUME SubscriptionInv PROVE B!TypeOK /\ B!SubscriptionBudget
<1>1. ASSUME NEW l \in Limits
      PROVE  /\ WindowOf[l] \in Nat \ {0} /\ MaxOf[l] \in Nat
             /\ limit[l].left \in 0..WindowOf[l] /\ limit[l].count \in Nat
             /\ allowed[l] \in [1..WindowOf[l] -> Nat]
             /\ Fits(WindowOf[l], MaxOf[l], limit[l].left, limit[l].count, allowed[l])
  <2>1. WindowOf[l] \in Nat \ {0} /\ MaxOf[l] \in Nat
    BY SubscriptionAssumption
  <2>2. QED
    BY <2>1 DEF SubscriptionInv, B!TypeOK, B!Spans
<1>2. \A l \in Limits : /\ allowed[l][WindowOf[l]] <= 2 * MaxOf[l]
                        /\ limit[l].left > 0 =>
                              allowed[l][WindowOf[l] - limit[l].left + 1] <= MaxOf[l]
  BY <1>1, WindowBudget
<1>3. QED
  BY <1>2 DEF SubscriptionInv, B!SubscriptionBudget

-----------------------------------------------------------------------------

(* The message limit of the realtime sockets.                              *)

Accepts(st, g) ==
    Fits(MessageWindow, MaxMessages, MessageWindow - st.age, st.count, g)

ClientState == [count : 0..MaxMessages + 1, age : 0..MessageWindow]

\* Of a client without a connection nothing is kept.
Forgotten(c) == ~marked[c] /\ state[c] = W!Fresh /\ accepted[c] = W!NoMessages

SocketInv ==
    /\ W!TypeOK
    /\ \A c \in Clients :
          /\ socket[c] = "none" => Forgotten(c)
          /\ Accepts(state[c], accepted[c])

\* What holds of each client holds of all of them.
LEMMA EachClient ==
    ASSUME socket \in [Clients -> {"none", "open", "closing", "terminated"}],
           marked \in [Clients -> BOOLEAN],
           state = [c \in Clients |-> state[c]],
           accepted = [c \in Clients |-> accepted[c]],
           \A c \in Clients :
              /\ socket[c] = "none" => Forgotten(c)
              /\ state[c] \in ClientState /\ accepted[c] \in [1..MessageWindow -> Nat]
              /\ Accepts(state[c], accepted[c])
    PROVE  SocketInv
<1>1. state \in [Clients -> ClientState] /\ accepted \in [Clients -> [1..MessageWindow -> Nat]]
  OBVIOUS
<1>2. QED
  BY <1>1 DEF SocketInv, W!TypeOK, W!Spans, ClientState

LEMMA NothingAccepted ==
    /\ W!Fresh \in ClientState /\ W!NoMessages \in [1..MessageWindow -> Nat]
    /\ Accepts(W!Fresh, W!NoMessages)
<1>1. MessageWindow \in Nat \ {0} /\ MaxMessages \in Nat
  BY SocketAssumption
<1>2. W!Fresh = [count |-> 0, age |-> 0] /\ W!NoMessages = [n \in 1..MessageWindow |-> 0]
  BY DEF W!Fresh, W!NoMessages, W!Spans
<1>3. MessageWindow - 0 \in 0..MessageWindow
  BY <1>1
<1>4. Accepts(W!Fresh, W!NoMessages)
  BY <1>1, <1>2, <1>3, WindowBegins DEF Accepts
<1>5. QED
  BY <1>1, <1>2, <1>4 DEF ClientState

LEMMA SocketInit == W!Init => SocketInv
<1> SUFFICES ASSUME W!Init PROVE SocketInv
  OBVIOUS
<1>1. /\ socket = [c \in Clients |-> "none"] /\ marked = [c \in Clients |-> FALSE]
      /\ state = [c \in Clients |-> W!Fresh] /\ accepted = [c \in Clients |-> W!NoMessages]
  BY DEF W!Init
<1>2. QED
  BY <1>1, NothingAccepted, EachClient DEF Forgotten

\* A message counted, and one accepted within the limit.
LEMMA MessageCounts ==
    ASSUME NEW st \in ClientState, NEW g \in [1..MessageWindow -> Nat], Accepts(st, g),
           NEW now, now = W!Counted(st)
    PROVE  /\ now \in ClientState /\ Accepts(now, g)
           /\ now.count <= MaxMessages =>
                 /\ Accepts(now, OneMore(MessageWindow, g))
                 /\ OneMore(MessageWindow, g) \in [1..MessageWindow -> Nat]
<1> DEFINE left == MessageWindow - st.age
<1>1. /\ MessageWindow \in Nat \ {0} /\ MaxMessages \in Nat
      /\ st.count \in 0..MaxMessages + 1 /\ st.count \in Nat
      /\ st.age \in 0..MessageWindow /\ left \in 0..MessageWindow
  BY SocketAssumption DEF ClientState
<1>2. Fits(MessageWindow, MaxMessages, left, st.count, g)
  BY DEF Accepts
<1>3. OneMore(MessageWindow, g) \in [1..MessageWindow -> Nat]
  BY <1>1, <1>2, OneMoreInOrder DEF Fits
<1>4. CASE left = 0
  <2>1. now = [count |-> 1, age |-> 0] /\ MessageWindow - 0 = MessageWindow
    BY <1>1, <1>4 DEF W!Counted
  <2>2. /\ Fits(MessageWindow, MaxMessages, MessageWindow, 1, g)
        /\ 1 <= MaxMessages =>
              Fits(MessageWindow, MaxMessages, MessageWindow, 1, OneMore(MessageWindow, g))
    BY <1>1, <1>2, <1>4, WindowOpens
  <2>3. now \in ClientState
    BY <1>1, <2>1 DEF ClientState
  <2>4. QED
    BY <1>3, <2>1, <2>2, <2>3 DEF Accepts
<1>5. CASE left # 0
  <2>1. /\ now.age = st.age
        /\ now.count = IF st.count > MaxMessages THEN st.count ELSE st.count + 1
        /\ now = [count |-> now.count, age |-> now.age]
    BY <1>1, <1>5 DEF W!Counted, ClientState
  <2>2. /\ now.count \in 0..MaxMessages + 1 /\ now.count \in Nat /\ st.count <= now.count
        /\ now.count <= MaxMessages => now.count = st.count + 1
        /\ left \in 1..MessageWindow
    BY <1>1, <1>5, <2>1
  <2>3. /\ Fits(MessageWindow, MaxMessages, left, now.count, g)
        /\ now.count <= MaxMessages =>
              Fits(MessageWindow, MaxMessages, left, now.count, OneMore(MessageWindow, g))
    BY <1>1, <1>2, <2>2, WindowCounts
  <2>4. now \in ClientState
    BY <1>1, <2>1, <2>2 DEF ClientState
  <2>5. QED
    BY <1>3, <2>1, <2>3, <2>4 DEF Accepts
<1>6. QED
  BY <1>4, <1>5

\* A tick of a connection's window.
LEMMA MessagesAge ==
    ASSUME NEW st \in ClientState, NEW g \in [1..MessageWindow -> Nat], Accepts(st, g),
           NEW now, now = [st EXCEPT !.age = IF @ < MessageWindow THEN @ + 1 ELSE @]
    PROVE  /\ now \in ClientState /\ Aged(MessageWindow, g) \in [1..MessageWindow -> Nat]
           /\ Accepts(now, Aged(MessageWindow, g))
<1> DEFINE left == MessageWindow - st.age
           age == IF st.age < MessageWindow THEN st.age + 1 ELSE st.age
<1>1. /\ MessageWindow \in Nat \ {0} /\ MaxMessages \in Nat
      /\ st.count \in 0..MaxMessages + 1 /\ st.count \in Nat
      /\ st.age \in 0..MessageWindow /\ left \in 0..MessageWindow
  BY SocketAssumption DEF ClientState
<1>2. age \in 0..MessageWindow /\ MessageWindow - age = IF left = 0 THEN 0 ELSE left - 1
  BY <1>1
<1>3. now = [count |-> st.count, age |-> age]
  BY DEF ClientState
<1>4. /\ Aged(MessageWindow, g) \in [1..MessageWindow -> Nat]
      /\ Fits(MessageWindow, MaxMessages, IF left = 0 THEN 0 ELSE left - 1, st.count,
              Aged(MessageWindow, g))
  BY <1>1, WindowAges DEF Accepts
<1> HIDE DEF left, age
<1>5. now \in ClientState /\ now.count = st.count /\ now.age = age
  BY <1>1, <1>2, <1>3 DEF ClientState
<1>6. Accepts(now, Aged(MessageWindow, g))
  BY <1>2, <1>4, <1>5 DEF Accepts
<1>7. QED
  BY <1>4, <1>5, <1>6

LEMMA SocketStep ==
    ASSUME SocketInv, [W!Next]_socketVars PROVE SocketInv'
<1>1. CASE UNCHANGED socketVars
  BY <1>1 DEF socketVars, SocketInv, W!TypeOK, Forgotten
<1>2. /\ socket \in [Clients -> {"none", "open", "closing", "terminated"}]
      /\ marked \in [Clients -> BOOLEAN]
      /\ state \in [Clients -> ClientState]
      /\ accepted \in [Clients -> [1..MessageWindow -> Nat]]
      /\ \A c \in Clients :
          /\ socket[c] = "none" => Forgotten(c)
          /\ Accepts(state[c], accepted[c])
  BY DEF SocketInv, W!TypeOK, W!Spans, ClientState
<1>a. ASSUME socket' \in [Clients -> {"none", "open", "closing", "terminated"}],
             marked' \in [Clients -> BOOLEAN],
             state' \in [Clients -> ClientState],
             accepted' \in [Clients -> [1..MessageWindow -> Nat]],
             \A c \in Clients :
                /\ socket'[c] = "none" => Forgotten(c)'
                /\ Accepts(state'[c], accepted'[c])
      PROVE  SocketInv'
  BY <1>a DEF SocketInv, W!TypeOK, W!Spans, ClientState, Accepts, Forgotten
<1>3. ASSUME NEW c \in Clients, W!Connect(c) PROVE SocketInv'
  <2>1. /\ \E s \in {"open", "closing"} : socket' = [socket EXCEPT ![c] = s]
        /\ UNCHANGED <<marked, state, accepted>>
    BY <1>3 DEF W!Connect
  <2>2. QED
    BY <1>2, <1>a, <2>1 DEF Forgotten
<1>4. ASSUME NEW c \in Clients, W!Message(c) PROVE SocketInv'
  <2>1. /\ state' = [state EXCEPT ![c] = W!Counted(state[c])]
        /\ UNCHANGED marked /\ socket[c] # "none"
        /\ socket' = socket \/ socket' = [socket EXCEPT ![c] = "closing"]
        /\ \/ accepted' = accepted
           \/ /\ state'[c].count <= MaxMessages
              /\ accepted' = [accepted EXCEPT ![c] = OneMore(MessageWindow, accepted[c])]
    BY <1>4 DEF W!Message, W!Spans, OneMore
  <2>2. state'[c] = W!Counted(state[c])
    BY <1>2, <2>1
  <2>3. /\ state'[c] \in ClientState /\ Accepts(state'[c], accepted[c])
        /\ state'[c].count <= MaxMessages =>
              /\ Accepts(state'[c], OneMore(MessageWindow, accepted[c]))
              /\ OneMore(MessageWindow, accepted[c]) \in [1..MessageWindow -> Nat]
    BY <1>2, <2>2, MessageCounts
  <2>4. /\ state' \in [Clients -> ClientState]
        /\ \A d \in Clients : d # c => state'[d] = state[d]
    BY <1>2, <2>1, <2>2, <2>3
  <2>5. /\ accepted' \in [Clients -> [1..MessageWindow -> Nat]]
        /\ \A d \in Clients : d # c => accepted'[d] = accepted[d]
        /\ Accepts(state'[c], accepted'[c])
    BY <1>2, <2>1, <2>3
  <2>6. /\ socket' \in [Clients -> {"none", "open", "closing", "terminated"}]
        /\ \A d \in Clients : socket'[d] = "none" => socket[d] = "none"
    BY <1>2, <2>1
  <2>7. QED
    BY <1>2, <1>a, <2>1, <2>4, <2>5, <2>6 DEF Forgotten
<1>5. ASSUME W!Ping PROVE SocketInv'
  <2>1. /\ socket' = [c \in Clients |->
              IF c \in W!Connected /\ marked[c] THEN "terminated" ELSE socket[c]]
        /\ marked' = [c \in Clients |-> c \in W!Connected]
        /\ UNCHANGED <<state, accepted>>
    BY <1>5 DEF W!Ping
  <2>2. \A c \in Clients : c \in W!Connected <=> socket[c] # "none"
    BY DEF W!Connected
  <2>3. socket' \in [Clients -> {"none", "open", "closing", "terminated"}]
    BY <1>2, <2>1
  <2>4. \A c \in Clients : socket'[c] = "none" => Forgotten(c)'
    BY <1>2, <2>1, <2>2 DEF Forgotten
  <2>5. marked' \in [Clients -> BOOLEAN]
    BY <2>1
  <2>6. QED
    BY <1>2, <1>a, <2>1, <2>3, <2>4, <2>5
<1>6. ASSUME NEW c \in Clients, W!Close(c) PROVE SocketInv'
  <2>1. /\ socket' = [socket EXCEPT ![c] = "none"] /\ marked' = [marked EXCEPT ![c] = FALSE]
        /\ state' = [state EXCEPT ![c] = W!Fresh]
        /\ accepted' = [accepted EXCEPT ![c] = W!NoMessages]
    BY <1>6 DEF W!Close
  <2>2. QED
    BY <1>2, <1>a, <2>1, NothingAccepted DEF Forgotten
<1>7. ASSUME W!Tick PROVE SocketInv'
  <2>1. /\ state' = [c \in Clients |->
              IF c \in W!Connected
              THEN [state[c] EXCEPT !.age = IF @ < MessageWindow THEN @ + 1 ELSE @] ELSE W!Fresh]
        /\ accepted' = [c \in Clients |-> Aged(MessageWindow, accepted[c])]
        /\ UNCHANGED <<socket, marked>>
    BY <1>7 DEF W!Tick, W!Spans, Aged
  <2>2. ASSUME NEW c \in Clients
        PROVE  /\ state'[c] \in ClientState /\ accepted'[c] \in [1..MessageWindow -> Nat]
               /\ Accepts(state'[c], accepted'[c])
               /\ socket'[c] = "none" => Forgotten(c)'
    <3>1. /\ accepted'[c] = Aged(MessageWindow, accepted[c])
          /\ state'[c] = IF c \in W!Connected
                         THEN [state[c] EXCEPT !.age = IF @ < MessageWindow THEN @ + 1 ELSE @]
                         ELSE W!Fresh
      BY <2>1
    <3>2. CASE c \in W!Connected
      BY <1>2, <2>1, <3>1, <3>2, MessagesAge DEF W!Connected
    <3>3. CASE c \notin W!Connected
      <4>1. socket[c] = "none" /\ accepted[c] = W!NoMessages
        BY <1>2, <3>3 DEF W!Connected, Forgotten
      <4>2. Aged(MessageWindow, W!NoMessages) = W!NoMessages
        BY SocketAssumption DEF Aged, W!NoMessages, W!Spans
      <4>3. QED
        BY <1>2, <2>1, <3>1, <3>3, <4>1, <4>2, NothingAccepted DEF Forgotten
    <3>4. QED
      BY <3>2, <3>3
  <2>3. QED
    BY <1>2, <1>a, <2>1, <2>2
<1>8. QED
  BY <1>1, <1>3, <1>4, <1>5, <1>6, <1>7 DEF W!Next

LEMMA SocketFollows ==
    ASSUME SocketInv PROVE W!TypeOK /\ W!SocketBudget
<1>1. ASSUME NEW c \in Clients
      PROVE  /\ accepted[c][MessageWindow] <= 2 * MaxMessages
             /\ accepted[c][W!SinceStart(c)] <= MaxMessages
  <2> DEFINE left == MessageWindow - state[c].age
  <2>1. /\ MessageWindow \in Nat \ {0} /\ MaxMessages \in Nat
        /\ left \in 0..MessageWindow /\ state[c].count \in Nat
        /\ accepted[c] \in [1..MessageWindow -> Nat]
        /\ state[c].age \in 0..MessageWindow
    BY SocketAssumption DEF SocketInv, W!TypeOK, W!Spans
  <2>2. Fits(MessageWindow, MaxMessages, left, state[c].count, accepted[c])
    BY DEF SocketInv, Accepts
  <2>3. /\ accepted[c][MessageWindow] <= 2 * MaxMessages
        /\ left > 0 => accepted[c][MessageWindow - left + 1] <= MaxMessages
        /\ left = 0 => accepted[c][MessageWindow] <= MaxMessages
    BY <2>1, <2>2, WindowBudget DEF Fits
  <2>4. W!SinceStart(c) = IF left = 0 THEN MessageWindow ELSE MessageWindow - left + 1
    BY <2>1 DEF W!SinceStart
  <2>5. CASE left = 0
    BY <2>3, <2>4, <2>5
  <2>6. CASE left # 0
    <3>1. left > 0
      BY <2>1, <2>6
    <3>2. W!SinceStart(c) = MessageWindow - left + 1
      BY <2>4, <2>6
    <3>3. QED
      BY <2>3, <3>1, <3>2
  <2>7. QED
    BY <2>5, <2>6
<1>2. QED
  BY <1>1 DEF SocketInv, W!SocketBudget

-----------------------------------------------------------------------------

(* The start and stop of the API server.                                   *)

ServerInv ==
    /\ S!TypeOK
    /\ starting \in {"postgres", "redis"} => apollo = "initialized"
    /\ starting = "apollo" => apollo = "starting"
    /\ "publisher" \in intervals => starting = "listening"
    /\ overtaken \in {"postgres", "redis", "apollo"} => exit = "failed"
    /\ overtaken = "listening" => starting = "listening" /\ "publisher" \notin intervals

LEMMA ServerInit == S!Init => ServerInv
BY DEF S!Init, ServerInv, S!TypeOK

LEMMA ServerStep ==
    ASSUME ServerInv, [S!Next]_serverVars PROVE ServerInv'
<1> USE DEF ServerInv, S!TypeOK
<1>1. CASE UNCHANGED serverVars
  BY <1>1 DEF serverVars
<1>2. CASE S!PostgresConnects
  BY <1>2 DEF S!PostgresConnects
<1>3. CASE S!RedisConnects
  BY <1>3 DEF S!RedisConnects
<1>4. CASE S!ApolloStarts
  BY <1>4 DEF S!ApolloStarts
<1>5. CASE S!AdminMounted
  BY <1>5 DEF S!AdminMounted
<1>6. CASE S!Seeded
  BY <1>6 DEF S!Seeded
<1>7. CASE S!StartFails
  BY <1>7 DEF S!StartFails
<1>8. CASE S!ApolloStopped
  BY <1>8 DEF S!ApolloStopped
<1>9. ASSUME NEW s \in Signals, S!Signal(s) PROVE ServerInv'
  <2>1. /\ overtaken' = IF overtaken = "none" THEN starting ELSE overtaken
        /\ intervals' = intervals \ {"health", "publisher"} /\ running' = FALSE
        /\ exit = "alive" /\ UNCHANGED <<starting, apiPool>>
    BY <1>9 DEF S!Signal, S!Cleared
  <2>2. CASE apollo \in {"initialized", "starting"} /\ exit' = "failed" /\ apollo' = apollo
             /\ stop' = [stop EXCEPT ![s] = "over"]
    BY <2>1, <2>2
  <2>3. CASE apollo \in {"started", "stopping", "stopped"} /\ exit' = exit
             /\ apollo' = (IF apollo = "started" THEN "stopping" ELSE apollo)
             /\ stop' = [stop EXCEPT ![s] = "apollo"]
    BY <2>1, <2>3
  <2>4. QED
    BY <1>9, <2>2, <2>3 DEF S!Signal, S!StopRejected
<1>10. ASSUME NEW s \in Signals, S!Disconnect(s) PROVE ServerInv'
  BY <1>10 DEF S!Disconnect, S!StopRejected
<1>11. QED
  BY <1>1, <1>2, <1>3, <1>4, <1>5, <1>6, <1>7, <1>8, <1>9, <1>10 DEF S!Next

LEMMA ServerFollows ==
    ASSUME ServerInv PROVE S!TypeOK /\ S!PollsOnlyOvertaken
BY DEF ServerInv, S!TypeOK, S!PollsOnlyOvertaken

-----------------------------------------------------------------------------

(* Lists read page by page.                                                *)

\* The page after a cursor.
PageAfter(T, after) == R!Newest({l \in T : l < after}, First)

\* A client whose cursors were found has its pages in order, all of them
\* down to its cursor.
PagesInOrder(pages) ==
    \A i, j \in 1..Len(pages) : i < j => \A k \in pages[i], l \in pages[j] : k > l
Among(pages, l) == \E i \in 1..Len(pages) : l \in pages[i]
Complete(pages, after, all) == \A l \in all : l >= after => Among(pages, l)

ReaderInv(r) ==
    /\ read[r].rows \subseteq ledgers
    /\ ~lost[r] =>
          /\ PagesInOrder(got[r])
          /\ \A i \in 1..Len(got[r]) : \A l \in got[r][i] : l >= cursor[r]
          /\ Complete(got[r], cursor[r], common[r])
          /\ ~asksOn[r] => \A l \in common[r] : Among(got[r], l)

ReadInv == R!TypeOK /\ \A r \in Readers : ReaderInv(r)

\* The instance's own name for Cardinality.
LEMMA ReadCardinality == \A T : R!Cardinality(T) = Cardinality(T)
BY DEF R!Cardinality, Cardinality

\* The newest of a list lie above all others of it, and are some if any are.
LEMMA NewestAbove ==
    ASSUME NEW T, T \subseteq R!Sequences, NEW n \in Nat \ {0}
    PROVE  /\ R!Newest(T, n) \subseteq T
           /\ \A l \in R!Newest(T, n), k \in T : k >= l => k \in R!Newest(T, n)
           /\ T # {} => R!Newest(T, n) # {}
<1>1. IsFiniteSet(T) /\ T \subseteq Int /\ \A y \in T : y \in Int
  <2>1. IsFiniteSet(1..MaxSequence) /\ 1..MaxSequence \subseteq Int
    BY PageAssumption, FS_Interval
  <2>2. T \subseteq 1..MaxSequence
    BY DEF R!Sequences
  <2>3. QED
    BY <2>1, <2>2, FS_Subset, Zenon
<1>2. ASSUME NEW l \in R!Newest(T, n), NEW k \in T, k >= l PROVE k \in R!Newest(T, n)
  <2> DEFINE Above(x) == {y \in T : y > x}
  <2>0. k \in Int /\ l \in Int
    BY <1>1 DEF R!Newest
  <2>1. Above(k) \subseteq Above(l) /\ IsFiniteSet(Above(l)) /\ IsFiniteSet(Above(k))
    <3>1. Above(k) \subseteq Above(l) /\ Above(l) \subseteq T
      <4>1. \A y \in T : y > k => y > l
        BY <1>1, <1>2, <2>0
      <4>2. QED
        BY <4>1
    <3> HIDE DEF Above
    <3>2. QED
      BY <1>1, <3>1, FS_Subset
  <2>2. Cardinality(Above(k)) <= Cardinality(Above(l)) /\ Cardinality(Above(k)) \in Nat
        /\ Cardinality(Above(l)) \in Nat
    <3> HIDE DEF Above
    <3>1. QED
      BY <2>1, FS_Subset, FS_CardinalityType
  <2>3. Cardinality(Above(l)) < n
    BY ReadCardinality DEF R!Newest
  <2>4. Cardinality(Above(k)) < n
    BY <2>2, <2>3
  <2>5. QED
    BY <2>4, ReadCardinality DEF R!Newest
<1>3. ASSUME T # {} PROVE R!Newest(T, n) # {}
  <2>1. MaxSequence \in Int /\ \A x \in T : x <= MaxSequence
    BY PageAssumption DEF R!Sequences
  <2>2. PICK m \in T : \A x \in T : x <= m
    BY <1>1, <1>3, <2>1, GreatestExists, Zenon
  <2>3. {y \in T : y > m} = {}
    <3>1. \A y \in T : ~(y > m)
      BY <1>1, <2>2
    <3>2. QED
      BY <3>1
  <2>4. Cardinality({y \in T : y > m}) = 0
    BY <2>3, FS_EmptySet
  <2>5. m \in R!Newest(T, n)
    BY <2>4, ReadCardinality DEF R!Newest
  <2>6. QED
    BY <2>5
<1>4. R!Newest(T, n) \subseteq T
  BY DEF R!Newest
<1>5. QED
  BY <1>2, <1>3, <1>4

\* The least of a page.
LEMMA PageMin ==
    ASSUME NEW T, T \subseteq R!Sequences, T # {}
    PROVE  R!Min(T) \in T /\ \A y \in T : R!Min(T) <= y
<1>1. T \subseteq Int /\ \A y \in T : y >= 1
  BY PageAssumption DEF R!Sequences
<1>2. \E x \in T : \A y \in T : x <= y
  BY <1>1, 1 \in Int, LeastExists, Zenon
<1>3. QED
  BY <1>2, Zenon DEF R!Min

\* What Append does to the pages.
LEMMA PagesGrow ==
    ASSUME NEW pages \in Seq(SUBSET R!Sequences), NEW page \in SUBSET R!Sequences
    PROVE  /\ Append(pages, page) \in Seq(SUBSET R!Sequences)
           /\ Len(Append(pages, page)) = Len(pages) + 1 /\ Len(pages) \in Nat
           /\ \A i \in 1..Len(pages) : Append(pages, page)[i] = pages[i]
           /\ Append(pages, page)[Len(pages) + 1] = page
           /\ \A l : Among(Append(pages, page), l) <=> Among(pages, l) \/ l \in page
<1> DEFINE more == Append(pages, page)
<1>1. /\ more \in Seq(SUBSET R!Sequences) /\ Len(more) = Len(pages) + 1
      /\ Len(pages) \in Nat
      /\ \A i \in 1..Len(pages) : more[i] = pages[i]
      /\ more[Len(pages) + 1] = page
  BY AppendProperties, LenProperties
<1> HIDE DEF more
<1>2. \A l : Among(more, l) <=> Among(pages, l) \/ l \in page
  BY <1>1 DEF Among
<1>3. QED
  BY <1>1, <1>2 DEF more

MorePages(pages, page) == IF page = {} THEN pages ELSE Append(pages, page)
NextCursor(after, page) == IF page = {} THEN after ELSE R!Min(page)

\* A page below all others.
LEMMA PageFits ==
    ASSUME NEW pages \in Seq(SUBSET R!Sequences), NEW after \in 1..R!Top,
           NEW T, T \subseteq R!Sequences, NEW all \in SUBSET R!Sequences,
           PagesInOrder(pages),
           \A i \in 1..Len(pages) : \A l \in pages[i] : l >= after,
           Complete(pages, after, all),
           NEW page, page = PageAfter(T, after)
    PROVE  LET more == MorePages(pages, page)  next == NextCursor(after, page) IN
           /\ PagesInOrder(more)
           /\ \A i \in 1..Len(more) : \A l \in more[i] : l >= next
           /\ Complete(more, next, all \intersect T)
           /\ page = {} \/ ~ (\E l \in T : l < R!Min(page)) =>
                 \A l \in all \intersect T : Among(more, l)
<1> DEFINE more == MorePages(pages, page)
           next == NextCursor(after, page)
           Rest == {l \in T : l < after}
<1>0. /\ after \in Int /\ T \subseteq Int /\ Rest \subseteq R!Sequences /\ all \subseteq Int
      /\ R!Sequences \subseteq 1..R!Top
  <2>1. R!Sequences \subseteq Int /\ R!Sequences \subseteq 1..R!Top /\ R!Top \in Int
    BY PageAssumption DEF R!Sequences, R!Top
  <2>2. Rest \subseteq R!Sequences
    OBVIOUS
  <2>3. after \in Int
    BY <2>1
  <2>4. T \subseteq Int /\ all \subseteq Int
    <3> HIDE DEF Rest
    <3>1. QED
      BY <2>1
  <2>5. QED
    BY <2>1, <2>2, <2>3, <2>4
<1>1. /\ page \subseteq Rest
      /\ \A l \in page, k \in Rest : k >= l => k \in page
      /\ Rest # {} => page # {}
  <2> HIDE DEF Rest
  <2>1. page = R!Newest(Rest, First)
    BY DEF PageAfter, Rest
  <2>2. QED
    BY <1>0, <2>1, NewestAbove, PageAssumption
<1>2. CASE page = {}
  <2>1. \A l \in T : l >= after
    BY <1>0, <1>1, <1>2
  <2>2. \A l \in all \intersect T : Among(pages, l)
    BY <2>1 DEF Complete
  <2>3. more = pages /\ next = after
    BY <1>2 DEF MorePages, NextCursor
  <2>4. QED
    BY <1>2, <2>2, <2>3 DEF Complete
<1>3. CASE page # {}
  <2> DEFINE min == R!Min(page)
  <2>1. min \in page /\ (\A y \in page : min <= y) /\ page \in SUBSET R!Sequences
    BY <1>0, <1>1, <1>3, PageMin
  <2>2. more = Append(pages, page) /\ next = min
    BY <1>3 DEF MorePages, NextCursor
  <2> HIDE DEF min, more, next
  <2>3. min \in Int /\ min < after /\ min \in R!Sequences
    BY <1>0, <1>1, <2>1
  <2>4. /\ more \in Seq(SUBSET R!Sequences) /\ Len(more) = Len(pages) + 1
        /\ Len(pages) \in Nat
        /\ \A i \in 1..Len(pages) : more[i] = pages[i]
        /\ more[Len(pages) + 1] = page
        /\ \A l : Among(more, l) <=> Among(pages, l) \/ l \in page
    BY <2>1, <2>2, PagesGrow
  <2>5. \A l \in page : l \in Int /\ l < after
    BY <1>0, <1>1
  <2>6. PagesInOrder(more)
    <3>1. SUFFICES ASSUME NEW i \in 1..Len(more), NEW j \in 1..Len(more), i < j,
                          NEW k \in more[i], NEW l \in more[j]
                   PROVE  k > l
      BY DEF PagesInOrder
    <3>2. i \in 1..Len(pages) /\ more[i] = pages[i] /\ k >= after
      BY <2>4, <3>1
    <3>3. k \in Int
      BY <1>0, <3>2, ElementOfSeq
    <3>4. CASE j = Len(pages) + 1
      BY <1>0, <2>4, <2>5, <3>1, <3>2, <3>3, <3>4
    <3>5. CASE j # Len(pages) + 1
      <4>1. j \in 1..Len(pages) /\ more[j] = pages[j]
        BY <2>4, <3>5
      <4>2. QED
        BY <3>1, <3>2, <4>1 DEF PagesInOrder
    <3>6. QED
      BY <3>4, <3>5
  <2>7. ASSUME NEW i \in 1..Len(more), NEW l \in more[i] PROVE l >= next
    <3>1. CASE i = Len(pages) + 1
      BY <2>1, <2>2, <2>4, <2>7, <3>1
    <3>2. CASE i # Len(pages) + 1
      <4>1. i \in 1..Len(pages) /\ more[i] = pages[i]
        BY <2>4, <3>2
      <4>2. l \in Int /\ l >= after
        <5>1. pages[i] \in SUBSET R!Sequences
          BY <4>1, ElementOfSeq
        <5>2. l \in pages[i]
          BY <2>7, <4>1
        <5>3. QED
          BY <1>0, <4>1, <5>1, <5>2
      <4>3. QED
        BY <1>0, <2>2, <2>3, <4>2
    <3>3. QED
      BY <3>1, <3>2
  <2>8. Complete(more, next, all \intersect T)
    <3>1. SUFFICES ASSUME NEW l \in all \intersect T, l >= min PROVE Among(more, l)
      BY <2>2 DEF Complete
    <3>2. CASE l >= after
      BY <2>4, <3>2 DEF Complete
    <3>3. CASE ~(l >= after)
      <4>1. l \in Rest
        BY <1>0, <3>3
      <4>2. l \in page
        BY <1>1, <2>1, <3>1, <4>1
      <4>3. QED
        BY <2>4, <4>2
    <3>4. QED
      BY <3>2, <3>3
  <2>9. ASSUME ~ (\E l \in T : l < min) PROVE \A l \in all \intersect T : Among(more, l)
    <3>1. \A l \in T : l >= min
      BY <1>0, <2>3, <2>9
    <3>2. QED
      BY <2>2, <2>8, <3>1 DEF Complete
  <2>10. QED
    BY <1>3, <2>6, <2>7, <2>8, <2>9 DEF min, more, next
<1>4. QED
  BY <1>2, <1>3

LEMMA ReadInit == R!Init => ReadInv
<1> SUFFICES ASSUME R!Init PROVE ReadInv
  OBVIOUS
<1>1. R!TypeOK
  <2>1. <<>> \in Seq(SUBSET R!Sequences) /\ R!Top \in 1..R!Top
    BY EmptySeq, PageAssumption DEF R!Top
  <2>2. QED
    BY <2>1 DEF R!Init, R!TypeOK, R!NotReading
<1>2. ASSUME NEW r \in Readers PROVE ReaderInv(r)
  <2>1. /\ got[r] = <<>> /\ common[r] = R!Sequences /\ cursor[r] = R!Top
        /\ asksOn[r] = TRUE /\ read[r].rows = {}
    BY DEF R!Init, R!NotReading
  <2>2. Len(<<>>) = 0
    OBVIOUS
  <2>3. \A l \in R!Sequences : ~ (l >= R!Top)
    BY PageAssumption DEF R!Sequences, R!Top
  <2>4. QED
    BY <2>1, <2>2, <2>3 DEF ReaderInv, PagesInOrder, Complete
<1>3. QED
  BY <1>1, <1>2 DEF ReadInv

\* A page delivered from a list.
LEMMA Delivered ==
    ASSUME ReadInv, NEW r \in Readers, NEW T, T \subseteq R!Sequences, R!Deliver(r, T)
    PROVE  /\ cursor' \in [Readers -> 1..R!Top] /\ asksOn' \in [Readers -> BOOLEAN]
           /\ lost' \in [Readers -> BOOLEAN] /\ common' \in [Readers -> SUBSET R!Sequences]
           /\ got' \in [Readers -> Seq(SUBSET R!Sequences)]
           /\ read' = [read EXCEPT ![r] = R!NotReading]
           /\ ledgers' = ledgers => \A s \in Readers : ReaderInv(s)'
<1> DEFINE page == R!Edges(T, cursor[r])
           next == NextCursor(cursor[r], page)
           gone == lost[r] \/ cursor[r] \notin T \union {R!Top}
           more == MorePages(got[r], page)
           asks == page # {} /\ R!NextPage(T, page)
<1>0. /\ cursor \in [Readers -> 1..R!Top] /\ asksOn \in [Readers -> BOOLEAN]
      /\ lost \in [Readers -> BOOLEAN] /\ common \in [Readers -> SUBSET R!Sequences]
      /\ got \in [Readers -> Seq(SUBSET R!Sequences)]
      /\ read \in [Readers -> [at : {"idle", "fetch", "set"}, rows : SUBSET R!Sequences]]
      /\ R!Sequences \subseteq 1..R!Top /\ R!Top \notin R!Sequences /\ R!Sequences \subseteq Int
      /\ \A l \in R!Sequences : l < R!Top
  BY PageAssumption DEF ReadInv, R!TypeOK, R!Sequences, R!Top
<1>1. page \in SUBSET R!Sequences /\ next \in 1..R!Top
  <2>1. page \in SUBSET T
    BY DEF R!Edges, R!Newest, R!AfterCursor
  <2>2. CASE page = {}
    BY <1>0, <2>2 DEF NextCursor
  <2>3. CASE page # {}
    <3> HIDE DEF page
    <3>1. R!Min(page) \in R!Sequences
      BY <2>1, <2>3, PageMin
    <3>2. QED
      BY <1>0, <2>1, <2>3, <3>1 DEF NextCursor
  <2>4. QED
    BY <2>2, <2>3
<1>2. /\ cursor' = [cursor EXCEPT ![r] = next] /\ asksOn' = [asksOn EXCEPT ![r] = asks]
      /\ common' = [common EXCEPT ![r] = common[r] \intersect T]
      /\ lost' = [lost EXCEPT ![r] = gone]
      /\ got' = [got EXCEPT ![r] = IF lost'[r] THEN <<>> ELSE more]
      /\ read' = [read EXCEPT ![r] = R!NotReading]
  BY DEF R!Deliver, MorePages, NextCursor
<1>3. more \in Seq(SUBSET R!Sequences)
  <2> HIDE DEF page
  <2>1. QED
    BY <1>0, <1>1, PagesGrow DEF MorePages
<1>4. lost'[r] = gone /\ gone \in BOOLEAN /\ asks \in BOOLEAN
  BY <1>0, <1>2 DEF R!NextPage
<1>5. ~gone => page = PageAfter(T, cursor[r])
  <2>1. CASE cursor[r] \in T
    BY <2>1 DEF R!Edges, PageAfter, R!AfterCursor
  <2>2. CASE cursor[r] = R!Top
    <3>1. cursor[r] \notin T /\ T = {l \in T : l < cursor[r]}
      BY <1>0, <2>2
    <3>2. QED
      BY <3>1 DEF R!Edges, PageAfter
  <2>3. QED
    BY <2>1, <2>2
<1>6. asks <=> page # {} /\ \E l \in T : l < R!Min(page)
  BY DEF R!NextPage
<1> HIDE DEF page, next, gone, more, asks
<1>7. /\ cursor' \in [Readers -> 1..R!Top] /\ asksOn' \in [Readers -> BOOLEAN]
      /\ lost' \in [Readers -> BOOLEAN] /\ common' \in [Readers -> SUBSET R!Sequences]
      /\ got' \in [Readers -> Seq(SUBSET R!Sequences)]
  <2>1. <<>> \in Seq(SUBSET R!Sequences)
    OBVIOUS
  <2>2. QED
    BY <1>0, <1>1, <1>2, <1>3, <1>4, <2>1
<1>8. ASSUME ledgers' = ledgers, NEW s \in Readers PROVE ReaderInv(s)'
  <2>1. CASE s # r
    <3>1. /\ read'[s] = read[s] /\ lost'[s] = lost[s] /\ got'[s] = got[s]
          /\ cursor'[s] = cursor[s] /\ common'[s] = common[s] /\ asksOn'[s] = asksOn[s]
      BY <1>0, <1>2, <2>1
    <3>2. ReaderInv(s)
      BY DEF ReadInv
    <3>3. QED
      BY <1>8, <3>1, <3>2 DEF ReaderInv
  <2>2. CASE s = r
    <3>1. read'[r].rows = {}
      BY <1>0, <1>2 DEF R!NotReading
    <3>2. CASE gone
      BY <1>4, <2>2, <3>1, <3>2 DEF ReaderInv
    <3>3. CASE ~gone
      <4>1. /\ got'[r] = more /\ cursor'[r] = next /\ common'[r] = common[r] \intersect T
            /\ asksOn'[r] = asks
        BY <1>0, <1>2, <1>4, <3>3
      <4>2. /\ ~lost[r] /\ cursor[r] \in 1..R!Top /\ common[r] \in SUBSET R!Sequences
            /\ got[r] \in Seq(SUBSET R!Sequences)
        BY <1>0, <3>3 DEF gone
      <4>3. /\ PagesInOrder(got[r])
            /\ \A i \in 1..Len(got[r]) : \A l \in got[r][i] : l >= cursor[r]
            /\ Complete(got[r], cursor[r], common[r])
        BY <4>2 DEF ReadInv, ReaderInv
      <4>4. /\ PagesInOrder(more)
            /\ \A i \in 1..Len(more) : \A l \in more[i] : l >= next
            /\ Complete(more, next, common[r] \intersect T)
            /\ page = {} \/ ~ (\E l \in T : l < R!Min(page)) =>
                  \A l \in common[r] \intersect T : Among(more, l)
        BY <1>5, <3>3, <4>2, <4>3, PageFits DEF more, next
      <4>5. QED
        BY <1>6, <2>2, <3>1, <4>1, <4>4 DEF ReaderInv
    <3>4. QED
      BY <3>2, <3>3
  <2>3. QED
    BY <2>1, <2>2
<1>9. QED
  BY <1>2, <1>7, <1>8

LEMMA ReadStep ==
    ASSUME ReadInv, [R!Next]_readVars PROVE ReadInv'
<1>0. /\ ledgers \subseteq R!Sequences /\ list \subseteq ledgers /\ cached \in BOOLEAN
      /\ read \in [Readers -> [at : {"idle", "fetch", "set"}, rows : SUBSET R!Sequences]]
      /\ cursor \in [Readers -> 1..R!Top] /\ asksOn \in [Readers -> BOOLEAN]
      /\ lost \in [Readers -> BOOLEAN] /\ common \in [Readers -> SUBSET R!Sequences]
      /\ got \in [Readers -> Seq(SUBSET R!Sequences)]
      /\ \A r \in Readers : ReaderInv(r)
  BY DEF ReadInv, R!TypeOK
<1>1. CASE UNCHANGED readVars
  BY <1>0, <1>1 DEF readVars, ReadInv, R!TypeOK, ReaderInv
<1>2. CASE R!AddLedger \/ R!Expire
  <2>1. /\ UNCHANGED <<read, cursor, asksOn, got, common, lost>>
        /\ ledgers \subseteq ledgers' /\ ledgers' \subseteq R!Sequences
        /\ list' \subseteq ledgers' /\ cached' \in BOOLEAN
    BY <1>0, <1>2 DEF R!AddLedger, R!Expire, R!clientVars
  <2>2. QED
    BY <1>0, <2>1 DEF ReadInv, R!TypeOK, ReaderInv
<1>b. ASSUME NEW r \in Readers, NEW at \in {"idle", "fetch", "set"},
             NEW rows, rows \subseteq ledgers,
             read' = [read EXCEPT ![r] = [at |-> at, rows |-> rows]],
             UNCHANGED <<ledgers, cached, list, cursor, asksOn, got, common, lost>>
      PROVE  ReadInv'
  <2>1. [at |-> at, rows |-> rows] \in [at : {"idle", "fetch", "set"}, rows : SUBSET R!Sequences]
    BY <1>0, <1>b
  <2>2. read' \in [Readers -> [at : {"idle", "fetch", "set"}, rows : SUBSET R!Sequences]]
    BY <1>0, <1>b, <2>1
  <2>3. ASSUME NEW s \in Readers PROVE read'[s].rows \subseteq ledgers
    <3>1. read[s].rows \subseteq ledgers
      BY <1>0 DEF ReaderInv
    <3>2. read'[s] = IF s = r THEN [at |-> at, rows |-> rows] ELSE read[s]
      BY <1>0, <1>b
    <3>3. QED
      BY <1>b, <3>1, <3>2
  <2>4. QED
    BY <1>0, <1>b, <2>2, <2>3 DEF ReadInv, R!TypeOK, ReaderInv
<1>3. ASSUME NEW r \in Readers, R!CacheMiss(r) PROVE ReadInv'
  <2>0. [read[r] EXCEPT !.at = "fetch"] = [at |-> "fetch", rows |-> read[r].rows]
    BY <1>0
  <2>1. read' = [read EXCEPT ![r] = [at |-> "fetch", rows |-> read[r].rows]]
    <3>1. read' = [read EXCEPT ![r] = [read[r] EXCEPT !.at = "fetch"]]
      BY <1>3 DEF R!CacheMiss
    <3>2. QED
      BY <2>0, <3>1
  <2>2. read[r].rows \subseteq ledgers
    BY <1>0 DEF ReaderInv
  <2>3. QED
    BY <1>3, <1>b, <2>1, <2>2 DEF R!CacheMiss, R!clientVars
<1>8. ASSUME NEW r \in Readers, R!Fetch(r) PROVE ReadInv'
  BY <1>8, <1>b DEF R!Fetch, R!clientVars
<1>9. ASSUME NEW r \in Readers, R!ReadFails(r) PROVE ReadInv'
  <2> DEFINE none == {}
  <2>1. read' = [read EXCEPT ![r] = [at |-> "idle", rows |-> none]]
    BY <1>9 DEF R!ReadFails, R!NotReading
  <2>2. none \subseteq ledgers
    OBVIOUS
  <2>3. UNCHANGED <<ledgers, cached, list, cursor, asksOn, got, common, lost>>
    BY <1>9 DEF R!ReadFails, R!clientVars
  <2>4. "idle" \in {"idle", "fetch", "set"}
    OBVIOUS
  <2> HIDE DEF none
  <2>5. QED
    BY <1>b, <2>1, <2>2, <2>3, <2>4
<1>a. ASSUME NEW r \in Readers, NEW T, T \subseteq R!Sequences, R!Deliver(r, T),
             ledgers' = ledgers, list' \subseteq ledgers, cached' \in BOOLEAN
      PROVE  ReadInv'
  <2>1. R!NotReading \in [at : {"idle", "fetch", "set"}, rows : SUBSET R!Sequences]
    BY DEF R!NotReading
  <2>2. /\ cursor' \in [Readers -> 1..R!Top] /\ asksOn' \in [Readers -> BOOLEAN]
        /\ lost' \in [Readers -> BOOLEAN] /\ common' \in [Readers -> SUBSET R!Sequences]
        /\ got' \in [Readers -> Seq(SUBSET R!Sequences)]
        /\ read' = [read EXCEPT ![r] = R!NotReading]
        /\ \A s \in Readers : ReaderInv(s)'
    BY <1>a, Delivered
  <2>3. read' \in [Readers -> [at : {"idle", "fetch", "set"}, rows : SUBSET R!Sequences]]
    BY <1>0, <2>1, <2>2
  <2>4. QED
    BY <1>0, <1>a, <2>2, <2>3 DEF ReadInv, R!TypeOK
<1>4. ASSUME NEW r \in Readers, R!CacheHit(r) PROVE ReadInv'
  BY <1>0, <1>4, <1>a DEF R!CacheHit
<1>5. ASSUME NEW r \in Readers, R!CacheSet(r) PROVE ReadInv'
  <2>1. read[r].rows \subseteq ledgers
    BY <1>0 DEF ReaderInv
  <2>2. QED
    BY <1>0, <1>5, <1>a, <2>1 DEF R!CacheSet
<1>6. ASSUME NEW r \in Readers, R!StartOver(r) PROVE ReadInv'
  <2>1. /\ cursor' = [cursor EXCEPT ![r] = R!Top] /\ asksOn' = [asksOn EXCEPT ![r] = TRUE]
        /\ got' = [got EXCEPT ![r] = <<>>] /\ common' = [common EXCEPT ![r] = R!Sequences]
        /\ lost' = [lost EXCEPT ![r] = FALSE] /\ UNCHANGED <<ledgers, cached, list, read>>
    BY <1>6 DEF R!StartOver
  <2>2. R!Top \in 1..R!Top /\ <<>> \in Seq(SUBSET R!Sequences) /\ Len(<<>>) = 0
        /\ \A l \in R!Sequences : ~ (l >= R!Top)
    BY PageAssumption DEF R!Top, R!Sequences
  <2>3. R!TypeOK'
    BY <1>0, <2>1, <2>2 DEF R!TypeOK
  <2>4. ASSUME NEW s \in Readers PROVE ReaderInv(s)'
    <3>1. CASE s = r
      <4>1. /\ got'[r] = <<>> /\ cursor'[r] = R!Top /\ asksOn'[r] = TRUE
            /\ common'[r] = R!Sequences /\ read'[r].rows \subseteq ledgers'
        BY <1>0, <2>1 DEF ReaderInv
      <4>2. QED
        BY <2>2, <3>1, <4>1 DEF ReaderInv, PagesInOrder, Complete
    <3>2. CASE s # r
      BY <1>0, <2>1, <3>2 DEF ReaderInv
    <3>3. QED
      BY <3>1, <3>2
  <2>5. QED
    BY <2>3, <2>4 DEF ReadInv
<1>7. QED
  BY <1>1, <1>2, <1>3, <1>4, <1>5, <1>6, <1>8, <1>9 DEF R!Next

LEMMA ReadFollows ==
    ASSUME ReadInv PROVE R!TypeOK /\ R!PagesFit
<1>1. ASSUME NEW r \in Readers, ~lost[r]
      PROVE  /\ \A i, j \in DOMAIN got[r] : i < j =>
                    \A k \in got[r][i], l \in got[r][j] : k > l
             /\ \A l \in common[r] : ~asksOn[r] \/ l >= cursor[r] =>
                    \E i \in DOMAIN got[r] : l \in got[r][i]
  <2>1. DOMAIN got[r] = 1..Len(got[r])
    BY LenProperties DEF ReadInv, R!TypeOK
  <2>2. QED
    BY <1>1, <2>1 DEF ReadInv, ReaderInv, PagesInOrder, Complete, Among
<1>2. QED
  BY <1>1 DEF ReadInv, R!PagesFit

-----------------------------------------------------------------------------

(* The list in the browser.                                                *)

\* What has been left out of the list, for no reason the history knows, is
\* newer than all that are shown.
NewerThanShown ==
    \A l \in L!Ledgers \ (L!Shown(edges) \union lateLedgers \union burst) :
        \A k \in L!Shown(edges) : l > k
NoneTwice ==
    \A i, j \in DOMAIN edges : i # j => edges[i] \intersect edges[j] = {}
NewestFirst ==
    \A i, j \in DOMAIN edges : i < j => \A k \in edges[i], l \in edges[j] : k > l

ListInv ==
    /\ L!TypeOK /\ Len(tables) > 0
    /\ NoneTwice /\ (disorder \/ NewestFirst) /\ NewerThanShown

\* The instance's own name for Cardinality.
LEMMA ListCardinality == \A T : L!Cardinality(T) = Cardinality(T)
BY DEF L!Cardinality, Cardinality

\* The first page of a list lies above the rest of it.
LEMMA PageAbove ==
    ASSUME NEW T, T \subseteq L!Ledgers, NEW l \in L!Page(T), NEW k \in T, k >= l
    PROVE  k \in L!Page(T)
<1> DEFINE Above(x) == {y \in T : y > x}
<1>1. IsFiniteSet(T) /\ T \subseteq Int /\ \A y \in T : y \in Int
  <2>1. IsFiniteSet(1..MaxSequence) /\ 1..MaxSequence \subseteq Int
    BY PageAssumption, FS_Interval
  <2>2. T \subseteq 1..MaxSequence
    BY DEF L!Ledgers
  <2>3. QED
    BY <2>1, <2>2, FS_Subset, Zenon
<1>2. k \in Int /\ l \in Int
  BY <1>1 DEF L!Page
<1>3. Above(k) \subseteq Above(l) /\ IsFiniteSet(Above(l)) /\ IsFiniteSet(Above(k))
  <2>1. Above(k) \subseteq Above(l) /\ Above(l) \subseteq T
    <3>1. \A y \in T : y > k => y > l
      BY <1>1, <1>2
    <3>2. QED
      BY <3>1
  <2> HIDE DEF Above
  <2>2. QED
    BY <1>1, <2>1, FS_Subset
<1>4. Cardinality(Above(k)) <= Cardinality(Above(l)) /\ Cardinality(Above(k)) \in Nat
      /\ Cardinality(Above(l)) \in Nat
  <2> HIDE DEF Above
  <2>1. QED
    BY <1>3, FS_Subset, FS_CardinalityType
<1>5. Cardinality(Above(l)) < ListFirst
  BY ListCardinality DEF L!Page
<1>6. Cardinality(Above(k)) < ListFirst
  BY <1>4, <1>5, PageAssumption
<1>7. QED
  BY <1>6, ListCardinality DEF L!Page

LEMMA ListInit == L!Init => ListInv
<1> SUFFICES ASSUME L!Init PROVE ListInv
  OBVIOUS
<1>1. PICK T \in SUBSET L!Ledgers : tables = <<T>>
  BY DEF L!Init
<1>2. tables \in Seq(SUBSET L!Ledgers) /\ Len(tables) = 1
  BY <1>1
<1>3. /\ answer = 0 /\ edges = <<>> /\ disorder = FALSE
      /\ lateLedgers = {} /\ burst = {}
  BY DEF L!Init
<1>4. edges \in Seq(SUBSET L!Ledgers) /\ DOMAIN edges = {}
  BY <1>3
<1>5. L!Shown(edges) = {}
  BY <1>4 DEF L!Shown
<1>6. L!TypeOK
  <2>1. answer \in 0..Len(tables)
    BY <1>2, <1>3
  <2>2. disorder \in BOOLEAN /\ lateLedgers \subseteq L!Ledgers /\ burst \subseteq L!Ledgers
    BY <1>3
  <2>3. QED
    BY <1>2, <1>4, <2>1, <2>2 DEF L!TypeOK
<1>7. QED
  BY <1>2, <1>4, <1>5, <1>6 DEF ListInv, NoneTwice, NewestFirst, NewerThanShown

\* What is new becomes the first block.
LEMMA OnTop ==
    ASSUME NEW before \in Seq(SUBSET L!Ledgers), NEW new \in SUBSET L!Ledgers
    PROVE  LET longer == <<new>> \o before IN
           /\ longer \in Seq(SUBSET L!Ledgers)
           /\ Len(before) \in Nat
           /\ DOMAIN before = 1..Len(before) /\ DOMAIN longer = 1..Len(before) + 1
           /\ longer[1] = new
           /\ \A i \in 1..Len(before) : longer[i + 1] = before[i]
           /\ L!Shown(longer) = L!Shown(before) \union new
<1> DEFINE longer == <<new>> \o before
<1>1. <<new>> \in Seq(SUBSET L!Ledgers) /\ Len(<<new>>) = 1 /\ <<new>>[1] = new
  OBVIOUS
<1>2. /\ longer \in Seq(SUBSET L!Ledgers) /\ Len(longer) = Len(before) + 1
      /\ Len(before) \in Nat
      /\ \A i \in 1..Len(longer) : longer[i] = IF i <= 1 THEN new ELSE before[i - 1]
  BY <1>1, ConcatProperties, LenProperties
<1>3. DOMAIN before = 1..Len(before) /\ DOMAIN longer = 1..Len(before) + 1
  BY <1>2, LenProperties
<1> HIDE DEF longer
<1>4. longer[1] = new /\ \A i \in 1..Len(before) : longer[i + 1] = before[i]
  BY <1>2
<1>5. L!Shown(longer) = L!Shown(before) \union new
  <2>1. ASSUME NEW x PROVE x \in L!Shown(longer) <=> \E i \in 1..Len(before) + 1 : x \in longer[i]
    BY <1>3 DEF L!Shown
  <2>2. ASSUME NEW x PROVE x \in L!Shown(before) <=> \E i \in 1..Len(before) : x \in before[i]
    BY <1>3 DEF L!Shown
  <2>3. ASSUME NEW x
        PROVE  (\E i \in 1..Len(before) + 1 : x \in longer[i])
                  <=> (\E i \in 1..Len(before) : x \in before[i]) \/ x \in new
    <3>1. ASSUME NEW i \in 1..Len(before) + 1, x \in longer[i], i # 1
          PROVE  \E j \in 1..Len(before) : x \in before[j]
      <4>1. i - 1 \in 1..Len(before) /\ x \in before[i - 1]
        BY <1>2, <3>1
      <4>2. QED
        BY <4>1
    <3>2. ASSUME NEW i \in 1..Len(before), x \in before[i]
          PROVE  \E j \in 1..Len(before) + 1 : x \in longer[j]
      <4>1. i + 1 \in 1..Len(before) + 1 /\ x \in longer[i + 1]
        BY <1>2, <1>4, <3>2
      <4>2. QED
        BY <4>1
    <3>3. 1 \in 1..Len(before) + 1
      BY <1>2
    <3>4. QED
      BY <1>4, <3>1, <3>2, <3>3
  <2>4. QED
    BY <2>1, <2>2, <2>3
<1>6. QED
  BY <1>2, <1>3, <1>4, <1>5 DEF longer

\* An answer is merged.
LEMMA AnswerMerged == ListInv /\ L!Merged => ListInv'
<1> SUFFICES ASSUME ListInv, L!Merged PROVE ListInv'
  OBVIOUS
<1> DEFINE T == tables[answer]
           page == L!Page(T)
           shown == L!Shown(edges)
           new == page \ shown
<1>1. /\ edges' = L!Merge(edges, page)
      /\ disorder' = (disorder \/ \E l \in new, k \in shown : l < k)
      /\ lateLedgers' = lateLedgers \union
            {l \in L!Ledgers \ T : \E k \in new : l < k}
      /\ burst' = IF page = {} \/ new # page THEN burst
                  ELSE burst \union {l \in L!Ledgers : \A k \in page : l < k}
      /\ answer' = 0 /\ tables' = tables /\ answer # 0
  BY DEF L!Merged
<1>2. /\ tables \in Seq(SUBSET L!Ledgers) /\ answer \in 0..Len(tables)
      /\ edges \in Seq(SUBSET L!Ledgers) /\ disorder \in BOOLEAN
      /\ lateLedgers \subseteq L!Ledgers /\ burst \subseteq L!Ledgers
  BY DEF ListInv, L!TypeOK
<1>3. T \subseteq L!Ledgers /\ page \subseteq T
  BY <1>1, <1>2 DEF L!Page
<1>4. L!Ledgers \subseteq Int
  BY DEF L!Ledgers
<1>5. \A l \in page, k \in T : k >= l => k \in page
  BY <1>3, PageAbove
<1> HIDE DEF T, page
<1>6. shown \subseteq L!Ledgers
  BY <1>2 DEF L!Shown
<1> HIDE DEF shown
<1>7. new \subseteq L!Ledgers /\ new \subseteq T /\ new \intersect shown = {}
  BY <1>3
<1>8. \A l \in L!Ledgers : l \in Int
  BY <1>4
<1>9. \A l \in L!Ledgers \ (shown \union lateLedgers \union burst) : \A k \in shown : l > k
  BY DEF ListInv, NewerThanShown, shown
<1>10. ASSUME NEW l \in L!Ledgers, l \notin shown, l \notin new,
              l \notin lateLedgers', l \notin burst'
       PROVE  \A k \in shown \union new : l > k
  <2>1. l \notin lateLedgers /\ l \notin burst /\ \A k \in shown : l > k
    BY <1>1, <1>9, <1>10
  <2>2. CASE l \notin T
    <3>1. \A k \in new : ~(l < k) /\ k # l
      BY <1>1, <1>7, <1>10, <2>2
    <3>2. \A k \in new : l > k
      BY <1>7, <1>8, <3>1
    <3>3. QED
      BY <2>1, <3>2
  <2>3. CASE l \in T
    <3>1. l \notin page
      BY <1>10
    <3>2. \A k \in page : k > l
      BY <1>3, <1>5, <1>8, <2>3, <3>1
    <3>3. \A k \in page : k \notin shown
      BY <1>3, <1>8, <2>1, <3>2
    <3>4. new = page
      BY <3>3
    <3>5. page = {}
      BY <1>1, <1>3, <1>8, <1>10, <3>2, <3>4
    <3>6. QED
      BY <2>1, <3>5
  <2>4. QED
    BY <2>2, <2>3
<1>11. /\ lateLedgers' \subseteq L!Ledgers /\ burst' \subseteq L!Ledgers
       /\ disorder' \in BOOLEAN
  BY <1>1, <1>2
<1>12. answer' \in 0..Len(tables') /\ tables' \in Seq(SUBSET L!Ledgers) /\ Len(tables') > 0
  BY <1>1, <1>2, LenProperties DEF ListInv
<1>13. CASE new = {}
  <2>1. edges' = edges
    BY <1>1, <1>13 DEF L!Merge, shown
  <2>2. L!Shown(edges') = shown
    BY <2>1 DEF shown
  <2>3. NewerThanShown'
    BY <1>10, <1>13, <2>2 DEF NewerThanShown
  <2>4. QED
    BY <1>1, <1>2, <1>11, <1>12, <2>1, <2>3
    DEF ListInv, L!TypeOK, NoneTwice, NewestFirst
<1>14. CASE new # {}
  <2> HIDE DEF new
  <2>1. edges' = <<new>> \o edges
    BY <1>1, <1>14 DEF L!Merge, shown, new
  <2> DEFINE n == Len(edges)
  <2>2. /\ edges' \in Seq(SUBSET L!Ledgers) /\ n \in Nat
        /\ DOMAIN edges = 1..n /\ DOMAIN edges' = 1..n + 1 /\ edges'[1] = new
        /\ \A i \in 1..n : edges'[i + 1] = edges[i]
        /\ L!Shown(edges') = shown \union new
    BY <1>2, <1>7, <2>1, OnTop DEF shown
  <2>3. \A i \in 1..n : edges[i] \subseteq shown
    BY <2>2 DEF L!Shown, shown
  <2> HIDE DEF n
  <2>4. \A i \in 1..n + 1 : i # 1 => i - 1 \in 1..n /\ edges'[i] = edges[i - 1]
    BY <2>2
  <2>5. NoneTwice'
    <3>1. ASSUME NEW i \in 1..n + 1, NEW j \in 1..n + 1, i # j
          PROVE  edges'[i] \intersect edges'[j] = {}
      <4>1. CASE i = 1
        <5>1. j - 1 \in 1..n /\ edges'[j] \subseteq shown
          BY <2>3, <2>4, <3>1, <4>1
        <5>2. QED
          BY <1>7, <2>2, <4>1, <5>1
      <4>2. CASE j = 1
        <5>1. i - 1 \in 1..n /\ edges'[i] \subseteq shown
          BY <2>3, <2>4, <3>1, <4>2
        <5>2. QED
          BY <1>7, <2>2, <4>2, <5>1
      <4>3. CASE i # 1 /\ j # 1
        <5>1. i - 1 \in 1..n /\ j - 1 \in 1..n /\ i - 1 # j - 1
          BY <2>2, <3>1, <4>3
        <5>2. edges[i - 1] \intersect edges[j - 1] = {}
          BY <2>2, <5>1 DEF ListInv, NoneTwice
        <5>3. QED
          BY <2>4, <4>3, <5>2
      <4>4. QED
        BY <4>1, <4>2, <4>3
    <3>2. QED
      BY <2>2, <3>1 DEF NoneTwice
  <2>6. disorder' \/ NewestFirst'
    <3>1. SUFFICES ASSUME ~disorder' PROVE NewestFirst'
      OBVIOUS
    <3>2. NewestFirst /\ \A l \in new, k \in shown : ~(l < k)
      BY <1>1, <3>1 DEF ListInv, new
    <3>3. \A l \in new, k \in shown : l > k
      BY <1>6, <1>7, <1>8, <3>2
    <3>4. ASSUME NEW i \in 1..n + 1, NEW j \in 1..n + 1, i < j,
                 NEW k \in edges'[i], NEW l \in edges'[j]
          PROVE  k > l
      <4>1. j - 1 \in 1..n /\ l \in edges[j - 1]
        BY <2>2, <2>4, <3>4
      <4>2. CASE i = 1
        BY <2>2, <2>3, <3>3, <4>1, <4>2
      <4>3. CASE i # 1
        <5>1. i - 1 \in 1..n /\ k \in edges[i - 1] /\ i - 1 < j - 1
          BY <2>2, <2>4, <3>4, <4>3
        <5>2. QED
          BY <2>2, <3>2, <4>1, <5>1 DEF NewestFirst
      <4>4. QED
        BY <4>2, <4>3
    <3>5. QED
      BY <2>2, <3>4 DEF NewestFirst
  <2>7. NewerThanShown'
    BY <1>10, <2>2 DEF NewerThanShown
  <2>8. QED
    BY <1>11, <1>12, <2>2, <2>5, <2>6, <2>7 DEF ListInv, L!TypeOK
<1>15. QED
  BY <1>13, <1>14

LEMMA ListStep == ListInv /\ [L!Next]_listVars => ListInv'
<1> SUFFICES ASSUME ListInv, [L!Next]_listVars PROVE ListInv'
  OBVIOUS
<1>1. CASE L!AddLedger
  <2>1. PICK l \in L!Ledgers : tables' = Append(tables, L!Last \union {l})
    BY <1>1 DEF L!AddLedger
  <2>2. UNCHANGED <<answer, edges, disorder, lateLedgers, burst>>
    BY <1>1 DEF L!AddLedger
  <2>3. tables \in Seq(SUBSET L!Ledgers) /\ Len(tables) > 0
    BY DEF ListInv, L!TypeOK
  <2>4. L!Last \union {l} \in SUBSET L!Ledgers
    BY <2>3 DEF L!Last
  <2>5. tables' \in Seq(SUBSET L!Ledgers) /\ Len(tables') = Len(tables) + 1
    BY <2>1, <2>3, <2>4, AppendProperties
  <2>6. answer' \in 0..Len(tables')
    BY <2>2, <2>3, <2>5, LenProperties DEF ListInv, L!TypeOK
  <2>7. Len(tables') > 0
    BY <2>3, <2>5, LenProperties
  <2>8. QED
    BY <2>2, <2>5, <2>6, <2>7
    DEF ListInv, L!TypeOK, NoneTwice, NewestFirst, NewerThanShown, L!Shown
<1>2. CASE L!Answered
  <2>1. UNCHANGED <<tables, edges, disorder, lateLedgers, burst>>
    BY <1>2 DEF L!Answered
  <2>2. tables \in Seq(SUBSET L!Ledgers)
    BY DEF ListInv, L!TypeOK
  <2>3. answer' \in 1..Len(tables)
    BY <1>2, <2>2, LenProperties DEF L!Answered
  <2>4. answer' \in 0..Len(tables')
    BY <2>1, <2>2, <2>3, LenProperties
  <2>5. QED
    BY <2>1, <2>4
    DEF ListInv, L!TypeOK, NoneTwice, NewestFirst, NewerThanShown, L!Shown
<1>3. CASE L!Merged
  BY <1>3, AnswerMerged
<1>4. CASE UNCHANGED listVars
  BY <1>4
  DEF listVars, ListInv, L!TypeOK, NoneTwice, NewestFirst, NewerThanShown, L!Shown
<1>5. QED
  BY <1>1, <1>2, <1>3, <1>4 DEF L!Next

LEMMA ListFollows == ListInv => L!TypeOK /\ L!ShownFits
<1> SUFFICES ASSUME ListInv PROVE L!ShownFits
  BY DEF ListInv
<1>1. L!Last \subseteq L!Ledgers
  BY LenProperties DEF ListInv, L!TypeOK, L!Last
<1>2. QED
  BY <1>1 DEF ListInv, L!ShownFits, NoneTwice, NewestFirst, NewerThanShown

-----------------------------------------------------------------------------

(* All of them together.                                                   *)

ServicesInv ==
    /\ RuntimeInv /\ PoolInv /\ EventInv /\ RateInv /\ ReadInv /\ ServerInv
    /\ SubscriptionInv /\ SocketInv /\ ListInv

\* A step of the whole is a step or a stutter of every part.
LEMMA EachPartSteps ==
    ASSUME [ServiceNext]_vars
    PROVE  /\ [Next]_runtimeVars /\ [D!Next]_poolVars /\ [E!Next]_eventVars
           /\ [A!Next]_limitVars /\ [R!Next]_readVars /\ [S!Next]_serverVars
           /\ [B!Next]_subscriptionVars /\ [W!Next]_socketVars /\ [L!Next]_listVars
<1> USE DEF apiVars
<1>1. CASE RuntimeOnly /\ Next
  BY <1>1 DEF RuntimeOnly
<1>2. CASE PoolOnly /\ D!Next
  BY <1>2 DEF PoolOnly
<1>3. CASE EventsOnly /\ E!Next
  BY <1>3 DEF EventsOnly
<1>4. CASE LimitsOnly /\ A!Next
  BY <1>4 DEF LimitsOnly, ApiOnly
<1>5. CASE ReadsOnly /\ R!Next
  BY <1>5 DEF ReadsOnly, ApiOnly
<1>6. CASE ServerOnly /\ S!Next
  BY <1>6 DEF ServerOnly, ApiOnly
<1>7. CASE SubscriptionsOnly /\ B!Next
  BY <1>7 DEF SubscriptionsOnly, ApiOnly
<1>8. CASE SocketsOnly /\ W!Next
  BY <1>8 DEF SocketsOnly
<1>9. CASE ListOnly /\ L!Next
  BY <1>9 DEF ListOnly
<1>10. CASE UNCHANGED vars
  BY <1>10 DEF vars
<1>11. QED
  BY <1>1, <1>2, <1>3, <1>4, <1>5, <1>6, <1>7, <1>8, <1>9, <1>10 DEF ServiceNext

LEMMA ServicesInit == ServiceInit => ServicesInv
<1> SUFFICES ASSUME ServiceInit PROVE ServicesInv
  OBVIOUS
<1>1. /\ Init /\ D!Init /\ E!Init /\ A!Init /\ R!Init /\ S!Init /\ B!Init /\ W!Init
      /\ L!Init
  BY DEF ServiceInit
<1>2. QED
  BY <1>1, RuntimeInit, PoolInit, EventInit, RateInit, ReadInit, ServerInit,
     SubscriptionInit, SocketInit, ListInit DEF ServicesInv

LEMMA ServicesStep == ServicesInv /\ [ServiceNext]_vars => ServicesInv'
<1> SUFFICES ASSUME ServicesInv, [ServiceNext]_vars PROVE ServicesInv'
  OBVIOUS
<1>1. RuntimeInv' /\ PoolInv' /\ EventInv'
  BY EachPartSteps, RuntimeStep, PoolStep, EventStep DEF ServicesInv
<1>2. RateInv' /\ ReadInv' /\ ServerInv'
  BY EachPartSteps, RateStep, ReadStep, ServerStep DEF ServicesInv
<1>3. SubscriptionInv' /\ SocketInv' /\ ListInv'
  BY EachPartSteps, SubscriptionStep, SocketStep, ListStep DEF ServicesInv
<1>4. QED
  BY <1>1, <1>2, <1>3 DEF ServicesInv

LEMMA ServicesInvariant == ServiceSpec => []ServicesInv
BY ServicesInit, ServicesStep, PTL DEF ServiceSpec

(***************************************************************************)
(* Every variable keeps its type; above all, no interleaving of health     *)
(* checks takes more clients than the runtime indexer's pool has, and no   *)
(* call of a legacy one tries more often than it may.                      *)
(***************************************************************************)
THEOREM ServiceTypesCorrect == ServiceSpec => []TypesOK
<1>1. ServicesInv => TypesOK
  BY RuntimeFollows, PoolFollows, EventFollows, RateFollows, ReadFollows, ServerFollows,
     SubscriptionFollows, SocketFollows, ListFollows DEF ServicesInv, TypesOK
<1>2. QED
  BY <1>1, ServicesInvariant, PTL

(***************************************************************************)
(* checkDatabaseHealth and the alert cooldown: whatever health checks,     *)
(* rejected alerts and late alerts overlap, a failure that is kept silent  *)
(* follows, within the cooldown, the decision for an alert whose call      *)
(* resolved, be it delivered or swallowed by the alert service.            *)
(***************************************************************************)
THEOREM SilenceIsExplained == ServiceSpec => []SilenceExplained
<1>1. ServicesInv => SilenceExplained
  BY RuntimeFollows DEF ServicesInv
<1>2. QED
  BY <1>1, ServicesInvariant, PTL

(***************************************************************************)
(* DatabasePool of the legacy indexer: for any number of callers, attempts *)
(* and recycled pools, every client out of a pool is with a call that      *)
(* gives it back or came after its caller's timeout, no pool gives more    *)
(* than its size, and none is out of a pool that recycle has replaced,     *)
(* unless that recycle did not await its end: it met a shutdown under way  *)
(* or timed out, or another recycle had replaced the pool it awaited.      *)
(***************************************************************************)
THEOREM ClientsAreAccounted == ServiceSpec => []ClientsAccounted
<1>1. ServicesInv => ClientsAccounted
  BY PoolFollows DEF ServicesInv, ClientsAccounted
<1>2. QED
  BY <1>1, ServicesInvariant, PTL

(***************************************************************************)
(* pg-listener.ts and pubsub.ts: for any number of connections, events and *)
(* subscribers, what a subscriber has and what waits for it is what was    *)
(* published since it subscribed, in order, and an event is published no   *)
(* more often than there are connections.                                  *)
(***************************************************************************)
THEOREM EventsAreHeard == ServiceSpec => []EveryEventHeard
<1>1. ServicesInv => EveryEventHeard
  BY EventFollows DEF ServicesInv, EveryEventHeard
<1>2. QED
  BY <1>1, ServicesInvariant, PTL

(***************************************************************************)
(* The fixed windows of the API's request limit, of its subscription       *)
(* limits and of the WebSocket server, of any length and any number of     *)
(* callers: none lets more through between its opening and its end than it *)
(* may, whatever else the stores, the fallbacks and the sweeps do.         *)
(***************************************************************************)
THEOREM BudgetsHold == ServiceSpec => []BudgetHolds
<1>1. ServicesInv => BudgetHolds
  BY RateFollows, SubscriptionFollows, SocketFollows DEF ServicesInv, BudgetHolds
<1>2. QED
  BY <1>1, ServicesInvariant, PTL

(***************************************************************************)
(* paginateLedgers behind its cache, and the merge of the browser's list,  *)
(* for any page size and any table that grows meanwhile: pages cut from    *)
(* different lists fit together, and what is left out is what the history  *)
(* says.                                                                   *)
(***************************************************************************)
THEOREM PagesFitTogether == ServiceSpec => []PagesFit
<1>1. ServicesInv => PagesFit
  BY ReadFollows, ListFollows DEF ServicesInv, PagesFit
<1>2. QED
  BY <1>1, ServicesInvariant, PTL

(***************************************************************************)
(* The start and the shutdown of the API server: its publisher polls after *)
(* a signal only if the signal overtook its start().                       *)
(***************************************************************************)
THEOREM PollsAreOvertaken == ServiceSpec => []PollsOnlyOvertaken
<1>1. ServicesInv => PollsOnlyOvertaken
  BY ServerFollows DEF ServicesInv, PollsOnlyOvertaken
<1>2. QED
  BY <1>1, ServicesInvariant, PTL

=============================================================================

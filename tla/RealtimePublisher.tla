-------------------------- MODULE RealtimePublisher --------------------------
(***************************************************************************)
(* The ledger feed of the API: RealtimePublisher                           *)
(* (packages/api/src/services/realtime-publisher.ts) polls the ledgers     *)
(* table and publishes the rows above its high-water mark to the           *)
(* subscriptions, in the life cycle ApiServer gives it                     *)
(* (packages/api/src/index.ts: started once, stopped at shutdown).         *)
(*                                                                         *)
(* A poll is sent every interval whether or not the one before has been    *)
(* answered, each on a connection of its own, so answers arrive in any     *)
(* order.  Publishing the rows of one answer awaits only the in-process    *)
(* PubSub, which no other callback comes between: it is one step.          *)
(***************************************************************************)
EXTENDS Integers, FiniteSets

CONSTANTS
    Top,       \* bound: ledgers 1..Top
    Polls,     \* bound: queries under way at once
    Limit      \* LIMIT of the query

ASSUME TopAssumption == Top \in Nat
ASSUME LimitAssumption == Limit \in Nat \ {0}

Ledgers == 1..Top
NoRow == 0     \* the mark of a table without rows; every sequence is above it

VARIABLES
    stored,        \* the ledgers table
    boot,          \* start(): off, seeding, armed
    running, timer,
    mark,          \* lastLedgerSequence
    poll,          \* the queries of pollLedgers
    published,     \* ledgers that subscribers have been sent
    \* history
    again,         \* ledgers they have been sent more than once
    seed,          \* the mark that seeding left
    late,          \* ledgers stored after a higher one
    overlapped     \* a poll was sent while another was unanswered

lifeVars == <<boot, running, timer>>
feedVars == <<mark, published, again>>
vars == <<stored, boot, running, timer, mark, poll, published, again, seed, late, overlapped>>

-----------------------------------------------------------------------------

Idle == [at |-> "idle", from |-> NoRow, rows |-> {}]

\* Mutant: newest first.
NewestRows(S) == {s \in S : Cardinality({t \in S : t > s}) < Limit}

\* ORDER BY sequence ASC LIMIT 10
FirstRows(S) == {s \in S : Cardinality({t \in S : t < s}) < Limit}

\* WHERE sequence > $1
Above(m) == {s \in stored : s > m}

Highest(S, m) == m \in S /\ \A s \in S : s <= m

Init ==
    /\ stored = {} /\ late = {}
    /\ boot = "off" /\ running = FALSE /\ timer = FALSE
    /\ mark = NoRow /\ seed = NoRow
    /\ poll = [p \in Polls |-> Idle]
    /\ published = {} /\ again = {}
    /\ overlapped = FALSE

-----------------------------------------------------------------------------
(* The life of the publisher *)

Start ==
    /\ boot = "off" /\ ~running
    /\ boot' = "seeding" /\ running' = TRUE
    /\ UNCHANGED <<stored, timer, feedVars, poll, seed, late, overlapped>>

\* start() arms the timer when seeding is over, whether or not it was stopped
\* meanwhile.
Arm ==
    /\ boot = "seeding"
    /\ boot' = "armed" /\ timer' = TRUE
    /\ UNCHANGED <<stored, running, poll, published, again, late, overlapped>>

\* Mutant: an empty table is not told apart.
SeedOfNothing == -1

EmptySeed == mark

\* seedHighWaterMarks: the first poll is sent after it, so a ledger stored
\* between the query and its answer is one stored after it.
Seed ==
    /\ Arm
    /\ \/ Highest(stored, mark')
       \/ stored = {} /\ mark' = EmptySeed
    /\ seed' = mark'

\* The query fails, and the error is swallowed.
SeedFails == Arm /\ UNCHANGED <<mark, seed>>

Stop ==
    /\ running
    /\ running' = FALSE /\ timer' = FALSE
    /\ UNCHANGED <<stored, boot, feedVars, poll, seed, late, overlapped>>

-----------------------------------------------------------------------------
(* Polls *)

Tick(p) ==
    /\ timer /\ running /\ poll[p].at = "idle"
    /\ poll' = [poll EXCEPT ![p] = [at |-> "sent", from |-> mark, rows |-> {}]]
    /\ overlapped' = (overlapped \/ \E q \in Polls : poll[q].at # "idle")
    /\ UNCHANGED <<stored, lifeVars, feedVars, seed, late>>

\* PostgreSQL evaluates the query.
Read(p) ==
    /\ poll[p].at = "sent"
    /\ poll' = [poll EXCEPT ![p].at = "read", ![p].rows = FirstRows(Above(poll[p].from))]
    /\ UNCHANGED <<stored, lifeVars, feedVars, seed, late, overlapped>>

\* Mutant: the mark stays behind.
StaysBehind(S, m) == m = mark

AdvancesTo(S, m) == Highest(S, m)

\* The answer arrives: every row is published, in order, and becomes the mark.
\* The answer of an earlier poll takes the mark back.
Publish(p) ==
    /\ poll[p].at = "read"
    /\ poll' = [poll EXCEPT ![p] = Idle]
    /\ published' = published \union poll[p].rows
    /\ again' = again \union (published \intersect poll[p].rows)
    /\ \/ poll[p].rows = {} /\ UNCHANGED mark
       \/ poll[p].rows # {} /\ AdvancesTo(poll[p].rows, mark')
    /\ UNCHANGED <<stored, lifeVars, seed, late, overlapped>>

\* The query fails or its answer is lost, and the error is swallowed.
Fail(p) ==
    /\ poll[p].at # "idle"
    /\ poll' = [poll EXCEPT ![p] = Idle]
    /\ UNCHANGED <<stored, lifeVars, feedVars, seed, late, overlapped>>

PollStep(p) == Tick(p) \/ Read(p) \/ Publish(p) \/ Fail(p)

-----------------------------------------------------------------------------

\* An indexer commits a ledger; a backfill fills in lower ones.
Store(s) ==
    /\ s \notin stored
    /\ stored' = stored \union {s}
    /\ late' = IF \E t \in stored : t > s THEN late \union {s} ELSE late
    /\ UNCHANGED <<lifeVars, feedVars, poll, seed, overlapped>>

Next ==
    \/ Start \/ Seed \/ SeedFails \/ Stop
    \/ \E p \in Polls : PollStep(p)
    \/ \E s \in Ledgers : Store(s)

\* The interval goes on, and the database is not out of reach for ever.
Fairness ==
    \A p \in Polls : WF_vars(Tick(p)) /\ SF_vars(Read(p)) /\ SF_vars(Publish(p))

Spec == Init /\ [][Next]_vars /\ Fairness

-----------------------------------------------------------------------------
(* Properties *)

\* Type correctness of the publisher, its polls and the history.
TypeOK ==
    /\ stored \in SUBSET Ledgers /\ late \in SUBSET Ledgers
    /\ boot \in {"off", "seeding", "armed"} /\ running \in BOOLEAN /\ timer \in BOOLEAN
    /\ mark \in Ledgers \union {NoRow} /\ seed \in Ledgers \union {NoRow}
    /\ poll \in [Polls -> [at : {"idle", "sent", "read"}, from : Ledgers \union {NoRow},
                           rows : SUBSET Ledgers]]
    /\ published \in SUBSET Ledgers /\ again \in SUBSET Ledgers
    /\ overlapped \in BOOLEAN

\* Ledgers the feed owes its subscribers
Owed == {s \in stored \ late : s > seed}

\* The high-water mark never moves past a ledger that subscribers have not been
\* sent, and no ledger is sent before a lower one: however polls overlap, in
\* whatever order they are answered, and whichever fail.  Only a ledger that
\* is stored after a higher one can be passed over.
NothingPassedOver ==
    \A s \in Owed : s <= mark \/ (\E t \in published : s <= t) => s \in published

\* A ledger is sent twice only if polls have overlapped (the interval is
\* shorter than a query), never because of failures, stores out of order or
\* a failed seed.
TwiceOnlyByOverlap == ~overlapped => again = {}

\* realtime-publisher.ts:4: the publisher polls for new ledgers and publishes
\* them.  Each ledger owed is published while the publisher runs, although
\* answers of older polls take the mark back.
EveryLedgerPublished ==
    \A s \in Ledgers : timer /\ running /\ s \in Owed ~> s \in published \/ ~running

-----------------------------------------------------------------------------
(* Inductive invariants *)

\* Whether every ledger owed up to m has been sent
Covered(m) == \A s \in Owed : s <= m => s \in published

\* NothingPassedOver: marks and the starting points of polls are stored
\* ledgers, and what a poll has read continues what was sent before it.
FeedInv ==
    /\ NothingPassedOver
    /\ published \subseteq stored
    /\ mark \in stored \union {NoRow} /\ mark >= seed
    /\ timer => boot = "armed"
    /\ boot # "armed" => mark = NoRow /\ published = {} /\ \A p \in Polls : poll[p] = Idle
    /\ \A p \in Polls : poll[p].at # "idle" =>
         /\ poll[p].from \in stored \union {NoRow} /\ poll[p].from >= seed
         /\ Covered(poll[p].from)
         /\ poll[p].rows \subseteq stored
    /\ \A p \in Polls : poll[p].at = "read" => \A t \in poll[p].rows :
         /\ t > poll[p].from
         /\ \A s \in Owed : poll[p].from < s /\ s < t => s \in poll[p].rows

\* TwiceOnlyByOverlap: as long as polls take turns, the mark is the last ledger
\* sent and the poll under way starts from it.
TurnInv ==
    /\ TwiceOnlyByOverlap
    /\ ~overlapped =>
         /\ \A s \in published : s <= mark
         /\ \A p, q \in Polls : poll[p].at # "idle" /\ poll[q].at # "idle" => p = q
         /\ \A p \in Polls : poll[p].at # "idle" => poll[p].from = mark
         /\ \A p \in Polls : poll[p].at = "read" => \A t \in poll[p].rows : t > mark
=============================================================================

# Verification of the Stellar analytics dashboard

TLA+ models of the concurrent and fault-handling parts of this repository,
TLC configurations that check them on small instances, and TLAPS proofs of
their main properties for every value of the constants.

1. [The system](#1-the-system)
2. [Modules](#2-modules)
3. [Backfill](#3-backfill)
4. [CircuitBreaker](#4-circuitbreaker)
5. [RetryQueue](#5-retryqueue)
6. [RealtimePublisher](#6-realtimepublisher)
7. [The legacy indexer](#7-the-legacy-indexer)
8. [The services around the indexers](#8-the-services-around-the-indexers)
9. [Where the code disagrees with its documents](#9-where-the-code-disagrees-with-its-documents)
10. [Proofs](#10-proofs)
11. [What is not modelled](#11-what-is-not-modelled)
12. [What could come next](#12-what-could-come-next)

Run everything from this directory: `tlc -workers 2 -config X.cfg M`
for a model, `tlapm M.tla` for a module of proofs. Section 2 has the pairs.

## 1. The system

The repository is a monorepo with two generations of the same program. The
runtime is `indexer/` (ingestion), `packages/api` (GraphQL) and the
frontends; `packages/indexer` and `api/` are the older generation
(docs/architecture.md keeps `packages/indexer` for its migrations). Components
meet in PostgreSQL; nothing calls across processes except Horizon (HTTP),
`pg_notify` and WebSockets to browsers.

    Horizon --> runtime indexer --+
    Horizon --> backfill job -----+--> PostgreSQL --> API: queries, cache, publisher --> browsers
    dead letter queue, recovery --+          \--pg_notify--> legacy API listener ---------^

| Component | State | Operations | Meets | What is hard | Correct when |
|---|---|---|---|---|---|
| Backfill job (`indexer/src/backfill.ts`, `checkpoint.ts`, `loader.ts`, `backfill-cli.ts`) | a row of `backfill_checkpoints`; batch position, counts, worker pool | run, resume, cancel, load a ledger, save and finish the checkpoint | Horizon, `ledgers` and its children, the live indexer through the same tables | worker interleavings, a signal in mid batch, a crash between ledger and checkpoint, lost COMMIT replies, runs repeated with other options | the checkpoint stands behind stored ledgers only, counts fit the position, runs end |
| Dead letter queue, recovery job (`indexer/src/error-recovery/`) | queue in memory, state file, log of given up ledgers; timer and flag of the job | push, remove, clear, persist, load; start, stop, pass | two files; a retry processor supplied by the caller | a crash or failed write between two files, overlapping passes, pass against push and stop | no accepted failure is lost, attempts are not given back, ready ledgers are retried |
| Circuit breaker and retries (`CircuitBreaker.ts`, `stellar-service.ts`, `retry-config.ts`) | state, two counts, time of the last failure; calls in flight | execute, reset, getState, getStats | Horizon | results of calls admitted in another state, the half-open gate, staying open | opens and closes for the documented reason, is never stuck |
| Runtime indexer (`indexer/src/index.ts`, `ingester.ts`, `alert-cooldown.ts`) | pool clients, alert cooldown, interval, shutdown flag | cycle, health check, alert, shutdown | Horizon, PostgreSQL, WebSocket server, webhook | overlapping cycles and checks, late or rejected alerts, clients that are not released | silence is explained, shutdown ends |
| Realtime WebSocket server (`indexer/src/websocket.ts`) | clients, liveness flags, message windows, ping timer | connect, message, ping, broadcast, close | runtime indexer, browsers | messages of a closing connection, flags against timers | the message limit holds |
| Gap detection (`packages/indexer/src/backfill/GapDetectionService.ts`, `indexer/src/gap-detector.ts`) | two scans and a recovery | scan the tables, scan the lag, report, recover | PostgreSQL, a backfill callback | statements that do not read one snapshot, overlapping gaps, failures in the middle | names every missing ledger, tries every gap |
| Publisher (`packages/api/src/services/realtime-publisher.ts`) | high-water marks, timer, running flag | start, seed, stop, poll, publish | PostgreSQL, browsers | overlapping polls, rows that commit late | each row once, none passed over |
| Query cache, connections, list resolver (`packages/api/src/database/`, `resolvers/ledgers.ts`, `utils/pagination.ts`) | one Redis entry for the list; a pool | query, fetch, fill, expire; cut a page | PostgreSQL, Redis | a slow fetch that fills the cache with an older list, expiry between two pages | pages fit together |
| API server (`packages/api/src/index.ts`) | pool, Apollo, timers, HTTP server | start, stop on a signal | all of the API | a signal while start() awaits, a second signal | stops, and polls no more |
| Subscription limits (`packages/api/src/pubsub.ts`) | two fixed-window records | connect, subscribe, clean up | browsers | windows, clean-up | limits hold |
| Legacy event listener (`api/src/pg-listener.ts`, `pubsub.ts`) | client, reconnect timers; iterators | connect, reconnect, deliver, stop | `pg_notify`, subscriptions | two causes of one reconnect, stop during a connect | every event reaches subscribers, a lost connection comes back |
| Legacy request limits (`api/src/rateLimit.ts`, `api/src/index.ts`) | a shared row, a record per replica | count, fall back, prune | PostgreSQL | the shared store fails before or after it counted | the budget holds |
| Legacy indexer service (`packages/indexer/src/services/indexer-service.ts`, `index.ts`, `idempotency/`, `rate-limiter/`, `BackfillCheckpointManager.ts`) | position, stream, tasks, checkpoint rows, processed marks, caches | boot, stream, backfill, store a ledger, mark, unmark, shut down | Horizon, PostgreSQL | one ledger in two tasks, a mark outside of its ledger's transaction, stale caches | work runs once, a failed ledger is queued, losses have a reason |
| Legacy database pool (`packages/indexer/src/config/database.ts`) | pool, timers, retries | acquire, query, health check, shut down, recycle | PostgreSQL | a client that comes after its timeout, recycling with clients out | clients are accounted for, acquires end |
| Migrations (`packages/indexer/src/database/`) | `schema_version` rows | check, migrate, record, verify | PostgreSQL, node-pg-migrate | deployments that overlap, fail half way or go back | a release runs on a schema it fits |
| Frontends (`packages/frontend`, `frontend/`, `src/dashboard`) | Apollo's cache, view state | poll, merge, load more | API | answers from older lists | the list fits the table |

Configuration, logging, metrics, the mock of Horizon, most GraphQL resolvers,
shared constants and tooling keep no state of interest. `PROJECT.json` lists
every component with its files, and the hazards with the line where each bites.

## 2. Modules

| Module | Is | Configurations |
|---|---|---|
| `Backfill` | the backfill job, its row, its pool and the process around it | through `MCBackfill`: `MCBackfill`; `BackfillCancelled`, `BackfillRerun` and `BackfillSkip` end in a violation |
| `CheckpointedJob` | what a checkpoint promises: ledgers are stored, a position is recorded over stored or given up ledgers | checked as `RefinesJob` in `MCBackfill.cfg` |
| `BackfillProofs` | types, checkpoint and counts; the pool; resumption and the refinement | - |
| `CircuitBreaker`, `CircuitBreakerProofs` | the breaker with the calls in flight | through `MCCircuitBreaker`: `MCCircuitBreaker`; `CircuitBreakerOneProbe` ends in a violation |
| `RetryQueue`, `RetryQueueProofs` | the dead letter queue, its files, the recovery job | through `MCRetryQueue`: `MCRetryQueue`, `RetryQueueLive`; `RetryQueueStarted` ends in a violation |
| `RealtimePublisher`, `RealtimePublisherProofs` | the ledger feed of the API and its overlapping polls | through `MCRealtimePublisher`: `MCRealtimePublisher` |
| `PackageIndexer`, `PackageProofs` | the five parts of `packages/indexer` that follow, side by side; the theorems about them | through `MCLegacyIndexer`: `MCLegacyIndexer` |
| `IdempotencyTracker`, `IdempotencyTrackerProofs` | the table of processed keys and the cache of every process | part "tracker" |
| `LegacyIndexer` | stream, backfill and ledger tasks of `packages/indexer`, its start and its death | part "indexer" |
| `GapDetection` | the scans for missing ledgers and their recovery | part "gaps" |
| `SchemaMigrations` | releases that check, migrate and record the schema's version | part "schema" |
| `HorizonRateLimiter` | the sliding window in front of Horizon | part "limiter" |
| `Services`, `ServicesProofs` | the nine parts that follow, side by side; the theorems about them | through `MCServices`: `MCServices` |
| `RuntimeIndexer` | the runtime indexer's process: checks, alerts, cycles, pool, shutdown | part "runtime" |
| `RealtimeSockets` | its WebSocket server | part "sockets" |
| `DatabasePool` | the pool wrapper with timeouts, retries and recycling | part "pool" |
| `LedgerEvents` | the LISTEN connection, reconnections and subscribers | part "events" |
| `ApiRateLimit` | request budgets in PostgreSQL and in replicas | part "limits" |
| `ApiReads` | pages of ledgers through resolver and cache | part "reads" |
| `ApiServer` | start and stop of the API process | part "server" |
| `SubscriptionLimits` | limits on connections and subscriptions | part "subscriptions" |
| `LiveList` | the polled list in the browser and its merges | part "list" |
| `CountingLemmas` | facts the proofs share: least and greatest numbers, counting, recursion, the counts of a window | - |

A step of a model is the code between two awaits, since Node.js runs that
without interruption; where code is synchronous but writes files, a step is
what lies between two file writes, because a crash can fall there.

## 3. Backfill

*State.* `ledgers[s]` is what PostgreSQL holds of a ledger: `absent`,
`filtered` (a row with one account's transactions, from a run with
`--account`), `whole`. `checkpoint` is the row. `main` is where `runBackfill`
is: `load`, `create`, `loop`, `pool`, `save`, `finish`; `worker`, `nextSeq` and
`results` are `runWithConcurrency`; `concurrency` is the size of this run's pool, one
of `Concurrencies`, since every start may pass another and `--concurrency=0` passes
the unchecked `parseInt` (backfill.ts:450). `dropped` remembers what cancelled runs
and runs without workers never tried, `runs` bounds the number of runs.

*Actions.* `LoadCheckpoint`, `CreateCheckpoint` (the upsert keeps position and
counts of an old row), `BeginBatch`, `TallyBatch`, `SaveCheckpoint`,
`CancelAtBatch`, `FinishRun` follow `runBackfill` from top to bottom; a
cancelled run goes through `FinishRun` too, as in the code. A worker runs
`TakeNext`, then `SkipIndexed` or `NotIndexed`, `Fetched`, `Commit`, or fails
(`Fail`), or commits without hearing of it (`CommitUnheard`). `Abort` is the
signal, `Die` any death of the process, `LiveIndex` the live indexer.
A ledger's contents are one value; progress output and notifications are left out.

*Checked* by `MCBackfill.cfg` (ledgers 1..3, no worker or two, batches of
two, two runs; 585,735 distinct states):

- `CleanCheckpoint`: a row without failures stands behind no missing ledger.
- `TallyWithinPosition`: counts never exceed the ledgers passed.
- `NoLedgerTwice`: the workers of a pool never share a ledger.
- `OnlyAbortLeavesHoles`: a batch without a signal has a result for every ledger, if the run
  has a worker; with an empty pool it has none at all, and the run goes on.
- `ResumedRunNeverRewinds`: a resumed run never moves the row back.
- `RefinesJob`: every step is a step of `CheckpointedJob` or a stutter.
- `RunTerminates`: every run ends.

*Bounds.* Three ledgers in batches of two give a full and a cut batch and a
resume between them; two workers give every race on the shared index, none the empty pool; two
runs give one that is cut short and one that resumes it or starts over its row.
`BackfillRerun` needs three: a failure, a resume and the end. `MaxRuns` bounds
behaviours only.

*Fairness.* Weak fairness of the main function and of each worker: an await of
pg or of an HTTP client with a timeout is answered and a ready continuation is
run. Nothing is assumed of signals, crashes and operators.

## 4. CircuitBreaker

*State.* `state`, `failureCount`, `successCount`, `lastFailure` (`none`,
`recent`, `cooled`: only the comparison with `cooldownMs` matters) are the fields of the
class; `call[c]` is a caller inside `execute`, with its attempt
and the state it was admitted in; `trouble` says whether requests may fail.
`failStreak` and `okStreak` are history: outcomes in a row.

*Actions.* `Admit`, `Succeed`, `Fail` are `execute` before and after its await
with `onSuccess` and `onFailure`; `BackOff` and `Retry` are the loop of
`retryWithBackoff` inside it; `GetState` is a state query, which makes the
same transition; `Reset`; `Cool` is the clock; `Weather` is Horizon.

*Checked* by `MCCircuitBreaker.cfg` (three callers, both thresholds two, two
attempts, counts stop at three): `NeverStuckOpen`, an open circuit has a
failure time and can cool; `OpensOnStreak`, it opens from closed only after
`failureThreshold` failures in a row; `ClosesOnSuccesses`, it closes only after
`successThreshold` successes in a row or a reset. Three callers are one more than
either threshold, so results of calls admitted before a change of state can meet each
threshold alone. `Recovers`: after Horizon stops failing for good the circuit
closes for good.

*Fairness.* Only for recovery: calls end, callers keep calling, time passes.
`CountCap` saturates a count that the code only compares with a threshold.

## 5. RetryQueue

*State.* `state` (attempts per ledger, 0 for no entry) and `logged` are the two
files; `queue`, `due` (backoff elapsed) and `call` (the method under way)
are the queue object; `isProcessing`, `scheduled` and `pass` are the
job, with every run of `processRetryQueue` that is alive. `owed` is
history: failures `push` accepted that nothing has resolved, cleared or logged since;
`unread` those of them that a start did not find because it could not read the file.

*Actions.* `Push`, `Remove`, `Clear` start a method; `GiveUp`, `Drop`,
`PersistState` are its effects up to the next file write; `WriteFails` throws
out of it, into the pass when the pass made the call. `Start`, `Stop`, `Tick`,
`Retry`, `RetrySucceeds`, `RetryFails`, `RetryThrows`, `EndPass` are the job.
`BackoffElapses` is time. `Crash` loses the memory. `Restart` reads the state file, or
cannot (`LoadFails`): the code then starts with an empty queue (DeadLetterQueue.ts:238, as
`DeadLetterQueue.reload.test.ts:70` expects) and the next `persistState` replaces the file.

*Checked.* `MCRetryQueue.cfg` (two ledgers, two passes at once, two
retries; 4,060,752 distinct states): `NothingForgotten`, an owed failure that is not `unread` is in the
state file, and in memory while the process lives; `AttemptsSurvive`, its attempts on disk never
shrink while the failure stands. `RetryQueueLive.cfg` (one pass; 777,688): `EveryLedgerRetried`, a
ledger with attempts left is retried or settled. A failure leaves `unread` when its file
is read after all, when the ledger is pushed again, or when it is settled; so the exception covers what
a failed load forgets and nothing else.

*Bounds.* Two ledgers let one call disturb another's entry; two passes are the
overlap of a slow pass with the next tick, which only the safety run has. `AttemptCap` bounds a count that can
outgrow `MaxRetries` only while the log cannot be written. The ledgers, and the passes, are
interchangeable, so the safety runs use symmetry; the liveness run does not.

*Fairness.* Calls proceed; ticks and steps of a pass are strongly fair, since
the event loop runs timers and ready continuations in turn and other
callbacks cannot starve them. The processor answers, with success, failure or
a throw; nothing makes it succeed. Liveness is claimed while the process lives.

## 6. RealtimePublisher

*State.* `stored` is the `ledgers` table; `boot`, `running`, `timer` the life of the
object, which `ApiServer` starts once; `mark` is `lastLedgerSequence`; `poll[p]` is a
query of `pollLedgers` with the mark it was sent with and the rows PostgreSQL
answered. `published` and `again` are what subscribers received, once and
more than once; `seed`, `late` and `overlapped` are history.

*Actions.* `Start`, `Seed` or `SeedFails` (the error is swallowed and the timer
armed), `Stop`; `Tick` sends a query whether or not others are unanswered,
`Read` evaluates it, `Publish` is the loop over its rows, `Fail` the swallowed error;
`Store` is an indexer. `Publish` is one step because the loop awaits only the
in-process PubSub, and promise continuations run before any other callback.

*Checked* by `MCRealtimePublisher.cfg` (four ledgers, two polls, `LIMIT` two):
`NothingPassedOver`, no ledger stored in order is skipped or sent before a lower one;
`TwiceOnlyByOverlap`, duplicates need overlapping polls; `EveryLedgerPublished`.
A ledger stored after a higher one may be passed over: that is what the
code does with rows a backfill adds below the mark, and `late` excepts them.

*Bounds.* Two polls let an older answer arrive last and take the mark back; four
ledgers at two a query make answers that overlap in part. The system may stop
(`CHECK_DEADLOCK FALSE`): after `Stop` nothing has to happen.

*Fairness.* The interval ticks (weak); queries are read and answered
infinitely often if sent infinitely often (strong): the database may fail any
number of times, not always.

## 7. The legacy indexer

`PackageIndexer` puts five parts of `packages/indexer` side by side that share no state in
these models. The first state picks the `part`; only its steps are taken, so
one run explores each part by itself, and an invariant of a part says nothing
of the others. It declares their constants and says what they are: the ranges asked for over HTTP
lie on the chain (`ChainAssumption`), there is a first release (`ReleaseAssumption`), the
limit on Horizon is positive (`HorizonAssumption`), the other numbers are
counts (`ScanAssumption`). `MCLegacyIndexer` gives them the values of the
run, which has 1,056,640 distinct states (a minute and a half). `CHECK_DEADLOCK FALSE`, for a part may come to its end (the bound of
starts is used up, all ledgers are stored).

**IdempotencyTracker.** `records` is `idempotency_records`, `processedCache[t]` the
cache of a process, `call[c]` an async call: which statement it awaits, its
keys, checksum and conflict strategy. `Initialize`, `IsProcessed`,
`MarkProcessed`, `WithIdempotency`, `Unmark`, `Cleanup` start a method; the
other actions are its answers. `AcquireLock` is the advisory lock, held to the end of
the transaction. `Fail` loses a connection at any await, also after COMMIT
was executed; `Crash` ends a process. `ran` counts the work done while a row stands;
`stale` notes the keys whose row was deleted while a call or another
process's cache knew it.

- `WorkRunsOnce`: the work of a key runs once while its row stands. Callers
  with another strategy than SKIP run it again on purpose and are excepted.
- `StaleOnlyByOverlap`: a cache knows a key without a row only where a deletion
  met a call under way or another process. Nothing in the code repairs these.

One key, two processes, two callers in one of them: enough for a lock held by one
caller while another asks and a third deletes.

**LegacyIndexer.** `ledgers`, `txs`, `marks`, `jobs` are tables; `task[o, s]` is
`processLedger` for ledger `s` from the stream or from a backfill; `backfill` is
`startBackfill` with its loop. `Boot`, `Deliver`, `StreamFails`,
`Reconnect`, `FetchBatch`, `SaveBatch`, `FinishBackfill`, `ManualBackfill`,
`Shutdown`, `Crash` follow `indexer-service.ts` and `index.ts`. A task goes through
`BeginLedger`, `SkipTransactions` or `FilterDuplicates`, `InsertAndMark`,
`CommitLedger`, `FinishLedger`, and can fail at each. `shouldSkip` stands before the `try`: if it
rejects (`CheckFails`) the call throws and queues nothing. A COMMIT can be carried out without an
answer (`CommitUnheard`): the ledger is stored and queued. `LoadQueue` is the start of the dead
letter queue, which finds some of the entries, or none. A rejected task of the stream
ends the process, since nobody awaits it.

- `FailedIsQueued`: a ledger whose processing threw is stored or queued,
  although two tasks for one ledger may overlap and the later one clears the queue; except
  (`unqueued`) one whose call threw before its `try`, and an entry that the last start did not find in
  the file, each until it is stored or fails again.
- `LossExplained`: a ledger is stored without its transaction only if the circuit was open,
  validation dropped it, or its mark had outlived a rolled-back transaction.

Two ledgers, batches of one, two starts, one reconnection and one request over HTTP
let stream and backfill meet on one ledger and a second start resume a first one's row.
Backfills asked for over HTTP run one at a time, which the routes of
packages/indexer/src/index.ts:232 and 290 do not enforce: two of them at once are not modelled, but
any two tasks for one ledger are, one from the stream and one from a backfill.

**GapDetection.** A scan is two statements (`ReadRange`, `ReadRows`, or
`CountLag` for the lag), while `Store` and `FileTransactions` go on between them.
`Merge` is `mergeGaps`, the loop over the sorted gaps as a recursive function; `RecoverGap` calls back for
one gap, and fails or not.

- `HolesFound`: a finished scan names every ledger still missing between its bounds.
- `EveryGapTried`: a recovery tries exactly the ledgers named by either scan,
  through failures, and its total counts each once.

Five ledgers give two separate gaps, gaps inside one another and a lag.

**SchemaMigrations.** `proc[p]` is a service or `migrate.ts` of a release: check,
migrate, record, verify, run. `Rollback` leaves migrations out by hand (`short`).
`SchemaFits`: the recorded version never promises more than is applied, and a running
release shares its major version with what is applied, unless migrations were left out. Three releases, the last one a major
upgrade, on two processes: an upgrade, a rollback and an overlap of both.

**HorizonRateLimiter.** `requests[a]` counts the requests let through less than `a`
ticks ago, `timer[c]` is a sleeping caller. `SlidingBudget`: no more than the limit in
any stretch as long as the window, and nobody sleeps longer than a request holds
it up. Three callers, a limit of two and a window of three ticks let callers
wake together.

## 8. The services around the indexers

`Services` puts nine parts side by side in the same way; `MCServices` gives
the constants their values (197,700 distinct states). The assumptions say that pages, windows,
attempts and generations are positive, other limits are counts, that callers and connections are finite, and that no
replica is called like the shared store. Its fairness is that of the
parts, given under each; a part that is not chosen does not step, and its
liveness properties hold of it trivially.

**RuntimeIndexer.** `check[h]` is a `/health` request: it waits in the queue of the pool
(`queued`), for its connection, its SELECT 1 or an alert; `cycle[c]` is a polling cycle, `out` the
clients being connected or out of the pool, `lastAlert` the age of the last database alert, `life` the
shutdown; `pooled` says whether a database is configured, without which a check answers at once. A cycle always
ends in an error: `pollLatestLedger` calls an `end()` that is not defined
(ingester.ts:112). `leaked`, `resolved` and `unreported` are history.

- `SilenceExplained`: a failing check is silent only if, within the cooldown, an alert was
  decided whose call has resolved. That is what the code can know: `alertDatabaseError` resolves as well
  when alerting is disabled, the alert is throttled or every provider has failed
  (`AlertService.test.ts:208`, `:242`, `:266`), so such an alert silences its followers with nothing
  delivered, for no longer than the cooldown. One that rejected, or is still under way, silences nobody.
- `ProcessesEnd`, first half (`ShutdownEnds`): after a signal the process exits, unless it has
  come to a halt for good: its own alert was rejected; `pool.end()` waits for a client
  leaked at a failed SELECT 1; or a check was in the queue of the pool when it was ended, which nobody
  serves any more. Fair: alerts and pg answer, shutdown goes on; no check has to be asked for, and
  a queued one is not answered by fairness.

Two checks, two cycles, a pool of one and a cooldown of one tick: two checks overlap, one
leak empties the pool, one check waits for another's client, and an alert can outlive its cooldown.

**RealtimeSockets.** `SocketBudget` (in `BudgetHolds`): the message limit holds
over every window, also on a connection that is being closed for breaking it. Pings are modelled as they
are, without an answer that counts (section 9), and no property is about them. Two clients, one message
a window of two ticks.

**DatabasePool.** `client[c]` is an acquire, a query or a health check, with its
attempt and the generation of the pool it asks; `orphans` are connects whose caller timed out.
`Shutdown` may be called by a user or by `recycle`; `awaits[g]` are the `end()`s that the one begun on
generation `g` waits for, `recycling` the ones a recycle began. `RecycleAtOnce` is a recycle that finds
`isShuttingDown` set: its `shutdown()` returns at once (database.ts:600), a new pool is opened beside
the old one and the flag is reset (650-660). The old one is `abandoned` if it was not over.
`DrainTimesOut` calls `end()` of the pool in use by then, which may be the new one.
`ClientsAccounted`: every client out of a pool is with a call that will release it or was given
late; no pool gives more than its size; and no client is out of any pool but the one in use and
those abandoned, each of which a recycle has replaced without awaiting its end.
`AcquireSettles`: an acquire ends by timers and the attempt limit alone; only timers are fair.

One caller and one health check, a pool of two, two attempts and two generations: a drain with
clients out, its timeout, a recycle during it and after it. A drain that resumes over a pool newer
than its own needs three generations and is covered by the theorem alone. `MaxOrphans` bounds the promises left
behind in one generation; a further one counts as failed.

**LedgerEvents.** `conn[c]` is a connection with the notifications PostgreSQL has queued
for it; `timers` the reconnections armed; `sub[s]` an iterator. `ConnectRejects` and
`ConnectionEnds` both schedule a reconnection, as the code does. `EveryEventHeard`: what a
subscriber got, then its queue, is what was published since it subscribed, and
an event is published at most once a connection. `ListensAgain`: while PostgreSQL stays up and
nobody stops the listener, it listens again. Fair: timers fire, connections
settle. Two events, two connections, two timers show the doubled listener.

**ApiRateLimit, SubscriptionLimits.** Fixed windows counted down by `Tick`. What
was let through is history, for every stretch of time up to a window that ends now.
`BudgetHolds`: a store lets through its budget in a window and at most twice in
a stretch as long, with the shared store failing before or after it counted,
and pruning at any time. Two replicas, two requests under way; two limits with windows of
different lengths.

**ApiReads, LiveList.** `cached`, `list` are the Redis entry, `read[r]` a resolver
call that may still hold an older list; a cursor is a sequence. `PagesFit`, for a
reader whose cursors were found: pages fall from one to the next, without a repeated ledger, and leave out none
that all its lists had, down to the last cursor. For the browser, where an answer may be cut from
any earlier table: no ledger twice, in order unless an answer brought one
below those shown, and what is left out is newer than all that is shown, unless it came
late or lies below an answer that met nothing shown, as after more than a page at once. Two readers on four ledgers with pages of one; a list
of four with pages of two.

**ApiServer.** `starting` is the await `start()` is at, `stop[s]` the `stop()` of a
signal. `connect()` keeps a client (connection.ts:120), so the `pool.end()` of the first stop never
resolves and has no answer in the model. `PollsOnlyOvertaken`: the publisher polls after a
signal only if `start()` was awaiting the admin server or the seed.
`ProcessesEnd`, second half: a second signal ends the process (pg refuses to end a pool twice, and
the handler exits with 1), and the first one does while Apollo has not started. Three
signals: both of the operating system and the one Apollo may send.

## 9. Where the code disagrees with its documents

Each of these runs ends in a counterexample; `PROJECT.json` "findings" quotes
the sentence and the line.

| Configuration | Shows |
|---|---|
| `BackfillCancelled.cfg` | the final status replaces the cancelled mark of the same run |
| `BackfillRerun.cfg` | running a failed job again completes it without its failed ledgers |
| `BackfillSkip.cfg` | a full run skips ledgers that hold one account's records |
| `CircuitBreakerOneProbe.cfg` | a half-open circuit admits several calls at once |
| `RetryQueueStarted.cfg` | a retry that throws in the first pass leaves a started job without timer |

Read in the code while modelling, modelled as it is unless noted, and not kept as runs of
their own:

- *Backfill and recovery.* `resumeFrom` is the last failed ledger (backfill.ts:415)
  where indexer/BACKFILL.md:76 says the first; a signal leaves part of a batch untried
  (backfill.ts:104) where BACKFILL.md:84 lets the batch complete; an entry whose log
  line cannot be written stays in the state file with its attempts used
  (DeadLetterQueue.ts:118); a pass goes on after `stop()` (RecoveryJob.ts:27). A state file that
  cannot be read or parsed is passed over and the next write replaces it (DeadLetterQueue.ts:238),
  so its failures are forgotten, by intent of the comment and of
  `DeadLetterQueue.reload.test.ts:70`, against the promise of #434 and #435 that an accepted one is not.
  `--concurrency=0` (backfill.ts:450) runs a pool without workers: each batch is passed
  without a result, and the checkpoint says completed over ledgers nobody tried. Not
  modelled: Horizon answers at most 200 records and no second page is asked for (backfill.ts:146).
- *Runtime indexer.* A client whose SELECT 1 fails is never released (index.ts:82); a rejected
  shutdown alert leaves the process without exit, `isShuttingDown` set; a request
  that waits for a client of an ended pool is never answered; `main` arms its
  timer after a shutdown that came during the first cycle; a late alert sets the cooldown again after
  a success. An alert call that resolves with nothing
  delivered starts the cooldown as a delivered one does (index.ts:93). No handler of a pong sets a client
  alive, so the second ping ends every connection (websocket.ts:131), where
  indexer/tests/websocket.test.ts:42 expects one that
  answers to stay (with a pong handler that the test adds itself).
- *Publisher.* Rows stored below the mark are never published
  (realtime-publisher.ts:90); a stop during the seed is overtaken by the timer
  (realtime-publisher.ts:31); the transaction feed throws at its first row (realtime-publisher.ts:183).
- *API.* One signal never ends a running server; a signal during `start()` leaves the
  publisher's timer armed; the socket server looks for the address where graphql-ws does not put it, so
  all clients share one limit; `hasPreviousPage` compares the total with the page; a cursor that is not
  in the list starts from the top, and an empty page can promise another;
  `invalidateByTags` joins keys with `|`, which is no pattern of Redis
  (nobody calls it). In api/, a failed connect is scheduled
  twice and events are then delivered twice (pg-listener.ts:73), a stop during a connect leaves a
  listener behind, and index.ts calls `.catch` on a handle that is no promise.
- *Legacy indexer.* A ledger whose `shouldSkip` rejects is neither stored nor queued, since it stands
  before the `try` (indexer-service.ts:498). `failedCount` and `this.endSequence` are not defined, so a failed batch
  ends in another error; a batch dropped by an open circuit counts as processed; the
  transaction's mark is written on another connection and survives a rollback; the stream's
  position can move back; `markProcessed` is called with an older signature, which files
  the ledger's mark under its counts; the upsert of a mark names `attempts` ambiguously; UPDATE_LATEST leaves the stored
  checksum as it is; `connect()` leaks a client, so `pool.end()` never resolves;
  a checkpoint says completed when the sum of positions and counts reaches the end, not when every ledger was
  processed.
- *Gap detection.* The records are counted without DISTINCT, so repeated sequences
  hide a hole of that scan; a lag of one ledger is ignored; a gap counts as recovered when
  the callback returns, whatever it stored. The lag scan and all of indexer/src/gap-detector.ts are called by nobody.
- *Migrations.* The runner refuses a database without a version, which only a migration creates; it refuses a major
  upgrade; an older release records its version again, over a newer one; a failed verification
  is logged only; a run with a count records the full version.
- *Pool.* A client that comes after its timeout is never released; a timeout is
  not retried although other errors are; the `end()` that a
  drain's timeout calls is refused and `isShuttingDown` stays set; a recycle after that, or during a
  shutdown, opens a new pool beside one that may be busy (database.ts:600, 650), and the
  timeout of the old drain then ends the new pool (617); health checks have no
  timeout. The class is used by nobody.
- *Frontend.* `pageInfo` is that of the last answer while the edges are merged ones, so the
  next page overlaps; the "load more" of RecentTransactions.tsx goes through the same
  merge, which puts older edges on top.

## 10. Proofs

All statements hold for every value of the constants under the named
assumptions of the modules, or those the theorem itself names: a range that is
not empty, positive batch sizes (the pool of a backfill may be empty), positive thresholds, attempts and retries, a positive `LIMIT`, windows of at least a tick, a first
release, finite sets of callers, natural bounds.

| Theorem | Says | Rests on |
|---|---|---|
| `BackfillProofs!TypeCorrect` | `Spec => []TypeOK` | inductive with the ranges of `nextSeq` and `batchStart` |
| `BackfillProofs!CheckpointClean` | `[]CleanCheckpoint` | `CleanInv`: the same of the running tally, and a fulfilled result means a stored ledger |
| `BackfillProofs!TallyBounded` | `[]TallyWithinPosition` | `TallyInv`: a pooled run has its row; `BatchSum`: three disjoint sets of a batch count at most its length |
| `BackfillProofs!LedgerTakenOnce` | `[]NoLedgerTwice` | `PoolInv`: numbers at or above `nextSeq` have no result, workers hold numbers below it |
| `BackfillProofs!NoHolesWithoutAbort` | `[]OnlyAbortLeavesHoles`, for any sizes of pools, zero among them | `HoleInv`: without a signal, handed out means in work or settled, and worker 1, if the run has one, stays to the end; an empty pool hands nothing out |
| `BackfillProofs!NeverRewinds` | `ResumedRunNeverRewinds` | `RewindInv`: the row is behind the position a resumed run has reached |
| `BackfillProofs!ImplementsJob` | `Spec => Job!Spec` | `CleanInv` and `StatusInv`: a row in work is in progress, a completed one ends at `End` |
| `CircuitBreakerProofs!TypeCorrect`, `NeverStuck`, `OpensOnlyOnStreak`, `ClosesOnlyOnSuccesses` | the four safety properties of the run | `BreakerInv`: the counts are covered by the history of outcomes |
| `RetryQueueProofs!TypeCorrect`, `NoFailureForgotten`, `AttemptsNeverTakenBack` | types, `NothingForgotten`, `AttemptsSurvive` | `QueueInv`: for an owed failure that no failed load left `unread` memory counts at least the attempts in the state file; an entry being saved is in memory |
| `RealtimePublisherProofs!TypeCorrect`, `NoLedgerPassedOver` | types, `[]NothingPassedOver` | `FeedInv`: marks and starting points are stored ledgers with all before them sent, and an answer continues its starting point without a gap (`FirstRowsClosed`) |
| `RealtimePublisherProofs!SentOnceInTurn` | `[]TwiceOnlyByOverlap` | `TurnInv`: while polls take turns the mark is the last ledger sent |
| `IdempotencyTrackerProofs!TrackerTypeCorrect`, `WorkRunsOnceHolds` | types, `[]WorkRunsOnce` | `IInv`: a storing call has one key, the lock excludes others from select to COMMIT, and a key without a row has not run |
| `IdempotencyTrackerProofs!StaleOnlyByOverlapHolds` | `[]StaleOnlyByOverlap` | `Sure`: a call about to cache its keys has seen their rows, or the deletion noted the call |
| `PackageProofs!PackageTypesCorrect` | `[]TypesOK` of the five parts | `IndexerInv`: rows, requests and the position of a backfill stay on the chain, a batch ends in its range; and the invariants below |
| `PackageProofs!LossesExplained` | `[]LossExplained` | `LossInv`: one open transaction a ledger, a mark is explained by its row, a note or the task that still holds it, a task that skips its transaction knows why |
| `PackageProofs!FailedStaysQueued` | `[]FailedIsQueued`: stored or queued, but for calls that threw before their `try` and entries a start did not find | inductive itself |
| `PackageProofs!HolesAreFound` | `[]HolesFound` | `GapInv`: the scan of the table starts at a row; `WalkCovers`: between the greatest number seen below a hole and the least one above it there is a gap; `FullRange`: a full count is a full range |
| `PackageProofs!EveryGapIsTried` | `[]EveryGapTried` | `RecoverInv`: tried and still to come are together what the scans named; `MergeIs`: the merge covers that and no ledger twice (below) |
| `PackageProofs!SchemaStaysFit` | `[]SchemaFits` | `SchemaInv`: whoever passed the check shares the major version of what is applied, now and after any migration of another, and the recorded version does too; `RecordedType`: a version written again stays unique |
| `PackageProofs!SlidingBudgetHolds` | `[]SlidingBudget` | `LimiterInv`: the counts grow with the age, and each sleeping caller has a request of the very age that holds it up |
| `ServicesProofs!ServiceTypesCorrect` | `[]TypesOK` of the nine parts | the invariants below |
| `ServicesProofs!SilenceIsExplained` | `[]SilenceExplained` | `RuntimeInv`: clients out are the leaked ones and those of checks being connected or in SELECT 1; the cooldown is no younger than the last alert whose call resolved |
| `ServicesProofs!ClientsAreAccounted` | `[]ClientsAccounted` | `PoolInv`: the accounts of every generation, a pool that is over has nothing out, and one that was replaced is over or abandoned |
| `ServicesProofs!EventsAreHeard` | `[]EveryEventHeard` | `EventInv`: who waits has an empty queue, a connection's notifications come in the order sent, and publications and connections with the event on its way are together no more than the connections |
| `ServicesProofs!BudgetsHold` | `[]BudgetHolds` | `Within`: what was let through since a window began is at most its count and its limit, and what was let through before it is at most one limit; the same for stores, limits and sockets |
| `ServicesProofs!PagesFitTogether` | `[]PagesFit` | `ReadInv`: all that the lists shared down to the cursor is on a page, `NewestAbove`: a cut page has all that is above its last row; `ListInv`: `PageAbove`, the same of the browser's pages |
| `ServicesProofs!PollsAreOvertaken` | `[]PollsOnlyOvertaken` | `ServerInv`: where `start()` is tells which timers are armed and how Apollo stands |

How they are built. A composition has one inductive invariant, the conjunction
of those of its parts (`PackageInv`, `ServicesInv`). `EachPartSteps` says that a step of the composition
is a step of one part or leaves it alone, so `PackageStep` and `ServicesStep` follow from a lemma
for each part, which goes through the part's actions one by one. An invariant of a part is proved
in every state, also of a part that was not chosen: the properties' `part = ...` hides nothing.

`EveryGapIsTried` is the deepest of them, since the merge is a sort and a
loop. The modules define the loop as a recursive function, and the prover
has no induction scheme, so `CountingLemmas` derives what is needed
from well-founded orders on numbers: `LeastExists`, a non-empty set of counts has a
least element; `CountingUp`, a fact that holds at 0 and is passed from each count to the next holds up to a
bound, since a least counterexample would have a predecessor; `RecursionExists`, the function that a
definition by recursion chooses exists. Then

1. `PlacesExist`, `SortedIs`: a finite set of gaps has a sorted arrangement. The place
   of a gap is the number of gaps before it, and distinct gaps have distinct places.
2. `JoinType`, `JoinKeeps`: one turn of the loop keeps the ledgers covered, the
   merged gaps separate, and the last start no higher than the next gap's.
3. `MergingIs`, `MergedIs`: so does the whole loop, by `CountingUp`.
4. `CountingIs`, `CountedOnce`: the running total of separate gaps is the cardinality of what they cover.
5. `MergeIs` puts these together; `RestSpanned` takes the gaps off one at a time for the recovery.

`SentOnceInTurn` and the limits show why the models keep the history they do: counts of
every stretch, and not sums over a record of requests, make a window's budget a
comparison of two entries (`WindowCounts`, `WindowAges`, `WindowBudget`).

Every safety property of a passing run is a theorem, each action property and the refinement
of `CheckpointedJob` among them. Only model-checked are the liveness properties (`RunTerminates`, `Recovers`,
`EveryLedgerRetried`, `EveryLedgerPublished`, `ProcessesEnd`,
`AcquireSettles`, `ListensAgain`), since the prover reasons neither about
fairness nor about `ENABLED`. The five runs that end in a violation are refutations, and TLC's traces stand
for themselves. The properties were checked with TLC before they were proved; where a
first formulation could not be reasoned about, the model was changed to one that
says the same in a form that can be (`Merging` and `Counting` as recursive functions, `RemoveFirst` for
the row a version replaces, the limiter's requests as counts by age).

## 11. What is not modelled

- Contents of ledgers: a transaction's fields, amounts, formatting, SQL text,
  log lines and progress output. Horizon's page limit belongs here.
- The transaction feed of the publisher: the `signatures` column is JSONB, which
  pg has already parsed, so `JSON.parse` of it throws at the first row of every
  poll and the feed never changes any state.
- The Horizon health check and the error-rate alert of the runtime indexer
  follow the database check line by line; the transformer is a pure mapping.
- `packages/indexer` does not build against its own tree (it imports
  `error-recovery/DeadLetterQueue`, which is only in `indexer/`); `LegacyIndexer`
  takes that queue as a set, from how the service uses it. Its metrics, lag
  figures and statistics are queries.
- `retention-service.ts` is started by nobody, and the columns and archive tables it names are in
  no migration, so no state of the database is one it can run in.
  `IngestionProgressTracker`, `cachedQueryWithRefresh`, cache tags, `useDashboardView.ts` are
  used by nobody; `useDashboardLayout.ts` declares three names twice and does not compile.
- Alert thresholds (`performance-alerting.ts`, `AlertService.ts`): comparisons and
  messages, decided and sent without an await between the two.
- Resolvers other than the list of ledgers, among them the whole of `analytics.ts`: one SQL
  statement each, whose meaning is PostgreSQL's. Type definitions, loaders (one request
  each), validation, the admin resolvers.
- The frontends apart from the polled list: rendering.
- Configuration, logging, metrics, mock Horizon, lag monitor, shared constants, tooling, tests.

About a tenth of the implementation's lines are mapped. What remains is
rendering, single statements of SQL, type definitions, output and tooling, where
a model would restate the code without a behaviour to explore.

## 12. What could come next

- An abstract ordered feed that both `RealtimePublisher` and `LedgerEvents` refine
  with the exceptions their properties name.
- The transaction feed of `packages/api` and the cached statistics queries, should either come into use.
- The backfill of `LegacyIndexer` against `CheckpointedJob`: it does not
  implement it, since a dropped batch moves its position.

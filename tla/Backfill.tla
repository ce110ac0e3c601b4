------------------------------ MODULE Backfill ------------------------------
(***************************************************************************)
(* The backfill job of the runtime indexer: runBackfill and its worker     *)
(* pool (indexer/src/backfill.ts), the backfill_checkpoints row it keeps   *)
(* (indexer/src/checkpoint.ts), the ledger write it ends in                *)
(* (indexer/src/loader.ts) and the command line process around it          *)
(* (indexer/src/backfill-cli.ts).                                          *)
(*                                                                         *)
(* One job, that is one value of --start and --end, is run again and again *)
(* by an operator.  Each run may be a full run, a run filtered to one      *)
(* account (--account) or a dry run (no DATABASE_URL); it may receive      *)
(* SIGINT, and it may die at any moment.  The live indexer writes ledgers  *)
(* of the same range concurrently.                                         *)
(*                                                                         *)
(* Every await of the code is a point where another actor may step, so a   *)
(* step here is the code between two awaits.                               *)
(***************************************************************************)
EXTENDS Integers, FiniteSets

CONSTANTS
    Start, End,        \* the job's range, startSequence..endSequence
    Concurrencies,     \* config.backfillConcurrency of a run; 0 for an empty pool
    BatchSize,         \* config.backfillBatchSize
    MaxRuns            \* bound: how often the operator starts the job

\* config.ts checks that both settings are positive, but --concurrency of the
\* command line replaces the first unchecked: zero, a negative number and NaN
\* all make a pool without workers, and are 0 here.  runBackfill rejects an
\* empty range before it touches the checkpoint.
ASSUME RangeAssumption == Start \in Nat \ {0} /\ End \in Nat /\ Start <= End
ASSUME PoolAssumption == Concurrencies \subseteq Nat /\ BatchSize \in Nat \ {0}
ASSUME BoundAssumption == MaxRuns \in Nat

Ledgers == Start..End
Workers == UNION {1..c : c \in Concurrencies}
Modes == {"full", "account", "dryRun"}

NoSeq == 0     \* null where the code holds a sequence number or null
NoResult == [returned |-> FALSE, resumeFrom |-> NoSeq]

VARIABLES
    \* PostgreSQL: what is stored of each ledger, and the job's checkpoint row
    ledgers,       \* absent, filtered (one account's transactions) or whole
    checkpoint,
    \* the process: runBackfill's local state
    main,          \* where runBackfill is
    mode, concurrency, aborted, resumeFrom,
    batchStart,    \* first sequence number of the current or next batch
    tally,         \* processed, skipped, failed
    lastFailed,    \* lastFailedSequence
    \* the process: runWithConcurrency
    nextSeq,       \* the sequence number behind nextIndex
    worker,
    results,       \* settled results of the run; none is a hole in the array
    \* what main() sees of the run that returned last
    result,
    \* history
    runs,          \* runs started, for the bound
    dropped        \* ledgers a run moved past without handing them to a worker

dbVars == <<ledgers, checkpoint>>
runVars == <<mode, concurrency, aborted, resumeFrom>>
poolVars == <<nextSeq, worker, results>>
vars == <<ledgers, checkpoint, main, mode, concurrency, aborted, resumeFrom,
          batchStart, tally, lastFailed, nextSeq, worker, results, result, runs, dropped>>

-----------------------------------------------------------------------------

BatchEnd == IF batchStart + BatchSize - 1 < End
            THEN batchStart + BatchSize - 1 ELSE End
Batch == batchStart..BatchEnd

Off == [pc |-> "off", seq |-> NoSeq]
Ready == [pc |-> "ready", seq |-> NoSeq]
Busy == {"check", "fetch", "write"}

Pooled == mode # "dryRun"
Zero == [processed |-> 0, skipped |-> 0, failed |-> 0]
NoRow == [status |-> "none", last |-> NoSeq, tally |-> Zero]
Marked(status, last) == [status |-> status, last |-> last, tally |-> tally]

Settled(outcome, S) == {s \in S : results[s] = outcome}

\* What a committed write of one ledger leaves behind.  Every insert is
\* ON CONFLICT DO NOTHING, so a write adds rows and never takes one away.
Written(row, m) == IF m = "account" /\ row # "whole" THEN "filtered" ELSE "whole"

-----------------------------------------------------------------------------

Init ==
    /\ ledgers = [s \in Ledgers |-> "absent"]
    /\ checkpoint = NoRow
    /\ main = "stopped" /\ mode = "full" /\ concurrency \in Concurrencies
    /\ aborted = FALSE
    /\ resumeFrom = Start /\ batchStart = Start
    /\ tally = Zero /\ lastFailed = NoSeq
    /\ nextSeq = Start
    /\ worker = [w \in Workers |-> Off]
    /\ results = [s \in Ledgers |-> "none"]
    /\ result = NoResult
    /\ runs = 0 /\ dropped = {}

\* The operator runs the command line tool.
StartRun(m, c) ==
    /\ main = "stopped" /\ runs < MaxRuns
    /\ runs' = runs + 1
    /\ mode' = m /\ concurrency' = c /\ aborted' = FALSE
    /\ resumeFrom' = Start /\ batchStart' = Start
    /\ tally' = Zero /\ lastFailed' = NoSeq
    /\ results' = [s \in Ledgers |-> "none"]
    /\ result' = NoResult
    /\ main' = IF m = "dryRun" THEN "loop" ELSE "load"
    /\ UNCHANGED <<ledgers, checkpoint, nextSeq, worker, dropped>>

\* Mutants: the last checkpointed ledger is taken up again; the counts of the
\* earlier runs are not restored.
ResumeAtLast == checkpoint.last
ResumeWithoutCounts == Zero

ResumePoint == checkpoint.last + 1
ResumeTally == checkpoint.tally

\* loadCheckpoint, and the decision to resume
LoadCheckpoint ==
    /\ main = "load"
    /\ IF checkpoint.status = "in_progress" /\ checkpoint.last # NoSeq
       THEN /\ resumeFrom' = ResumePoint
            /\ batchStart' = ResumePoint
            /\ tally' = ResumeTally
            /\ main' = "loop"
       ELSE /\ main' = "create"
            /\ UNCHANGED <<resumeFrom, batchStart, tally>>
    /\ UNCHANGED <<dbVars, mode, concurrency, aborted, lastFailed, poolVars, result, runs, dropped>>

\* Mutant: the upsert resets the counts too, but not the position.
UpsertResetsCounts == [checkpoint EXCEPT !.status = "in_progress", !.tally = Zero]

\* The upsert resets the status of a row that exists; it keeps its position
\* and its counts.
Upsert == [checkpoint EXCEPT !.status = "in_progress"]

CreateCheckpoint ==
    /\ main = "create"
    /\ checkpoint' = Upsert
    /\ main' = "loop"
    /\ UNCHANGED <<ledgers, runVars, batchStart, tally, lastFailed, poolVars,
                   result, runs, dropped>>

-----------------------------------------------------------------------------
(* The batch loop *)

BeginBatch ==
    /\ main = "loop" /\ batchStart <= End /\ ~aborted
    /\ main' = "pool"
    /\ nextSeq' = batchStart
    /\ worker' = [w \in Workers |-> IF w <= concurrency /\ w <= Cardinality(Batch)
                                    THEN Ready ELSE Off]
    /\ UNCHANGED <<dbVars, runVars, batchStart, tally, lastFailed, results,
                   result, runs, dropped>>

\* Mutant: before the first batch the position is that of a fresh run, not
\* of the resumed one.
CancelAtStart == IF batchStart > resumeFrom THEN batchStart - 1 ELSE Start - 1

CancelPosition == batchStart - 1

\* The signal is seen at the top of the loop: markCheckpointCancelled, break
CancelAtBatch ==
    /\ main = "loop" /\ batchStart <= End /\ aborted
    /\ checkpoint' = IF Pooled THEN Marked("cancelled", CancelPosition) ELSE checkpoint
    /\ dropped' = IF Pooled THEN dropped \union batchStart..End ELSE dropped
    /\ main' = "finish"
    /\ UNCHANGED <<ledgers, runVars, batchStart, tally, lastFailed, poolVars,
                   result, runs>>

\* Promise.all resolved: results.forEach, which skips the holes
TallyBatch ==
    /\ main = "pool" /\ \A w \in Workers : worker[w].pc = "off"
    /\ tally' = [processed |-> tally.processed + Cardinality(Settled("processed", Batch)),
                 skipped |-> tally.skipped + Cardinality(Settled("skipped", Batch)),
                 failed |-> tally.failed + Cardinality(Settled("failed", Batch))]
    /\ LET failures == Settled("failed", Batch) IN
         \/ failures = {} /\ UNCHANGED lastFailed
         \/ lastFailed' \in failures /\ \A s \in failures : s <= lastFailed'
    /\ dropped' = IF Pooled THEN dropped \union Settled("none", Batch) ELSE dropped
    /\ main' = "save"
    /\ UNCHANGED <<dbVars, runVars, batchStart, poolVars, result, runs>>

\* saveCheckpoint, then the delay before the next batch
SaveCheckpoint ==
    /\ main = "save"
    /\ checkpoint' = IF Pooled THEN Marked(checkpoint.status, BatchEnd) ELSE checkpoint
    /\ batchStart' = BatchEnd + 1
    /\ main' = "loop"
    /\ UNCHANGED <<ledgers, runVars, tally, lastFailed, poolVars, result, runs, dropped>>

\* After the loop: mark the final status, return, exit.  A run that broke out
\* of the loop comes through here too.
FinishRun ==
    /\ main = "finish" \/ (main = "loop" /\ batchStart > End)
    /\ checkpoint' = IF ~Pooled THEN checkpoint
                     ELSE IF lastFailed # NoSeq THEN Marked("failed", End)
                     ELSE Marked("completed", End)
    /\ result' = [returned |-> TRUE, resumeFrom |-> lastFailed]
    /\ main' = "stopped"
    /\ UNCHANGED <<ledgers, runVars, batchStart, tally, lastFailed, poolVars, runs, dropped>>

-----------------------------------------------------------------------------
(* A worker of the pool, inside processOneLedger between its awaits *)

workerUnchanged == <<main, runVars, checkpoint, batchStart, tally, lastFailed,
                     result, runs, dropped>>

Goto(w, pc) == worker' = [worker EXCEPT ![w].pc = pc]

Settle(w, outcome) ==
    /\ results' = [results EXCEPT ![worker[w].seq] = outcome]
    /\ worker' = [worker EXCEPT ![w] = Ready]

\* Mutants: the shared index is advanced only later; a worker leaves one task
\* too early; a worker does not leave on a signal.
NotAdvanced == nextSeq
LeavesEarly == nextSeq >= BatchEnd \/ aborted
LeavesDeaf == nextSeq > BatchEnd

Advanced == nextSeq + 1
Leaves == nextSeq > BatchEnd \/ aborted

\* Mutant: the loop of a worker runs one task too far.
TakeOneMore(w) ==
    /\ worker[w].pc = "ready" /\ nextSeq <= BatchEnd + 1 /\ ~aborted
    /\ worker' = [worker EXCEPT ![w] = [pc |-> "check", seq |-> nextSeq]]
    /\ nextSeq' = Advanced
    /\ UNCHANGED <<ledgers, results, workerUnchanged>>

TakeNext(w) ==
    /\ worker[w].pc = "ready" /\ nextSeq <= BatchEnd /\ ~aborted
    /\ worker' = [worker EXCEPT ![w] = [pc |-> "check", seq |-> nextSeq]]
    /\ nextSeq' = Advanced
    /\ UNCHANGED <<ledgers, results, workerUnchanged>>

LeavePool(w) ==
    /\ worker[w].pc = "ready" /\ Leaves
    /\ worker' = [worker EXCEPT ![w] = Off]
    /\ UNCHANGED <<ledgers, nextSeq, results, workerUnchanged>>

\* isLedgerIndexed looks at the ledgers row alone ...
SkipIndexed(w) ==
    /\ worker[w].pc = "check"
    /\ mode = "full" /\ ledgers[worker[w].seq] # "absent"
    /\ Settle(w, "skipped")
    /\ UNCHANGED <<ledgers, nextSeq, workerUnchanged>>

\* ... and answers false when the row is missing, for an account or without a
\* pool, and also when the query fails.
NotIndexed(w) ==
    /\ worker[w].pc = "check"
    /\ Goto(w, "fetch")
    /\ UNCHANGED <<ledgers, nextSeq, results, workerUnchanged>>

Fetched(w) ==
    /\ worker[w].pc = "fetch"
    /\ Goto(w, "write")
    /\ UNCHANGED <<ledgers, nextSeq, results, workerUnchanged>>

\* writeIngestedData: the ledger and its records in one transaction
Commit(w) ==
    /\ worker[w].pc = "write"
    /\ ledgers' = IF Pooled
                  THEN [ledgers EXCEPT ![worker[w].seq] = Written(@, mode)]
                  ELSE ledgers
    /\ Settle(w, "processed")
    /\ UNCHANGED <<nextSeq, workerUnchanged>>

\* The fetch or the transaction fails; the transaction is rolled back.
Fail(w) ==
    /\ worker[w].pc = "fetch" \/ (worker[w].pc = "write" /\ Pooled)
    /\ Settle(w, "failed")
    /\ UNCHANGED <<ledgers, nextSeq, workerUnchanged>>

\* The commit is applied but its reply is lost: ROLLBACK throws as well.
CommitUnheard(w) ==
    /\ worker[w].pc = "write" /\ Pooled
    /\ ledgers' = [ledgers EXCEPT ![worker[w].seq] = Written(@, mode)]
    /\ Settle(w, "failed")
    /\ UNCHANGED <<nextSeq, workerUnchanged>>

WorkerStep(w) ==
    \/ TakeNext(w) \/ LeavePool(w)
    \/ SkipIndexed(w) \/ NotIndexed(w)
    \/ Fetched(w) \/ Commit(w) \/ Fail(w) \/ CommitUnheard(w)

-----------------------------------------------------------------------------
(* Around the run *)

\* SIGINT or SIGTERM
Abort ==
    /\ main # "stopped" /\ ~aborted
    /\ aborted' = TRUE
    /\ UNCHANGED <<dbVars, main, mode, concurrency, resumeFrom, batchStart, tally, lastFailed,
                   poolVars, result, runs, dropped>>

\* The process is killed, or a checkpoint query throws and main() exits with
\* 1.  Transactions not yet committed are rolled back by the server.
Die ==
    /\ main # "stopped"
    /\ main' = "stopped"
    /\ worker' = [w \in Workers |-> Off]
    /\ UNCHANGED <<dbVars, runVars, batchStart, tally, lastFailed, nextSeq,
                   results, result, runs, dropped>>

\* The live indexer stores a ledger of the range through the same loader.
LiveIndex(s) ==
    /\ ledgers[s] # "whole"
    /\ ledgers' = [ledgers EXCEPT ![s] = "whole"]
    /\ UNCHANGED <<checkpoint, main, runVars, batchStart, tally, lastFailed,
                   poolVars, result, runs, dropped>>

\* The operator has run the job MaxRuns times.
Rest == main = "stopped" /\ runs = MaxRuns /\ UNCHANGED vars

MainStep ==
    \/ LoadCheckpoint \/ CreateCheckpoint
    \/ BeginBatch \/ CancelAtBatch \/ TallyBatch \/ SaveCheckpoint \/ FinishRun

Next ==
    \/ \E m \in Modes, c \in Concurrencies : StartRun(m, c)
    \/ MainStep
    \/ \E w \in Workers : WorkerStep(w)
    \/ Abort \/ Die
    \/ \E s \in Ledgers : LiveIndex(s)
    \/ Rest

\* Every await of the process is answered, by PostgreSQL, by Horizon or by a
\* timer, and the event loop runs every ready continuation.
Fairness == WF_vars(MainStep) /\ \A w \in Workers : WF_vars(WorkerStep(w))

Spec == Init /\ [][Next]_vars /\ Fairness
-----------------------------------------------------------------------------
(* Properties *)

Positions == Ledgers \union {NoSeq}
Tallies == [processed : Nat, skipped : Nat, failed : Nat]

\* Type correctness of the database rows and of the process's local state.
TypeOK ==
    /\ ledgers \in [Ledgers -> {"absent", "filtered", "whole"}]
    /\ checkpoint \in [status : {"none", "in_progress", "cancelled", "failed", "completed"},
                       last : Positions \union {Start - 1}, tally : Tallies]
    /\ main \in {"stopped", "load", "create", "loop", "pool", "save", "finish"}
    /\ mode \in Modes /\ concurrency \in Concurrencies /\ aborted \in BOOLEAN
    /\ resumeFrom \in Start..End + 1 /\ batchStart \in Start..End + 1
    /\ tally \in Tallies /\ lastFailed \in Positions
    /\ nextSeq \in Start..End + 1
    /\ worker \in [Workers -> [pc : {"off", "ready"} \union Busy, seq : Positions]]
    /\ \A w \in Workers : worker[w].pc \in Busy => worker[w].seq \in Ledgers
    /\ results \in [Ledgers -> {"none", "processed", "skipped", "failed"}]
    /\ result \in [returned : BOOLEAN, resumeFrom : Positions]
    /\ runs \in 0..MaxRuns /\ dropped \in SUBSET Ledgers

Stored(s) == ledgers[s] # "absent"
Accounted(s) == Stored(s) \/ s \in dropped
TallySum(t) == t.processed + t.skipped + t.failed

\* A checkpoint that reports no failed ledger stands behind no missing one:
\* every ledger up to last_processed_sequence is in the ledgers table, apart
\* from those a cancelled run, or one without workers, moved past.  Whatever
\* happened before: crashes, failed writes, resumed runs, runs started over.
CleanCheckpoint ==
    checkpoint.tally.failed = 0 =>
        \A s \in Start..checkpoint.last : Accounted(s)

\* The sequence number the tally of a run has reached
Reached == IF main = "save" THEN BatchEnd + 1 ELSE batchStart
InRun == main \in {"loop", "pool", "save", "finish"}

\* processed + skipped + failed never runs ahead of the position, in the
\* process or in the checkpoint row, so no resumed run reports more than
\* 100 percent (backfill.ts:349-354).
TallyWithinPosition ==
    /\ InRun => TallySum(tally) <= Reached - Start
    /\ checkpoint.status # "none" =>
         TallySum(checkpoint.tally) <=
           (IF checkpoint.last = NoSeq THEN 0 ELSE checkpoint.last - Start + 1)

\* No ledger is in the hands of two workers, and none is taken up again once
\* its result is in.
NoLedgerTwice ==
    \A v, w \in Workers : worker[w].pc \in Busy =>
        /\ results[worker[w].seq] = "none"
        /\ worker[v].pc \in Busy /\ v # w => worker[v].seq # worker[w].seq

\* A batch that was not interrupted has a result for every ledger, so long as
\* the run has a worker at all: the pool never ends with a task nobody took or
\* nobody finished.  A run started with --concurrency=0 (backfill.ts:450) is
\* the exception: no ledger of its batches has a result.
OnlyAbortLeavesHoles ==
    main = "save" =>
        /\ ~aborted /\ concurrency > 0 => Settled("none", Batch) = {}
        /\ concurrency = 0 => Settled("none", Batch) = Batch

\* A run that resumed from a checkpoint never moves the stored position back.
ResumedRunNeverRewinds ==
    [][resumeFrom > Start /\ InRun => checkpoint'.last >= checkpoint.last]_vars

\* Every run ends, also when SIGINT makes the workers leave their pool early.
RunTerminates == main # "stopped" ~> main = "stopped"

\* The promise of the checkpoint, as a specification of its own.
Job == INSTANCE CheckpointedJob WITH
    stored <- {s \in Ledgers : Stored(s)},
    givenUp <- dropped,
    position <- IF checkpoint.last = NoSeq THEN Start - 1 ELSE checkpoint.last,
    clean <- checkpoint.tally.failed = 0,
    finished <- checkpoint.status = "completed"

\* The job refines it.
RefinesJob == Job!Spec

-----------------------------------------------------------------------------
(* Inductive invariants behind the properties above *)

Fresh == main \in {"load", "create"}

\* CleanCheckpoint needs the same of the running process: a tally without
\* failures stands behind the ledgers it has passed, and a fulfilled result
\* means a stored ledger.
CleanInv ==
    /\ CleanCheckpoint
    /\ Pooled /\ InRun /\ tally.failed = 0 =>
         \A s \in Start..Reached - 1 : Accounted(s)
    /\ Pooled => \A s \in Ledgers :
         results[s] \in {"processed", "skipped"} => Stored(s)
    /\ Pooled /\ main = "finish" => batchStart..End \subseteq dropped
    /\ Fresh => batchStart = Start

\* TallyWithinPosition, and what is known where it is vacuous.
TallyInv ==
    /\ TallyWithinPosition
    /\ checkpoint.status = "none" => checkpoint = NoRow
    /\ Pooled /\ InRun => checkpoint.status # "none"
    /\ Fresh => batchStart = Start /\ tally = Zero

\* ResumedRunNeverRewinds: the row is never ahead of a resumed run.
RewindInv ==
    /\ InRun /\ resumeFrom > Start => checkpoint.last < Reached
    /\ Fresh => resumeFrom = Start

\* The refinement: while a run works the row is in progress, so the mark of a
\* finished job is never carried along to an earlier position.
StatusInv ==
    /\ checkpoint.status = "completed" => checkpoint.last = End
    /\ Pooled /\ main \in {"loop", "pool", "save"} => checkpoint.status = "in_progress"

\* Sequence numbers the pool has not handed out yet have no result, the ones
\* it has handed out are with a worker or have one.
PoolInv ==
    /\ main \in {"pool", "save"} => batchStart <= End
    /\ main = "pool" => nextSeq \in batchStart..BatchEnd + 1
    /\ Fresh => batchStart = Start
    /\ Fresh \/ main = "loop" => \A s \in batchStart..End : results[s] = "none"
    /\ main = "pool" => \A s \in nextSeq..End : results[s] = "none"
    /\ main = "save" => \A s \in BatchEnd + 1..End : results[s] = "none"
    /\ \A w \in Workers :
         /\ worker[w].pc # "off" => main = "pool"
         /\ worker[w].pc \in Busy => worker[w].seq \in batchStart..nextSeq - 1
    /\ NoLedgerTwice

\* As long as there is no signal, handed out means in work or settled, and the
\* first worker, if there is one, stays until the batch is handed out.
HoleInv ==
    /\ OnlyAbortLeavesHoles
    /\ main = "pool" /\ concurrency = 0 =>
         nextSeq = batchStart /\ \A w \in Workers : worker[w].pc = "off"
    /\ main = "pool" /\ ~aborted /\ concurrency > 0 =>
         /\ \A s \in batchStart..nextSeq - 1 :
              \/ results[s] # "none"
              \/ \E w \in Workers : worker[w].pc \in Busy /\ worker[w].seq = s
         /\ worker[1].pc = "off" => nextSeq > BatchEnd

-----------------------------------------------------------------------------
(* What the documentation says and the code does not do *)

\* checkpoint.ts:222, "Mark the backfill as cancelled (SIGINT / SIGTERM)":
\* the row of a cancelled run says so until the job is started again.
CancelledStaysCancelled ==
    [][checkpoint.status = "cancelled" /\ checkpoint'.status # "cancelled"
         => main = "create"]_vars

\* BACKFILL.md:74: a failed run is resumed by running it again, so a job that
\* nobody cancelled is completed only when all its ledgers are stored.
CompletedMeansStored ==
    checkpoint.status = "completed" /\ dropped = {} => \A s \in Ledgers : Stored(s)

\* backfill.ts:10: a resumed run skips ledgers that are already indexed.
SkipsOnlyIndexed ==
    \A s \in Settled("skipped", Ledgers) : ledgers[s] = "whole"
=============================================================================

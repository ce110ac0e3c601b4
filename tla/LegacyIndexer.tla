--------------------------- MODULE LegacyIndexer ---------------------------
(***************************************************************************)
(* The indexer of packages/indexer: IndexerService with its checkpoints    *)
(* (BackfillCheckpointManager), and the application that starts it and     *)
(* shuts it down.                                                          *)
(*                                                                         *)
(* Ledgers arrive on the stream of Horizon while a backfill, begun at boot *)
(* or asked for over HTTP, fetches and stores batches of older ones; every *)
(* ledger is stored by its own asynchronous task.  A ledger has one        *)
(* transaction here.  Its processed mark is written over a connection of   *)
(* its own while the ledger's transaction is open, so it outlives a        *)
(* rollback.                                                               *)
(***************************************************************************)
EXTENDS Integers, FiniteSets, Sequences, SequencesExt

CONSTANTS
    LastLedger,    \* bound: the chain ends here
    Settled,       \* the backfill keeps this far from the head (10 in the code)
    BatchSize,
    MaxReconnects, \* WEBSOCKET_MAX_RECONNECT_ATTEMPTS
    Requests,      \* the ranges asked for over HTTP
    MaxBoots,      \* bound: starts of the process
    TxCount,       \* the counts the ledger mark is filed under
    OpCount

VARIABLES
    \* Horizon
    head,          \* the newest ledger
    \* PostgreSQL
    ledgers, txs,  \* the rows of both tables
    marks,         \* ledgers whose transaction has a processed mark
    counted,       \* a ledger mark exists, under key TxCount and sequence OpCount
    jobs,          \* backfill_checkpoints by range
    recent,        \* the ranges in the order of updated_at
    \* the process
    boots,         \* starts so far, for the bound
    app,           \* "down", "booting", "up", "ending"
    last,          \* lastProcessedLedger
    inbox,         \* ledgers the stream has yet to deliver
    reconnects, timers, streaming,
    task,          \* processLedger, by origin and ledger
    backfill,      \* the backfill under way
    dlq,           \* the dead letter queue and its log of ledgers given up
    \* history
    failed,        \* a processLedger call threw for these
    unqueued,      \* of them, neither stored nor in dlq: the call threw before
                   \* its try, or the start after it found no entry in the file
    withoutTx      \* a call stored them knowing it left their transaction out,
                   \* or failed after it had written the mark

dbVars == <<ledgers, txs, marks, counted>>
jobVars == <<jobs, recent>>
streamVars == <<inbox, reconnects, timers, streaming>>
historyVars == <<failed, unqueued, withoutTx>>
legacyVars == <<head, dbVars, jobVars, boots, app, last, streamVars, task, backfill, dlq, historyVars>>

-----------------------------------------------------------------------------

Ledgers == 1..LastLedger
Tasks == {"stream", "batch"} \X Ledgers
Ranges == {r \in Ledgers \X Ledgers : r[1] <= r[2]}

NoJob == [status |-> "none", last |-> 0, processed |-> 0]
NoBackfill == [at |-> "off", range |-> <<1, 1>>, old |-> 0, from |-> 1, seq |-> 1,
               processed |-> 0, boot |-> FALSE]

\* A checked-out client is needed and the pool still gives one: after
\* pool.end() every connect is refused.
Connects == app \in {"booting", "up"}

InTransaction == {"fetch", "insert", "bare", "full"}
Storing(s) == \E o \in {"stream", "batch"} : task[<<o, s>>] \in InTransaction

Moves(t, at) == task' = [task EXCEPT ![t] = at]

\* The table keeps one row per range; the one written last is the most recent.
Writes(r, row) ==
    /\ jobs' = [jobs EXCEPT ![r] = row]
    /\ recent' = Append(RemoveFirst(recent, r), r)

\* findResumableJob: the range of the in_progress row updated last, if any
Resumable ==
    LET open == {i \in DOMAIN recent : jobs[recent[i]].status = "in_progress"}
    IN  IF open = {} THEN {} ELSE {recent[Max(open)]}

Init ==
    /\ head = 1
    /\ ledgers = {} /\ txs = {} /\ marks = {} /\ counted = FALSE
    /\ jobs = [r \in Ranges |-> NoJob] /\ recent = <<>>
    /\ boots = 0 /\ app = "down" /\ last = 0
    /\ inbox = {} /\ reconnects = 0 /\ timers = 0 /\ streaming = FALSE
    /\ task = [t \in Tasks |-> "none"] /\ backfill = NoBackfill /\ dlq = {}
    /\ failed = {} /\ unqueued = {} /\ withoutTx = {}

(* Boot: initializeLastProcessedLedger, then the stream, then the backfill *)

StoredMarks == marks \union (IF counted THEN {OpCount} ELSE {})

LastProcessed ==
    IF \E r \in Resumable : jobs[r].last # 0
       THEN Max({jobs[r].last : r \in Resumable})
    ELSE IF StoredMarks # {} THEN Max(StoredMarks)
    ELSE IF ledgers # {} THEN Max(ledgers)
    ELSE head - 1

\* The dead letter queue reads its state file.  Entries are missing from it if
\* a write failed; all of those not given up are, if it cannot be read.
LoadQueue ==
    \E lost \in SUBSET dlq :
        /\ dlq' = dlq \ lost
        /\ unqueued' = unqueued \union (lost \ ledgers)

Boot ==
    /\ app = "down" /\ boots < MaxBoots
    /\ boots' = boots + 1
    /\ app' = "booting"
    /\ last' = LastProcessed
    /\ inbox' = {} /\ reconnects' = 0 /\ timers' = 0 /\ streaming' = TRUE
    /\ backfill' = [NoBackfill EXCEPT !.at = "latest", !.boot = TRUE]
    /\ LoadQueue
    /\ UNCHANGED <<head, dbVars, jobVars, task, failed, withoutTx>>

\* Everything in memory is gone and open transactions are rolled back; the
\* marks written next to them stay.
Dies ==
    /\ app' = "down" /\ last' = 0
    /\ inbox' = {} /\ reconnects' = 0 /\ timers' = 0 /\ streaming' = FALSE
    /\ task' = [t \in Tasks |-> "none"]
    /\ backfill' = NoBackfill
    /\ withoutTx' = withoutTx \union {s \in Ledgers :
                        \E o \in {"stream", "batch"} : task[<<o, s>>] = "full"}

Crash ==
    /\ app # "down"
    /\ Dies
    /\ UNCHANGED <<boots, head, dbVars, jobVars, dlq, failed, unqueued>>

\* The shutdown handler: stop(), then pool.end(), which refuses every new
\* client at once and never resolves, since db.connect() keeps one for good.
Shutdown ==
    /\ app \in {"booting", "up"}
    /\ app' = "ending"
    /\ UNCHANGED <<boots, head, dbVars, jobVars, last, streamVars, task, backfill, dlq, historyVars>>

(* The stream *)

Close ==
    /\ head < LastLedger
    /\ head' = head + 1
    /\ inbox' = IF streaming THEN inbox \union {head + 1} ELSE inbox
    /\ UNCHANGED <<boots, dbVars, jobVars, app, last, reconnects, timers, streaming, task,
                   backfill, dlq, historyVars>>

\* onmessage: an old ledger only resets the count of reconnections.
Deliver ==
    /\ inbox # {}
    /\ LET s == Min(inbox) IN
          /\ task[<<"stream", s>>] = "none"
          /\ inbox' = inbox \ {s}
          /\ IF s > last THEN Moves(<<"stream", s>>, "check") /\ UNCHANGED reconnects
                         ELSE reconnects' = 0 /\ UNCHANGED task
    /\ UNCHANGED <<boots, head, dbVars, jobVars, app, last, timers, streaming, backfill, dlq,
                   historyVars>>

\* onerror: a delayed reconnection, until the attempts are used up
StreamFails ==
    /\ streaming
    /\ streaming' = FALSE /\ inbox' = {}
    /\ reconnects' = Min({reconnects + 1, MaxReconnects + 1})
    /\ timers' = IF reconnects + 1 > MaxReconnects THEN timers ELSE timers + 1
    /\ UNCHANGED <<boots, head, dbVars, jobVars, app, last, task, backfill, dlq, historyVars>>

Reconnect ==
    /\ timers > 0
    /\ timers' = timers - 1
    /\ streaming' = (streaming \/ app \in {"booting", "up"})
    /\ UNCHANGED <<boots, head, dbVars, jobVars, app, last, inbox, reconnects, task, backfill, dlq,
                   historyVars>>

(* processLedger *)

\* A call ends without an error.  The stream's handler then moves its
\* position, to a lower ledger if a later one was faster.
EndsWell(t) ==
    /\ Moves(t, IF t[1] = "stream" THEN "none" ELSE "stored")
    /\ IF t[1] = "stream" THEN last' = t[2] /\ reconnects' = 0
                          ELSE UNCHANGED <<last, reconnects>>

\* A call rejects.  Nobody awaits the stream's handler: its rejection ends the
\* process.
Rejects(t) ==
    /\ failed' = failed \union {t[2]}
    /\ IF t[1] = "stream"
          THEN Dies
          ELSE /\ Moves(t, "threw")
               /\ withoutTx' = IF task[t] = "full" THEN withoutTx \union {t[2]} ELSE withoutTx
               /\ UNCHANGED <<app, last, streamVars, backfill>>

\* The catch block: the ledger goes to the dead letter queue and the call
\* throws.
Throws(t) ==
    /\ dlq' = dlq \union {t[2]}
    /\ unqueued' = unqueued \ {t[2]}
    /\ Rejects(t)

\* Validation drops a record, or a mark with the ledger's number is found.
Skip(t) ==
    /\ task[t] = "check"
    /\ EndsWell(t)
    /\ UNCHANGED <<boots, head, dbVars, jobVars, app, inbox, timers, streaming, backfill, dlq,
                   historyVars>>

\* The query of shouldSkip, or its connect, fails: it is awaited before the try,
\* so the call rejects and the ledger is queued nowhere.
CheckFails(t) ==
    /\ task[t] = "check"
    /\ Rejects(t)
    /\ unqueued' = unqueued \union ({t[2]} \ (ledgers \union dlq))
    /\ UNCHANGED <<boots, head, dbVars, jobVars, dlq>>

\* Mutant: the ledger leaves the dead letter queue before it is stored.
BeginCleared(t) ==
    /\ task[t] = "check"
    /\ Connects
    /\ ~Storing(t[2])
    /\ Moves(t, "fetch")
    /\ dlq' = dlq \ {t[2]}
    /\ UNCHANGED <<boots, head, dbVars, jobVars, app, last, streamVars, backfill, historyVars>>

\* shouldSkip asks for the ledger's number, which ledger marks are not filed
\* under.  The row of the ledger is written; another transaction on the same
\* one waits for it.
BeginLedger(t) ==
    /\ task[t] = "check"
    /\ Connects
    /\ ~(counted /\ t[2] = TxCount)
    /\ ~Storing(t[2])
    /\ Moves(t, "fetch")
    /\ UNCHANGED <<boots, head, dbVars, jobVars, app, last, streamVars, backfill, dlq, historyVars>>

\* Mutant: a failed request for the transactions is treated like an open circuit.
SkipTransactionsQuietly(t) ==
    /\ task[t] = "fetch"
    /\ Moves(t, "bare")
    /\ UNCHANGED <<boots, head, dbVars, jobVars, app, last, streamVars, backfill, dlq, historyVars>>

\* The circuit is open, or the transaction is not valid: the ledger is stored
\* without it.
SkipTransactions(t) ==
    /\ task[t] = "fetch"
    /\ Moves(t, "bare")
    /\ withoutTx' = withoutTx \union {t[2]}
    /\ UNCHANGED <<boots, head, dbVars, jobVars, app, last, streamVars, backfill, dlq, failed,
                   unqueued>>

\* The transactions are there; those with a mark count as duplicates.
FilterDuplicates(t) ==
    /\ task[t] = "fetch"
    /\ Connects
    /\ Moves(t, IF t[2] \in marks THEN "bare" ELSE "insert")
    /\ UNCHANGED <<boots, head, dbVars, jobVars, app, last, streamVars, backfill, dlq, historyVars>>

\* The transaction and its operations are inserted, then the mark, at once
\* visible to everyone.
InsertAndMark(t) ==
    /\ task[t] = "insert"
    /\ Connects
    /\ marks' = marks \union {t[2]}
    /\ Moves(t, "full")
    /\ UNCHANGED <<boots, head, ledgers, txs, counted, jobVars, app, last, streamVars, backfill,
                   dlq, historyVars>>

\* COMMIT; then the ledger leaves the dead letter queue.
CommitLedger(t) ==
    /\ task[t] \in {"bare", "full"}
    /\ ledgers' = ledgers \union {t[2]}
    /\ txs' = IF task[t] = "full" THEN txs \union {t[2]} ELSE txs
    /\ Moves(t, "metrics")
    /\ dlq' = dlq \ {t[2]} /\ unqueued' = unqueued \ {t[2]}
    /\ UNCHANGED <<boots, head, marks, counted, jobVars, app, last, streamVars, backfill, failed,
                   withoutTx>>

\* COMMIT is carried out but its answer is lost: the catch block runs.
CommitUnheard(t) ==
    /\ task[t] \in {"bare", "full"}
    /\ ledgers' = ledgers \union {t[2]}
    /\ txs' = IF task[t] = "full" THEN txs \union {t[2]} ELSE txs
    /\ Throws(t)
    /\ UNCHANGED <<boots, head, marks, counted, jobVars>>

\* updateNetworkMetrics and markProcessed, with the counts in the wrong places
FinishLedger(t) ==
    /\ task[t] = "metrics"
    /\ Connects
    /\ counted' = TRUE
    /\ EndsWell(t)
    /\ UNCHANGED <<boots, head, ledgers, txs, marks, jobVars, app, inbox, timers, streaming, backfill,
                   dlq, historyVars>>

\* A statement or a request inside the try fails, or the connect of its
\* transaction once the check has answered.
FailLedger(t) ==
    /\ task[t] \in InTransaction \union {"check", "metrics"}
    /\ Throws(t)
    /\ UNCHANGED <<boots, head, dbVars, jobVars>>

(* The backfill *)

AtBackfill(at) == backfill.at = at
ToBackfill(at) == backfill' = [backfill EXCEPT !.at = at]

\* A backfill throws: at boot start() rejects and the application exits, an
\* HTTP request has been answered already and only a line is logged.
BackfillThrows ==
    IF backfill.boot
       THEN Dies /\ UNCHANGED <<boots, head, dbVars, jobVars, dlq, failed, unqueued>>
       ELSE /\ backfill' = NoBackfill
            /\ task' = [t \in Tasks |-> IF task[t] = "threw" THEN "none" ELSE task[t]]
            /\ UNCHANGED <<boots, head, dbVars, jobVars, app, last, streamVars, dlq, historyVars>>

\* A backfill returns; the boot goes on to start the HTTP server.
Returns ==
    /\ backfill' = NoBackfill
    /\ app' = IF backfill.boot /\ app = "booting" THEN "up" ELSE app

\* startBackfill: the position is read after the stream has been started.
StartBackfill ==
    /\ AtBackfill("latest")
    /\ \/ /\ last < head - Settled
          /\ backfill' = [backfill EXCEPT !.at = "setup", !.range = <<last + 1, head - Settled>>]
          /\ UNCHANGED app
       \/ Returns    \* the circuit is open, or there is nothing to fetch
    /\ UNCHANGED <<boots, head, dbVars, jobVars, last, streamVars, task, dlq, historyVars>>

\* POST /backfill: a range in progress is continued under a range of its own.
ManualBackfill(r) ==
    /\ app = "up"
    /\ AtBackfill("off")
    /\ LET row == jobs[r]
           from == IF row.status = "in_progress" /\ row.last # 0 THEN row.last + 1 ELSE r[1]
       IN  /\ from <= r[2]
           /\ backfill' = [NoBackfill EXCEPT !.at = "setup", !.range = <<from, r[2]>>]
    /\ UNCHANGED <<boots, head, dbVars, jobVars, app, last, streamVars, task, dlq, historyVars>>

\* loadJob: a row in progress is resumed, any other is set in progress with
\* the position and counts it has.
SetUpJob ==
    /\ AtBackfill("setup")
    /\ Connects
    /\ LET r == backfill.range  row == jobs[r]
           resumed == row.status = "in_progress" /\ row.last # 0
           from == IF resumed THEN row.last + 1 ELSE r[1]
       IN  /\ backfill' = [backfill EXCEPT !.at = "loop", !.old = row.last, !.from = from,
                               !.seq = from, !.processed = IF resumed THEN row.processed ELSE 0]
           /\ IF resumed THEN UNCHANGED jobVars
                         ELSE Writes(r, [row EXCEPT !.status = "in_progress"])
    /\ UNCHANGED <<boots, head, dbVars, app, last, streamVars, task, dlq, historyVars>>

BatchEnd == Min({backfill.seq + BatchSize - 1, backfill.range[2]})
Batch == backfill.seq .. BatchEnd

\* processLedgerBatch: ledgers that cannot be fetched are left out, and an
\* open circuit drops the batch, without an error in either case.
FetchBatch ==
    /\ AtBackfill("loop") /\ backfill.seq <= backfill.range[2]
    /\ Connects
    /\ \E F \in SUBSET Batch :
          /\ \A s \in F : s <= head /\ task[<<"batch", s>>] = "none"
          /\ task' = [t \in Tasks |-> IF t[1] = "batch" /\ t[2] \in F THEN "check" ELSE task[t]]
    /\ ToBackfill("batch")
    /\ UNCHANGED <<boots, head, dbVars, jobVars, app, last, streamVars, dlq, historyVars>>

BatchTasks == {"batch"} \X Batch

\* The whole batch has resolved: the checkpoint is moved behind it.
SaveBatch ==
    /\ AtBackfill("batch")
    /\ Connects
    /\ \A t \in BatchTasks : task[t] \in {"none", "stored"}
    /\ LET done == backfill.processed + (BatchEnd - backfill.seq + 1) IN
          /\ Writes(backfill.range, [jobs[backfill.range] EXCEPT !.last = BatchEnd, !.processed = done])
          /\ backfill' = [backfill EXCEPT !.at = "loop", !.seq = @ + BatchSize, !.processed = done]
    /\ task' = [t \in Tasks |-> IF t \in BatchTasks THEN "none" ELSE task[t]]
    /\ UNCHANGED <<boots, head, dbVars, app, last, streamVars, dlq, historyVars>>

\* Promise.all rejects with the first failure.  The catch block names a
\* variable that does not exist, so the failure is not recorded either.
BatchThrows ==
    /\ AtBackfill("batch")
    /\ \/ \E t \in BatchTasks : task[t] = "threw"
       \/ \A t \in BatchTasks : task[t] \in {"none", "stored"}    \* the save fails
    /\ BackfillThrows

\* Once the service is stopped the pool refuses the write of the cancelled
\* status; a query of the setup can fail at any time.
SetUpThrows ==
    /\ \/ AtBackfill("setup") \/ AtBackfill("latest")
       \/ AtBackfill("loop") /\ app = "ending" /\ backfill.seq <= backfill.range[2]
    /\ BackfillThrows

\* The sum the code compares with the end counts a resumed part twice.
Reached ==
    (IF backfill.old # 0 THEN Max({backfill.old, backfill.from - 1}) ELSE backfill.from - 1)
        + backfill.processed

FinishBackfill ==
    /\ AtBackfill("loop") /\ backfill.seq > backfill.range[2]
    /\ Connects
    /\ IF Reached >= backfill.range[2]
          THEN Writes(backfill.range, [status |-> "completed", last |-> backfill.range[2],
                                       processed |-> backfill.processed])
          ELSE UNCHANGED jobVars
    /\ Returns
    /\ UNCHANGED <<boots, head, dbVars, last, streamVars, task, dlq, historyVars>>

FinishThrows ==
    /\ AtBackfill("loop") /\ backfill.seq > backfill.range[2]
    /\ BackfillThrows

Task(t) ==
    \/ Skip(t) \/ CheckFails(t) \/ BeginLedger(t) \/ SkipTransactions(t) \/ FilterDuplicates(t)
    \/ InsertAndMark(t) \/ CommitLedger(t) \/ CommitUnheard(t) \/ FinishLedger(t) \/ FailLedger(t)

Next ==
    \/ Boot \/ Crash \/ Shutdown
    \/ Close \/ Deliver \/ StreamFails \/ Reconnect
    \/ \E t \in Tasks : Task(t)
    \/ StartBackfill \/ SetUpJob \/ FetchBatch \/ SaveBatch \/ FinishBackfill
    \/ BatchThrows \/ SetUpThrows \/ FinishThrows
    \/ \E r \in Requests : ManualBackfill(r)

Spec == Init /\ [][Next]_legacyVars

-----------------------------------------------------------------------------

TypeOK ==
    /\ head \in Ledgers /\ boots \in 0..MaxBoots
    /\ ledgers \subseteq Ledgers /\ txs \subseteq Ledgers /\ marks \subseteq Ledgers
    /\ counted \in BOOLEAN
    /\ jobs \in [Ranges -> [status : {"none", "in_progress", "completed"},
                            last : 0..LastLedger, processed : 0..LastLedger]]
    /\ recent \in Seq(Ranges)
    /\ app \in {"down", "booting", "up", "ending"}
    /\ last \in Nat
    /\ inbox \subseteq Ledgers /\ reconnects \in 0..(MaxReconnects + 1)
    /\ timers \in Nat /\ streaming \in BOOLEAN
    /\ task \in [Tasks -> {"none", "check", "fetch", "insert", "bare", "full", "metrics",
                           "stored", "threw"}]
    /\ dlq \subseteq Ledgers /\ failed \subseteq Ledgers /\ unqueued \subseteq Ledgers
    /\ withoutTx \subseteq Ledgers

\* A ledger whose processing threw is stored or waits in the dead letter
\* queue, whichever of its overlapping tasks ended last; but for a call that
\* threw before its try and an entry the last start did not find in the file,
\* and for those only until the ledger is stored or fails again.
FailedIsQueued == failed \ unqueued \subseteq ledgers \union dlq

\* A stored ledger lacks its transaction only where the circuit was open for
\* it or the transaction was not valid, or where an earlier attempt wrote the
\* mark and was rolled back.
LossExplained == ledgers \subseteq txs \union withoutTx

=============================================================================

----------------------------- MODULE RetryQueue -----------------------------
(***************************************************************************)
(* The dead letter queue of failed ledgers and the job that retries them   *)
(* (indexer/src/error-recovery/DeadLetterQueue.ts and RecoveryJob.ts),     *)
(* with their two files: the state file with the entries to be retried and *)
(* the log of the ledgers given up.                                        *)
(*                                                                         *)
(* The queue's methods are synchronous: nothing else of the process runs   *)
(* until one returns.  But the process can die between the file writes of  *)
(* one call, and each write can fail; a file is replaced by a rename, so   *)
(* it is written as a whole or not at all.  The retry processor is the     *)
(* constructor argument of RecoveryJob: it answers true or false, or       *)
(* throws, in its own time, while the indexer reports other failures.      *)
(***************************************************************************)
EXTENDS Integers

CONSTANTS
    Ledgers,
    MaxRetries,
    Passes,        \* bound: passes of the recovery job that overlap
    AttemptCap     \* bound on attemptCount, which only a failing log exceeds MaxRetries with

ASSUME RetriesAssumption == MaxRetries \in Nat \ {0} /\ AttemptCap \in Nat
ASSUME LiveAssumption == "live" \notin Passes

VARIABLES
    \* on disk; 0 attempts stand for an absent entry
    state,         \* dead-letter-queue-state.json: attemptCount per ledger
    logged,        \* ledgers with a line in dead-letter-queue.log
    \* DeadLetterQueue
    alive,         \* the process is up
    queue,         \* failedLedgers: attemptCount per ledger
    due,           \* ledgers whose backoff has elapsed
    call,          \* the push, remove or clear that is under way
    \* RecoveryJob
    isProcessing,
    scheduled,     \* a setInterval is armed; none is ever cleared
    pass,          \* the runs of processRetryQueue
    \* history
    owed,          \* failures accepted by push, neither resolved nor logged since
    unread         \* of those, the ones a failed load left out and no write put back

diskVars == <<state, logged>>
jobVars == <<isProcessing, scheduled, pass>>
history == <<owed, unread>>
vars == <<state, logged, alive, queue, due, call, isProcessing, scheduled, pass, owed, unread>>

-----------------------------------------------------------------------------

None == [at |-> "none", by |-> "live", seq |-> {}]
NoPass == [at |-> "idle", todo |-> {}, cur |-> {}, initial |-> FALSE]
Empty == [s \in Ledgers |-> 0]

Exhausted(s) == queue[s] >= MaxRetries

\* Mutant: the last attempt is never made.
ReadyOneLess == {s \in due : queue[s] > 0 /\ queue[s] + 1 < MaxRetries}

\* getReadyForRetry
Ready == {s \in due : queue[s] > 0 /\ ~Exhausted(s)}

\* The process runs its next piece of synchronous code.
Free == alive /\ call = None

Calling(at, by, S) == call' = [at |-> at, by |-> by, seq |-> S]

-----------------------------------------------------------------------------

Init ==
    /\ state = Empty /\ logged = {}
    /\ alive = TRUE /\ queue = Empty /\ due = {} /\ call = None
    /\ isProcessing = FALSE /\ scheduled = FALSE
    /\ pass = [p \in Passes |-> NoPass]
    /\ owed = {} /\ unread = {}

(* push, called when a ledger could not be processed *)

\* Mutant: attempts are counted down.
CountedDown(s) == queue[s] - 1

Counted(s) == queue[s] + 1

Push(s) ==
    /\ Free /\ queue[s] < AttemptCap
    /\ queue' = [queue EXCEPT ![s] = Counted(s)]
    /\ due' = due \ {s}
    /\ Calling(IF queue[s] > 0 /\ Counted(s) >= MaxRetries THEN "log" ELSE "push",
               "live", {s})
    /\ UNCHANGED <<diskVars, alive, jobVars, history>>

Without(S) == [s \in Ledgers |-> IF s \in S THEN 0 ELSE queue[s]]

\* What was owed for these ledgers is owed no longer.
Settle(S) == owed' = owed \ S /\ unread' = unread \ S

\* Mutant: an entry that could not be logged is dropped all the same.
GiveUpUnlogged ==
    /\ call.at = "log"
    /\ \/ logged' = logged \union call.seq /\ Settle(call.seq)
       \/ UNCHANGED <<logged, history>>
    /\ queue' = Without(call.seq)
    /\ Calling("remove", call.by, call.seq)
    /\ UNCHANGED <<state, alive, due, jobVars>>

\* writeToDlqFile, then the entry is dropped from memory
GiveUp ==
    /\ call.at = "log"
    /\ logged' = logged \union call.seq
    /\ Settle(call.seq)
    /\ queue' = Without(call.seq)
    /\ Calling("remove", call.by, call.seq)
    /\ UNCHANGED <<state, alive, due, jobVars>>

(* remove and clear *)

Drop(S, by) ==
    /\ queue' = Without(S)
    /\ Settle(S)
    /\ Calling("remove", by, S)

\* The ledger has been processed after all.
Remove(s) ==
    /\ Free /\ queue[s] > 0
    /\ Drop({s}, "live")
    /\ UNCHANGED <<diskVars, alive, due, jobVars>>

Clear ==
    /\ Free
    /\ Drop(Ledgers, "live")
    /\ UNCHANGED <<diskVars, alive, due, jobVars>>

(* persistState, the last step of every call *)

\* Where the caller goes on
Return ==
    /\ call' = None
    /\ pass' = [p \in Passes |-> IF p = call.by THEN [pass[p] EXCEPT !.at = "next"]
                                 ELSE pass[p]]

PersistState ==
    /\ call.at \in {"push", "remove"}
    /\ state' = queue
    /\ owed' = IF call.at = "push" THEN owed \union call.seq ELSE owed
    /\ unread' = {s \in unread : queue[s] = 0}
    /\ Return
    /\ UNCHANGED <<logged, alive, queue, due, isProcessing, scheduled>>

\* The process is gone, and with it what it had in memory.
Stopped ==
    /\ alive' = FALSE /\ queue' = Empty /\ due' = {} /\ call' = None
    /\ isProcessing' = FALSE /\ scheduled' = FALSE
    /\ pass' = [p \in Passes |-> NoPass]

\* A rejected pass: start() rejects and leaves isProcessing set; from
\* setInterval it is an unhandled rejection, which ends the process.
Reject(p) ==
    IF pass[p].initial
    THEN /\ pass' = [pass EXCEPT ![p] = NoPass]
         /\ call' = None
         /\ UNCHANGED <<alive, queue, due, isProcessing, scheduled>>
    ELSE Stopped

\* The write of a file throws.
WriteFails ==
    /\ call # None
    /\ \/ /\ call.by = "live"
          /\ call' = None
          /\ UNCHANGED <<alive, queue, due, jobVars>>
       \/ \E p \in Passes : call.by = p /\ Reject(p)
    /\ UNCHANGED <<diskVars, history>>

-----------------------------------------------------------------------------
(* RecoveryJob *)

Begin(p, initial) ==
    pass' = [pass EXCEPT ![p] = [at |-> "next", todo |-> Ready, cur |-> {},
                                 initial |-> initial]]

Start(p) ==
    /\ Free /\ ~isProcessing /\ pass[p] = NoPass
    /\ isProcessing' = TRUE
    /\ Begin(p, TRUE)
    /\ UNCHANGED <<diskVars, alive, queue, due, call, scheduled, history>>

Stop ==
    /\ Free /\ isProcessing
    /\ isProcessing' = FALSE
    /\ UNCHANGED <<diskVars, alive, queue, due, call, scheduled, pass, history>>

\* setInterval fires, whether or not the pass before has ended.
Tick(p) ==
    /\ Free /\ scheduled /\ isProcessing /\ pass[p] = NoPass
    /\ Begin(p, FALSE)
    /\ UNCHANGED <<diskVars, alive, queue, due, call, isProcessing, scheduled, history>>

\* The next ledger of the list that was ready when the pass began
Retry(p, s) ==
    /\ Free /\ pass[p].at = "next" /\ s \in pass[p].todo
    /\ pass' = [pass EXCEPT ![p].at = "retry", ![p].cur = {s}, ![p].todo = @ \ {s}]
    /\ UNCHANGED <<diskVars, alive, queue, due, call, isProcessing, scheduled, history>>

EndPass(p) ==
    /\ Free /\ pass[p].at = "next" /\ pass[p].todo = {}
    /\ scheduled' = (scheduled \/ pass[p].initial)
    /\ pass' = [pass EXCEPT ![p] = NoPass]
    /\ UNCHANGED <<diskVars, alive, queue, due, call, isProcessing, history>>

\* The processor answers true: dlq.remove, which persists what it changed.
RetrySucceeds(p) ==
    /\ Free /\ pass[p].at = "retry"
    /\ IF \E s \in pass[p].cur : queue[s] > 0
       THEN /\ Drop(pass[p].cur, p)
            /\ pass' = [pass EXCEPT ![p].at = "remove"]
       ELSE /\ pass' = [pass EXCEPT ![p].at = "next"]
            /\ UNCHANGED <<queue, history, call>>
    /\ UNCHANGED <<diskVars, alive, due, isProcessing, scheduled>>

\* It answers false: nothing is counted and no backoff begins.
RetryFails(p) ==
    /\ Free /\ pass[p].at = "retry"
    /\ pass' = [pass EXCEPT ![p].at = "next"]
    /\ UNCHANGED <<diskVars, alive, queue, due, call, isProcessing, scheduled, history>>

RetryThrows(p) ==
    /\ Free /\ pass[p].at = "retry"
    /\ Reject(p)
    /\ UNCHANGED <<diskVars, history>>

PassStep(p) ==
    \/ \E s \in Ledgers : Retry(p, s)
    \/ EndPass(p)
    \/ RetrySucceeds(p) \/ RetryFails(p) \/ RetryThrows(p)

-----------------------------------------------------------------------------
(* Around the process *)

\* The backoff of an entry elapses.
BackoffElapses(s) ==
    /\ alive /\ queue[s] > 0 /\ s \notin due
    /\ due' = due \union {s}
    /\ UNCHANGED <<diskVars, alive, queue, call, jobVars, history>>

Crash == alive /\ Stopped /\ UNCHANGED <<diskVars, history>>

\* Mutant: a reloaded entry starts counting again.
LoadedFresh == [s \in Ledgers |-> IF state[s] > 0 THEN 1 ELSE 0]

Loaded == state

\* A file that cannot be read or parsed is passed over: the queue starts
\* empty, and the next persistState replaces the file.
LoadFails ==
    /\ queue' = Empty
    /\ unread' = unread \union owed

\* The process starts: loadFromDisk in the constructor.
Restart ==
    /\ ~alive
    /\ alive' = TRUE
    /\ \/ queue' = Loaded /\ unread' = {s \in unread : Loaded[s] = 0}
       \/ LoadFails
    /\ UNCHANGED <<diskVars, due, call, jobVars, owed>>

Next ==
    \/ \E s \in Ledgers : Push(s) \/ Remove(s) \/ BackoffElapses(s)
    \/ Clear \/ GiveUp \/ PersistState \/ WriteFails
    \/ \E p \in Passes : Start(p) \/ Tick(p) \/ PassStep(p)
    \/ Stop \/ Crash \/ Restart

CallStep == GiveUp \/ PersistState \/ WriteFails

\* A synchronous call returns and a backoff ends; every retry is answered, and
\* the event loop does not pass over a timer or a continuation for ever in
\* favour of other callbacks.
Fairness ==
    /\ WF_vars(CallStep)
    /\ \A p \in Passes : SF_vars(PassStep(p)) /\ SF_vars(Tick(p))
    /\ \A s \in Ledgers : WF_vars(BackoffElapses(s))

Spec == Init /\ [][Next]_vars /\ Fairness

-----------------------------------------------------------------------------
(* Properties *)

Attempts == [Ledgers -> Nat]
Callers == Passes \union {"live"}

\* Type correctness of the files, the queue and the recovery job.
TypeOK ==
    /\ state \in Attempts /\ logged \in SUBSET Ledgers
    /\ alive \in BOOLEAN /\ queue \in Attempts /\ due \in SUBSET Ledgers
    /\ call \in [at : {"none", "push", "log", "remove"}, by : Callers, seq : SUBSET Ledgers]
    /\ isProcessing \in BOOLEAN /\ scheduled \in BOOLEAN
    /\ pass \in [Passes -> [at : {"idle", "next", "retry", "remove"}, todo : SUBSET Ledgers,
                            cur : SUBSET Ledgers, initial : BOOLEAN]]
    /\ owed \in SUBSET Ledgers /\ unread \in SUBSET Ledgers

\* Issues #434 and #435: a failure that push has accepted stays in the state
\* file until the ledger is processed, cleared or in the log, wherever the
\* process dies and whatever write fails; and the process never forgets one
\* its state file still holds.  The one exception is the code's own: the
\* failures in a file that a start could not read (DeadLetterQueue.ts:238),
\* until the file is read again or the ledger fails again.
NothingForgotten ==
    \A s \in owed \ unread : state[s] > 0 /\ (alive => queue[s] > 0)

\* What is counted against a ledger is never taken back while the failure
\* stands: no crash, failed write or concurrent pass gives it more retries;
\* only a start that could not read the file does.
AttemptsSurvive ==
    [][\A s \in (owed \intersect owed') \ unread : state'[s] >= state[s]]_vars

\* AttemptsSurvive holds because memory is never behind the file.
QueueInv ==
    /\ NothingForgotten
    /\ alive => \A s \in owed \ unread : queue[s] >= state[s]
    /\ ~alive => call = None
    /\ call.at = "push" => \A s \in call.seq : queue[s] > 0
    /\ call.at \in {"log", "push"} => call.by = "live"

Retrying(s) == \E p \in Passes : pass[p].at = "retry" /\ pass[p].cur = {s}

\* RecoveryJob.ts:16: while the job is scheduled, every ledger that has
\* attempts left is retried, unless it settles some other way.
EveryLedgerRetried ==
    \A s \in Ledgers :
        alive /\ scheduled /\ isProcessing /\ queue[s] \in 1..MaxRetries - 1
        ~> Retrying(s) \/ queue[s] = 0 \/ Exhausted(s) \/ ~alive \/ ~isProcessing

-----------------------------------------------------------------------------
(* What the comments say and the code does not do *)

\* RecoveryJob.ts:16: a started job periodically checks the queue, so it is in
\* its initial pass or has its timer.
StartedMeansScheduled ==
    isProcessing => scheduled \/ \E p \in Passes : pass[p].initial
=============================================================================

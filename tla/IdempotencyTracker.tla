------------------------ MODULE IdempotencyTracker ------------------------
(***************************************************************************)
(* The idempotency tracker of the legacy indexer                           *)
(* (packages/indexer/src/idempotency/IdempotencyTracker.ts): a table of    *)
(* processed keys, and in every process a cache of keys known to be in it. *)
(*                                                                         *)
(* A tracker is the object of one process; its callers are the async calls *)
(* under way in that process.  A step is what happens between two awaits:  *)
(* a statement is executed by PostgreSQL in one step and its answer        *)
(* reaches the caller in another, wherever something can come in between.  *)
(* The advisory lock of a key is held from its acquisition to the end of   *)
(* the transaction, so who holds it is read off the callers.               *)
(***************************************************************************)
EXTENDS Integers, FiniteSets

CONSTANTS
    Keys,          \* entity keys
    Trackers,      \* processes with a tracker
    Callers,
    TrackerOf,     \* the process a caller runs in
    Checksums,     \* what a payload's checksum distinguishes
    Absent,        \* no row
    Strategies,    \* the ConflictResolutionStrategy values the callers pass
    WarmCacheSize

ASSUME TrackerAssumption == TrackerOf \in [Callers -> Trackers]
ASSUME ChecksumAssumption == Absent \notin Checksums
ASSUME StrategyAssumption ==
    Strategies \subseteq {"SKIP", "MERGE", "UPDATE_LATEST", "DUAL_STATE"}

VARIABLES
    records,       \* idempotency_records: the checksum stored for a key
    processedCache,
    initialized,
    call,          \* the call each caller is in
    \* history
    ran,           \* SKIP calls that committed their work since the key had no row
    stale          \* who may still cache a key whose row was deleted

trackerVars == <<records, processedCache, initialized, call, ran, stale>>

-----------------------------------------------------------------------------

\* A call that stores nothing, about the keys K.
About(at, K) == [at |-> at, keys |-> K, sum |-> Absent, strategy |-> "SKIP"]
Idle == About("idle", {})

\* Where a caller of withIdempotency has its transaction open and the lock.
InLock == {"select", "work", "commit"}

Of(t) == {c \in Callers : TrackerOf[c] = t}

Busy(c, k) == call[c].at # "idle" /\ k \in call[c].keys

\* pg_advisory_xact_lock has been granted for the key.
Locked(k) == \E c \in Callers : call[c].at \in InLock /\ k \in call[c].keys

\* A transaction that has written the key's row is not over.
Unsettled(k) == \E c \in Callers : call[c].at = "commit" /\ k \in call[c].keys

Go(c, at) == call' = [call EXCEPT ![c].at = at]
Done(c) == call' = [call EXCEPT ![c] = Idle]

Calls(c, at, k, sum, strategy) ==
    /\ call[c].at = "idle"
    /\ call' = [call EXCEPT ![c] =
            [at |-> at, keys |-> {k}, sum |-> sum, strategy |-> strategy]]

Remember(c, K) ==
    processedCache' = [processedCache EXCEPT ![TrackerOf[c]] = @ \union K]

\* INSERT ... ON CONFLICT DO UPDATE leaves the stored checksum as it was.  It
\* names the column attempts without its table, which PostgreSQL may refuse:
\* the call then ends in Fail.
Upserted(k, sum) ==
    [records EXCEPT ![k] = IF @ = Absent THEN sum ELSE @]

\* Mutant: the lock is taken, but the row is not read again under it.
ResolveUnread(c, k) == TRUE

\* resolveConflict, for the row found under the lock
ResolveConflict(c, k) ==
    \/ records[k] = Absent
    \/ call[c].strategy \in {"MERGE", "DUAL_STATE"}
    \/ call[c].strategy = "UPDATE_LATEST" /\ call[c].sum # records[k]

Init ==
    /\ records = [k \in Keys |-> Absent]
    /\ processedCache = [t \in Trackers |-> {}]
    /\ initialized = [t \in Trackers |-> FALSE]
    /\ call = [c \in Callers |-> Idle]
    /\ ran = [k \in Keys |-> 0]
    /\ stale = [t \in Trackers |-> {}]

(* initialize: the most recent rows are read, then added to the cache *)

Initialize(c) ==
    /\ call[c].at = "idle"
    /\ ~initialized[TrackerOf[c]]
    /\ \E K \in SUBSET {k \in Keys : records[k] # Absent} :
          /\ Cardinality(K) <= WarmCacheSize
          /\ call' = [call EXCEPT ![c] = About("warm", K)]
    /\ UNCHANGED <<records, processedCache, initialized, ran, stale>>

Warmed(c) ==
    /\ call[c].at = "warm"
    /\ Remember(c, call[c].keys)
    /\ initialized' = [initialized EXCEPT ![TrackerOf[c]] = TRUE]
    /\ Done(c)
    /\ UNCHANGED <<records, ran, stale>>

(* isProcessed, shouldSkip, filterDuplicateTxHashes: cache, then EXISTS *)

IsProcessed(c, k) ==
    /\ k \notin processedCache[TrackerOf[c]]
    /\ Calls(c, "ask", k, Absent, "SKIP")
    /\ UNCHANGED <<records, processedCache, initialized, ran, stale>>

Exists(c) ==
    /\ call[c].at = "ask"
    /\ IF \E k \in call[c].keys : records[k] # Absent THEN Go(c, "known") ELSE Done(c)
    /\ UNCHANGED <<records, processedCache, initialized, ran, stale>>

\* What a caller does after an answer that lets it cache the key.
AddToCache(c) ==
    /\ call[c].at \in {"known", "skipped", "committed", "marked"}
    /\ Remember(c, call[c].keys)
    /\ Done(c)
    /\ UNCHANGED <<records, initialized, ran, stale>>

(* markProcessed: the upsert, then the cache *)

MarkProcessed(c, k, sum) ==
    /\ Calls(c, "mark", k, sum, "SKIP")
    /\ UNCHANGED <<records, processedCache, initialized, ran, stale>>

Upsert(c) ==
    /\ call[c].at = "mark"
    /\ \E k \in call[c].keys :
          /\ ~Unsettled(k)
          /\ records' = Upserted(k, call[c].sum)
    /\ Go(c, "marked")
    /\ UNCHANGED <<processedCache, initialized, ran, stale>>

(* withIdempotency *)

WithIdempotency(c, k, sum, strategy) ==
    /\ k \notin processedCache[TrackerOf[c]]
    /\ Calls(c, "lock", k, sum, strategy)
    /\ UNCHANGED <<records, processedCache, initialized, ran, stale>>

\* Mutant: the work runs without the lock.
LockSkipped(c) ==
    /\ call[c].at = "lock"
    /\ Go(c, "select")
    /\ UNCHANGED <<records, processedCache, initialized, ran, stale>>

AcquireLock(c) ==
    /\ call[c].at = "lock"
    /\ \A k \in call[c].keys : ~Locked(k)
    /\ Go(c, "select")
    /\ UNCHANGED <<records, processedCache, initialized, ran, stale>>

SelectUnderLock(c) ==
    /\ call[c].at = "select"
    /\ \E k \in call[c].keys :
          Go(c, IF ResolveConflict(c, k) THEN "work" ELSE "skipped")
    /\ UNCHANGED <<records, processedCache, initialized, ran, stale>>

\* The caller's work, then markProcessedWithClient, in the open transaction.
Work(c) ==
    /\ call[c].at = "work"
    /\ \A k \in call[c].keys : ~Unsettled(k)
    /\ Go(c, "commit")
    /\ UNCHANGED <<records, processedCache, initialized, ran, stale>>

Commit(c) ==
    /\ call[c].at = "commit"
    /\ \E k \in call[c].keys :
          /\ records' = Upserted(k, call[c].sum)
          /\ ran' = IF call[c].strategy = "SKIP" THEN [ran EXCEPT ![k] = @ + 1] ELSE ran
    /\ Go(c, "committed")
    /\ UNCHANGED <<processedCache, initialized, stale>>

(* unmark and cleanup: the DELETE, then the cache *)

\* Mutant: cleanup leaves the cache as it is.
ForgottenNothing(t, K) == processedCache

\* Who can hold, or come to hold, the keys deleted by caller c.
Holders(c, K) ==
    [t \in Trackers |-> (stale[t] \ K) \union
        {k \in K : \/ t # TrackerOf[c] /\ k \in processedCache[t]
                   \/ \E d \in Of(t) \ {c} : Busy(d, k)}]

Delete(c, K, at) ==
    /\ call[c].at = "idle"
    /\ \A k \in K : ~Unsettled(k)
    /\ records' = [k \in Keys |-> IF k \in K THEN Absent ELSE records[k]]
    /\ ran' = [k \in Keys |-> IF k \in K THEN 0 ELSE ran[k]]
    /\ stale' = Holders(c, K)
    /\ call' = [call EXCEPT ![c] = About(at, K)]
    /\ UNCHANGED <<processedCache, initialized>>

Unmark(c, k) == Delete(c, {k}, "unmarked")

\* Rows older than the retention time; without any the cache is kept.
Cleanup(c) ==
    \E K \in SUBSET {k \in Keys : records[k] # Absent} \ {{}} : Delete(c, K, "cleaned")

Evicted(t, K) == [processedCache EXCEPT ![t] = @ \ K]

Evict(c) ==
    /\ call[c].at = "unmarked"
    /\ processedCache' = Evicted(TrackerOf[c], call[c].keys)
    /\ Done(c)
    /\ UNCHANGED <<records, initialized, ran, stale>>

Cleaned(c) ==
    /\ call[c].at = "cleaned"
    /\ processedCache' = Evicted(TrackerOf[c], Keys)
    /\ initialized' = [initialized EXCEPT ![TrackerOf[c]] = FALSE]
    /\ Done(c)
    /\ UNCHANGED <<records, ran, stale>>

\* evictFromCache and clearCache, which only forget
ForgetCache(t) ==
    /\ \E K \in {Keys} \union {{k} : k \in Keys} : processedCache' = Evicted(t, K)
    /\ UNCHANGED <<records, initialized, call, ran, stale>>

\* A statement or its answer is lost: the call throws, a transaction that was
\* not committed is rolled back, and the cache is not touched.
Fail(c) ==
    /\ call[c].at # "idle"
    /\ Done(c)
    /\ stale' = IF call[c].at \in {"unmarked", "cleaned"}
                   THEN [stale EXCEPT ![TrackerOf[c]] = @ \union call[c].keys]
                   ELSE stale
    /\ UNCHANGED <<records, processedCache, initialized, ran>>

\* The process dies: its transactions are rolled back and its cache is gone.
Crash(t) ==
    /\ processedCache' = [processedCache EXCEPT ![t] = {}]
    /\ initialized' = [initialized EXCEPT ![t] = FALSE]
    /\ call' = [c \in Callers |-> IF c \in Of(t) THEN Idle ELSE call[c]]
    /\ UNCHANGED <<records, ran, stale>>

Start(c) ==
    \/ Initialize(c)
    \/ Cleanup(c)
    \/ \E k \in Keys : IsProcessed(c, k) \/ Unmark(c, k)
    \/ \E k \in Keys, sum \in Checksums :
          \/ MarkProcessed(c, k, sum)
          \/ \E s \in Strategies : WithIdempotency(c, k, sum, s)

Continue(c) ==
    \/ Warmed(c) \/ Exists(c) \/ AddToCache(c) \/ Upsert(c)
    \/ AcquireLock(c) \/ SelectUnderLock(c) \/ Work(c) \/ Commit(c)
    \/ Evict(c) \/ Cleaned(c) \/ Fail(c)

Next ==
    \/ \E c \in Callers : Start(c) \/ Continue(c)
    \/ \E t \in Trackers : ForgetCache(t) \/ Crash(t)

Spec == Init /\ [][Next]_trackerVars

-----------------------------------------------------------------------------

Points == {"idle", "warm", "ask", "known", "mark", "marked", "lock", "select", "work",
           "commit", "committed", "skipped", "unmarked", "cleaned"}

TypeOK ==
    /\ records \in [Keys -> Checksums \union {Absent}]
    /\ processedCache \in [Trackers -> SUBSET Keys]
    /\ initialized \in [Trackers -> BOOLEAN]
    /\ call \in [Callers -> [at : Points, keys : SUBSET Keys,
                             sum : Checksums \union {Absent},
                             strategy : Strategies \union {"SKIP"}]]
    /\ ran \in [Keys -> Nat]
    /\ stale \in [Trackers -> SUBSET Keys]

\* The work of a key runs once among callers that pass SKIP, whatever calls of
\* any process overlap, fail or are repeated, until the key's row is deleted.
WorkRunsOnce == \A k \in Keys : ran[k] <= 1

\* A process caches a key without a row only when the row was deleted behind
\* its back: by another process, by a call whose answer was lost, or while one
\* of its own calls on the key was under way.
StaleOnlyByOverlap ==
    \A t \in Trackers : \A k \in processedCache[t] :
       \/ records[k] # Absent
       \/ k \in stale[t]
       \/ \E c \in Of(t) : call[c].at \in {"unmarked", "cleaned"} /\ k \in call[c].keys

=============================================================================

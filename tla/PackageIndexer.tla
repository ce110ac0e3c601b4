--------------------------- MODULE PackageIndexer ---------------------------
(***************************************************************************)
(* The parts of packages/indexer: the idempotency tracker, the indexer,    *)
(* the gap detector, the schema migrations and the limiter in front of     *)
(* Horizon.  They share no state in these models; the first state chooses  *)
(* the part, and the others stay as they are.                              *)
(***************************************************************************)
EXTENDS IdempotencyTracker, Sequences

CONSTANTS
    LastLedger, Settled, BatchSize, MaxReconnects, Requests, MaxBoots, TxCount, OpCount,
    LastRow, MaxFiled, HorizonSeq, TxPerLedger, RecordCount,
    Processes, Major,
    Consumers, MaxRequests, WindowMs

\* The ranges asked for over HTTP lie on the chain, and the numbers a ledger's
\* mark is filed under are counts.
ASSUME ChainAssumption ==
    /\ LastLedger \in Nat \ {0} /\ Settled \in Nat /\ BatchSize \in Nat \ {0}
    /\ MaxReconnects \in Nat /\ MaxBoots \in Nat /\ OpCount \in Nat
    /\ Requests \subseteq {r \in (1..LastLedger) \X (1..LastLedger) : r[1] <= r[2]}
ASSUME ScanAssumption ==
    LastRow \in Nat /\ HorizonSeq \in Nat /\ RecordCount \in Nat
\* There is a first release.
ASSUME ReleaseAssumption == Major \in Seq(Nat) /\ Major # <<>>
ASSUME HorizonAssumption == MaxRequests \in Nat \ {0} /\ WindowMs \in Nat \ {0}

VARIABLES
    part,
    head, ledgers, txs, marks, counted, jobs, recent, boots, app, last, inbox,
    reconnects, timers, streaming, task, backfill, dlq, failed, unqueued, withoutTx,
    rows, filed, recorded, scan, recovery, tried,
    applied, versions, proc, short,
    requests, timer

L == INSTANCE LegacyIndexer
G == INSTANCE GapDetection WITH
        LastLedger <- LastRow, OpCount <- RecordCount, counted <- recorded
M == INSTANCE SchemaMigrations
H == INSTANCE HorizonRateLimiter

legacyVars ==
    <<head, ledgers, txs, marks, counted, jobs, recent, boots, app, last, inbox,
      reconnects, timers, streaming, task, backfill, dlq, failed, unqueued, withoutTx>>
gapVars == <<rows, filed, recorded, scan, recovery, tried>>
schemaVars == <<applied, versions, proc, short>>
limiterVars == <<requests, timer>>
vars == <<part, trackerVars, legacyVars, gapVars, schemaVars, limiterVars>>

PackageInit ==
    /\ part \in {"tracker", "indexer", "gaps", "schema", "limiter"}
    /\ Init /\ L!Init /\ G!Init /\ H!Init
    /\ IF part = "schema" THEN M!Init ELSE M!Init /\ applied = 0

TrackerOnly ==
    /\ part = "tracker"
    /\ UNCHANGED <<part, legacyVars, gapVars, schemaVars, limiterVars>>
IndexerOnly ==
    /\ part = "indexer"
    /\ UNCHANGED <<part, trackerVars, gapVars, schemaVars, limiterVars>>
GapsOnly ==
    /\ part = "gaps"
    /\ UNCHANGED <<part, trackerVars, legacyVars, schemaVars, limiterVars>>
SchemaOnly ==
    /\ part = "schema"
    /\ UNCHANGED <<part, trackerVars, legacyVars, gapVars, limiterVars>>
LimiterOnly ==
    /\ part = "limiter"
    /\ UNCHANGED <<part, trackerVars, legacyVars, gapVars, schemaVars>>

PackageNext ==
    \/ TrackerOnly /\ Next
    \/ IndexerOnly /\ L!Next
    \/ GapsOnly /\ G!Next
    \/ SchemaOnly /\ M!Next
    \/ LimiterOnly /\ H!Next

PackageSpec == PackageInit /\ [][PackageNext]_vars

-----------------------------------------------------------------------------

\* The type invariants of the five parts.
TypesOK ==
    /\ part = "tracker" => TypeOK
    /\ part = "indexer" => L!TypeOK
    /\ part = "gaps" => G!TypeOK
    /\ part = "schema" => M!TypeOK
    /\ part = "limiter" => H!TypeOK

\* A ledger whose processing threw inside its try is stored or in the dead
\* letter queue, or the queue's file did not give it back at a start.
FailedIsQueued == part = "indexer" => L!FailedIsQueued

\* A ledger stored without its transactions was left so by a call that knew.
LossExplained == part = "indexer" => L!LossExplained

\* A scan reports every hole that was there while it ran.
HolesFound == part = "gaps" => G!HolesFound

\* A recovery that returns has tried every ledger of every gap.
EveryGapTried == part = "gaps" => G!EveryGapTried

\* The recorded version, what is applied and what runs fit together.
SchemaFits == part = "schema" => M!SchemaFits

\* The limit on Horizon holds in every stretch as long as the window.
SlidingBudget == part = "limiter" => H!SlidingBudget

=============================================================================

---------------------------- MODULE GapDetection ----------------------------
(***************************************************************************)
(* Detection and recovery of missing ledgers                               *)
(* (packages/indexer/src/backfill/GapDetectionService.ts, and the same     *)
(* algorithms over the runtime schema in indexer/src/gap-detector.ts).     *)
(*                                                                         *)
(* A scan reads the bounds and the number of rows in one statement and the *)
(* rows in another; the indexer goes on storing ledgers in between.  A     *)
(* report merges the gaps of the ledgers table with those of the           *)
(* idempotency records, and the recovery backfills them one by one.        *)
(***************************************************************************)
EXTENDS Integers, FiniteSets, Sequences

CONSTANTS
    LastLedger,    \* bound: ledgers 1..LastLedger can be stored
    MaxFiled,      \* bound: ledgers whose transactions are recorded
    Settled,       \* the ledgers next to the head that are not waited for (10)
    HorizonSeq,    \* the newest ledger of Horizon
    TxPerLedger,   \* rows of idempotency_records that carry a ledger's sequence
    OpCount        \* the number the ledgers' own records carry for a sequence

VARIABLES
    rows,          \* the sequences in the ledgers table
    filed,         \* sequences under which transactions are recorded
    counted,       \* a ledger's own record is there, with sequence OpCount
    scan,          \* the three scans
    recovery,      \* the recovery under way: where, gaps to come, total, failures
    tried          \* history: the ledgers of the gaps tried by this recovery

gapVars == <<rows, filed, counted, scan, recovery, tried>>

-----------------------------------------------------------------------------

Ledgers == 1..LastLedger
Kinds == {"db", "idem", "lag"}

NoScan == [at |-> "off", lo |-> 1, hi |-> 1, gaps |-> {}]
NoRecovery == [at |-> "off", gaps |-> <<>>, total |-> 0, failures |-> 0]

Lowest(S) == CHOOSE x \in S : \A y \in S : x <= y
Highest(S) == CHOOSE x \in S : \A y \in S : y <= x

Covered(gaps) == UNION {g[1]..g[2] : g \in gaps}

\* Mutant: a single missing ledger is stepped over.
WalkSkipsSingles(seen, before, hi) ==
    {<<q[1] + 1, q[2] - 1>> : q \in
        {p \in (seen \union {before}) \X seen :
            p[2] > p[1] + 2 /\ \A c \in seen : ~(p[1] < c /\ c < p[2])}}

\* The walk over the sorted rows, which starts behind "before": a gap between
\* neighbours, and one behind the last row.
Walk(seen, before, hi) ==
    LET end == Highest(seen \union {before}) IN
    {<<q[1] + 1, q[2] - 1>> : q \in
        {p \in (seen \union {before}) \X seen :
            p[2] > p[1] + 1 /\ \A c \in seen : ~(p[1] < c /\ c < p[2])}}
    \union (IF end < hi THEN {<<end + 1, hi>>} ELSE {})

\* By start, then the longer one first.
Before(a, b) == a[1] < b[1] \/ (a[1] = b[1] /\ a[2] > b[2])

\* Mutant: of two overlapping gaps the later one's end is taken.
JoinTakesLater(merged, g) ==
    IF merged # <<>> /\ g[1] <= merged[Len(merged)][2] + 1
       THEN [merged EXCEPT ![Len(merged)][2] = g[2]]
       ELSE Append(merged, g)

Join(merged, g) ==
    IF merged # <<>> /\ g[1] <= merged[Len(merged)][2] + 1
       THEN [merged EXCEPT ![Len(merged)] = <<@[1], Highest({@[2], g[2]})>>]
       ELSE Append(merged, g)

Sorted(gaps) ==
    CHOOSE s \in [1..Cardinality(gaps) -> gaps] :
        /\ \A i, j \in DOMAIN s : i < j => Before(s[i], s[j])
        /\ gaps = {s[i] : i \in DOMAIN s}

\* What the loop over the sorted gaps has merged after each turn.
Merging(sorted) ==
    LET merged[i \in 0..Len(sorted)] ==
            IF i = 0 THEN <<>> ELSE Join(merged[i - 1], sorted[i])
    IN  merged

MergeGaps(gaps) == Merging(Sorted(gaps))[Cardinality(gaps)]

\* The ledgers in the first gaps, counted gap by gap.
Counting(gaps) ==
    LET total[i \in 0..Len(gaps)] ==
            IF i = 0 THEN 0 ELSE total[i - 1] + gaps[i][2] - gaps[i][1] + 1
    IN  total

TotalMissing(gaps) == Counting(gaps)[Len(gaps)]

Init ==
    /\ rows = {} /\ filed = {} /\ counted = FALSE
    /\ scan = [k \in Kinds |-> NoScan]
    /\ recovery = NoRecovery
    /\ tried = {}

(* The indexer: rows and records come one at a time and are never deleted *)

Store(s) ==
    /\ rows' = rows \union {s}
    /\ UNCHANGED <<filed, counted, scan, recovery, tried>>

FileTransactions(s) ==
    /\ Cardinality(filed) < MaxFiled
    /\ filed' = filed \union {s}
    /\ UNCHANGED <<rows, counted, scan, recovery, tried>>

FileLedger ==
    /\ counted' = TRUE
    /\ UNCHANGED <<rows, filed, scan, recovery, tried>>

(* The scans *)

Sequences(k) ==
    IF k = "idem" THEN filed \union (IF counted THEN {OpCount} ELSE {}) ELSE rows

Count(k) ==
    IF k = "idem" THEN TxPerLedger * Cardinality(filed) + (IF counted THEN 1 ELSE 0)
                  ELSE Cardinality(rows)

\* detectGapsFromDb and detectGapsFromIdempotency: MIN, MAX and COUNT
ReadRange(k) ==
    /\ scan[k].at = "range"
    /\ LET S == Sequences(k)
           whole == S = {} \/ Count(k) >= Highest(S) - Lowest(S) + 1
       IN  scan' = [scan EXCEPT ![k] =
               [at |-> IF whole THEN "done" ELSE "rows", gaps |-> {},
                lo |-> IF S = {} THEN 1 ELSE Lowest(S),
                hi |-> IF S = {} THEN 1 ELSE Highest(S)]]
    /\ UNCHANGED <<rows, filed, counted, recovery, tried>>

\* The ledgers are read without bounds, the records between the bounds.
ReadRows(k) ==
    /\ scan[k].at = "rows"
    /\ LET S == IF k = "db" THEN rows
                ELSE {s \in Sequences(k) : scan[k].lo <= s /\ s <= scan[k].hi}
           before == IF k = "lag" THEN scan[k].lo - 1 ELSE scan[k].lo
       IN  scan' = [scan EXCEPT ![k].at = "done",
                                ![k].gaps = Walk(S, before, scan[k].hi)]
    /\ UNCHANGED <<rows, filed, counted, recovery, tried>>

\* detectGapsFromHorizonLag: nothing is asked for a lag of one ledger.  It has
\* nothing in common with a recovery, so each is explored by itself (a bound).
DetectLag(last) ==
    /\ scan["lag"].at \in {"off", "done"}
    /\ recovery.at = "off" /\ scan["db"].at = "off"
    /\ scan' = [scan EXCEPT !["lag"] =
           [at |-> IF HorizonSeq - Settled - last <= 1 THEN "done" ELSE "count",
            lo |-> last + 1, hi |-> HorizonSeq - Settled, gaps |-> {}]]
    /\ UNCHANGED <<rows, filed, counted, recovery, tried>>

CountLag ==
    /\ scan["lag"].at = "count"
    /\ LET present == {s \in rows : scan["lag"].lo <= s /\ s <= scan["lag"].hi}
           whole == Cardinality(present) >= scan["lag"].hi - scan["lag"].lo + 1
       IN  scan' = [scan EXCEPT !["lag"].at = IF whole THEN "done" ELSE "rows"]
    /\ UNCHANGED <<rows, filed, counted, recovery, tried>>

(* generateReport and recoverMissingLedgers *)

\* Promise.all starts both scans.
Recover ==
    /\ recovery.at = "off" /\ scan["lag"].at = "off"
    /\ scan' = [scan EXCEPT !["db"] = [NoScan EXCEPT !.at = "range"],
                            !["idem"] = [NoScan EXCEPT !.at = "range"]]
    /\ recovery' = [NoRecovery EXCEPT !.at = "scan"]
    /\ tried' = {}
    /\ UNCHANGED <<rows, filed, counted>>

Merge ==
    /\ recovery.at = "scan"
    /\ scan["db"].at = "done" /\ scan["idem"].at = "done"
    /\ LET gaps == MergeGaps(scan["db"].gaps \union scan["idem"].gaps) IN
          recovery' = [at |-> "recover", gaps |-> gaps, total |-> TotalMissing(gaps),
                       failures |-> 0]
    /\ UNCHANGED <<rows, filed, counted, scan, tried>>

\* Mutant: the first failure ends the recovery.
AfterFailureStop(r) == [r EXCEPT !.gaps = <<>>, !.failures = @ + 1]

\* A failure is noted and the next gap is taken up.
AfterFailure(r) == [r EXCEPT !.gaps = Tail(@), !.failures = @ + 1]

\* backfillLedgers has returned or thrown; what it stored, it stored by the
\* indexer's own steps, and it may return with ledgers left out.
RecoverGap ==
    /\ recovery.at = "recover" /\ recovery.gaps # <<>>
    /\ tried' = tried \union recovery.gaps[1][1]..recovery.gaps[1][2]
    /\ \/ recovery' = [recovery EXCEPT !.gaps = Tail(@)]
       \/ recovery' = AfterFailure(recovery)
    /\ UNCHANGED <<rows, filed, counted, scan>>

Recovered ==
    /\ recovery.at = "recover" /\ recovery.gaps = <<>>
    /\ recovery' = [recovery EXCEPT !.at = "off"]
    /\ UNCHANGED <<rows, filed, counted, scan, tried>>

\* A statement of a scan or of the report is lost: the report is rejected, and
\* a recovery with it.  A scan that runs on is looked at by nobody.
ScanFails(k) ==
    /\ IF k = "lag"
       THEN /\ scan[k].at \notin {"off", "done"}
            /\ scan' = [scan EXCEPT ![k] = NoScan]
            /\ UNCHANGED recovery
       ELSE /\ recovery.at = "scan"
            /\ scan' = [scan EXCEPT !["db"] = NoScan, !["idem"] = NoScan]
            /\ recovery' = NoRecovery
    /\ UNCHANGED <<rows, filed, counted, tried>>

Next ==
    \/ \E s \in Ledgers : Store(s) \/ FileTransactions(s)
    \/ FileLedger
    \/ \E k \in Kinds : ReadRange(k) \/ ReadRows(k) \/ ScanFails(k)
    \/ \E last \in Ledgers : DetectLag(last)
    \/ CountLag \/ Recover \/ Merge \/ RecoverGap \/ Recovered

Spec == Init /\ [][Next]_gapVars

-----------------------------------------------------------------------------

Gaps == {g \in Nat \X Nat : g[1] <= g[2]}

TypeOK ==
    /\ rows \subseteq Ledgers /\ filed \subseteq Ledgers /\ counted \in BOOLEAN
    /\ scan \in [Kinds -> [at : {"off", "range", "count", "rows", "done"},
                           lo : Nat, hi : Int, gaps : SUBSET Gaps]]
    /\ recovery \in [at : {"off", "scan", "recover"}, gaps : Seq(Gaps),
                     total : Nat, failures : Nat]
    /\ tried \subseteq Nat

\* A scan of the ledgers that has ended names every ledger that is still
\* missing between its bounds, whatever was stored between its statements.  A
\* lag of one ledger is the exception.
HolesFound ==
    \A k \in {"db", "lag"} :
       scan[k].at = "done" /\ scan[k].hi > scan[k].lo =>
          \A s \in scan[k].lo..scan[k].hi : s \in rows \/ s \in Covered(scan[k].gaps)

\* A recovery that was not cut short by a failed scan has tried each ledger
\* that either scan named once it ends, whatever failed in between, and the
\* total it announced counts each of them once.
EveryGapTried ==
    recovery.at = "off" /\ scan["db"].at = "done" =>
       LET named == Covered(scan["db"].gaps \union scan["idem"].gaps) IN
          tried = named /\ recovery.total = Cardinality(named)

=============================================================================

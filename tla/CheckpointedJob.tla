--------------------------- MODULE CheckpointedJob ---------------------------
(***************************************************************************)
(* What a backfill job and its checkpoint promise, without workers,        *)
(* batches, signals or crashes: a position in the job's range that only    *)
(* passes ledgers which are stored or were given up, as long as the        *)
(* checkpoint is clean (reports no failed ledger), and a job that is       *)
(* finished only at the end of its range.                                  *)
(***************************************************************************)
EXTENDS Integers

CONSTANTS Start, End

Ledgers == Start..End

VARIABLES
    stored,      \* ledgers in the database
    givenUp,     \* ledgers a run left out
    position,    \* last_processed_sequence, Start - 1 before the first
    clean,       \* failed_count is 0
    finished     \* status is completed

vars == <<stored, givenUp, position, clean, finished>>

Init ==
    /\ stored = {} /\ givenUp = {}
    /\ position = Start - 1
    /\ clean = TRUE /\ finished = FALSE

Ingest(s) ==
    /\ stored' = stored \union {s}
    /\ UNCHANGED <<givenUp, position, clean, finished>>

\* Write the checkpoint, possibly giving up ledgers with it.
Record(p, S) ==
    /\ givenUp' = givenUp \union S
    /\ position' = p
    /\ clean' \in BOOLEAN /\ finished' \in BOOLEAN
    /\ clean' => Start..p \subseteq stored \union givenUp'
    /\ finished' => p = End
    /\ UNCHANGED stored

Next ==
    \/ \E s \in Ledgers : Ingest(s)
    \/ \E p \in Start - 1..End, S \in SUBSET Ledgers : Record(p, S)

Spec == Init /\ [][Next]_vars
=============================================================================

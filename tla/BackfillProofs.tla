--------------------------- MODULE BackfillProofs ---------------------------
(***************************************************************************)
(* Theorems about Backfill, for every range, pool size, batch size and     *)
(* number of runs.                                                         *)
(***************************************************************************)
EXTENDS Backfill, FiniteSetTheorems, TLAPS

USE RangeAssumption, PoolAssumption, BoundAssumption

\* The end of a batch lies in the job's range.
LEMMA BatchEndRange ==
    ASSUME batchStart \in Start..End + 1
    PROVE  /\ BatchEnd \in Ledgers
           /\ batchStart <= End => batchStart <= BatchEnd
BY DEF BatchEnd, Ledgers

\* The settled results of a batch can be counted.
LEMMA SettledFinite ==
    ASSUME NEW outcome, batchStart \in Start..End + 1
    PROVE  /\ IsFiniteSet(Settled(outcome, Batch))
           /\ Cardinality(Settled(outcome, Batch)) \in Nat
           /\ Cardinality(Settled(outcome, Batch)) = 0 <=> Settled(outcome, Batch) = {}
<1>1. IsFiniteSet(Batch)
  BY BatchEndRange, FS_Interval DEF Batch, Ledgers
<1>2. Settled(outcome, Batch) \subseteq Batch
  BY DEF Settled
<1>3. IsFiniteSet(Settled(outcome, Batch))
  BY <1>1, <1>2, FS_Subset
<1> QED
  BY <1>3, FS_CardinalityType, FS_EmptySet

-----------------------------------------------------------------------------

\* Every step preserves the types.
LEMMA TypeStep == TypeOK /\ [Next]_vars => TypeOK'
<1> SUFFICES ASSUME TypeOK, [Next]_vars PROVE TypeOK'
  OBVIOUS
<1> USE DEF TypeOK
<1>1. ASSUME NEW m \in Modes, NEW c \in Concurrencies, StartRun(m, c) PROVE TypeOK'
  <2>1. NoResult \in [returned : BOOLEAN, resumeFrom : Positions]
    BY DEF NoResult, Positions
  <2>2. Zero \in Tallies
    BY DEF Zero, Tallies
  <2>3. runs' \in 0..MaxRuns
    BY <1>1 DEF StartRun
  <2>4. batchStart' \in Start..End + 1 /\ resumeFrom' \in Start..End + 1
    BY <1>1 DEF StartRun
  <2>5. results' \in [Ledgers -> {"none", "processed", "skipped", "failed"}]
    BY <1>1 DEF StartRun
  <2>6. lastFailed' \in Positions
    BY <1>1 DEF StartRun, Positions
  <2>7. main' \in {"stopped", "load", "create", "loop", "pool", "save", "finish"}
    BY <1>1 DEF StartRun
  <2> QED
    BY <1>1, <2>1, <2>2, <2>3, <2>4, <2>5, <2>6, <2>7 DEF StartRun
<1>2. CASE LoadCheckpoint
  <2>1. checkpoint.last # NoSeq => checkpoint.last + 1 \in Start..End + 1
    BY DEF Positions, Ledgers, NoSeq
  <2> QED
    BY <1>2, <2>1 DEF LoadCheckpoint, dbVars, poolVars, ResumePoint, ResumeTally
<1>3. CASE CreateCheckpoint
  BY <1>3 DEF CreateCheckpoint, Upsert, runVars, poolVars
<1>4. CASE BeginBatch
  BY <1>4 DEF BeginBatch, dbVars, runVars, Ready, Off, Positions, NoSeq, Busy
<1>5. CASE CancelAtBatch
  <2>1. batchStart - 1 \in Positions \union {Start - 1}
    BY DEF Positions, Ledgers
  <2> QED
    BY <1>5, <2>1 DEF CancelAtBatch, CancelPosition, Marked, runVars, poolVars, Ledgers
<1>6. CASE TallyBatch
  <2>1. \A o \in {"processed", "skipped", "failed"} :
           Cardinality(Settled(o, Batch)) \in Nat
    BY SettledFinite
  <2>2. tally' \in Tallies
    BY <1>6, <2>1 DEF TallyBatch, Tallies
  <2>3. \A o : Settled(o, Batch) \subseteq Ledgers
    BY BatchEndRange DEF Settled, Batch, Ledgers
  <2>4. lastFailed' \in Positions
    BY <1>6, <2>3 DEF TallyBatch, Positions
  <2>5. dropped' \in SUBSET Ledgers
    BY <1>6, <2>3 DEF TallyBatch
  <2> QED
    BY <1>6, <2>2, <2>4, <2>5 DEF TallyBatch, dbVars, runVars, poolVars
<1>7. CASE SaveCheckpoint
  BY <1>7, BatchEndRange DEF SaveCheckpoint, Marked, runVars, poolVars, Ledgers, Positions
<1>8. CASE FinishRun
  BY <1>8 DEF FinishRun, Marked, runVars, poolVars, Ledgers, Positions
<1>9. ASSUME NEW w \in Workers, WorkerStep(w) PROVE TypeOK'
  <2> USE DEF workerUnchanged, runVars
  <2>1. CASE TakeNext(w)
    <3>1. nextSeq \in Ledgers
      BY <2>1, BatchEndRange DEF TakeNext, Ledgers
    <3> QED
      BY <2>1, <3>1 DEF TakeNext, Advanced, Busy, Positions, Ledgers
  <2>2. CASE LeavePool(w)
    BY <2>2 DEF LeavePool, Off, Positions, Busy
  <2>3. CASE SkipIndexed(w)
    BY <2>3 DEF SkipIndexed, Settle, Ready, Positions, Busy
  <2>4. CASE NotIndexed(w)
    BY <2>4 DEF NotIndexed, Goto, Busy
  <2>5. CASE Fetched(w)
    BY <2>5 DEF Fetched, Goto, Busy
  <2>6. CASE Commit(w)
    BY <2>6 DEF Commit, Written, Settle, Ready, Positions, Busy
  <2>7. CASE Fail(w)
    BY <2>7 DEF Fail, Settle, Ready, Positions, Busy
  <2>8. CASE CommitUnheard(w)
    BY <2>8 DEF CommitUnheard, Written, Settle, Ready, Positions, Busy
  <2> QED
    BY <1>9, <2>1, <2>2, <2>3, <2>4, <2>5, <2>6, <2>7, <2>8 DEF WorkerStep
<1>10. CASE Abort
  BY <1>10 DEF Abort, dbVars, poolVars
<1>11. CASE Die
  BY <1>11 DEF Die, dbVars, runVars, Off, Positions, NoSeq, Busy
<1>12. ASSUME NEW s \in Ledgers, LiveIndex(s) PROVE TypeOK'
  BY <1>12 DEF LiveIndex, runVars, poolVars
<1>13. CASE UNCHANGED vars
  BY <1>13 DEF vars
<1> QED
  BY <1>1, <1>2, <1>3, <1>4, <1>5, <1>6, <1>7, <1>8, <1>9, <1>10, <1>11, <1>12, <1>13
     DEF Next, MainStep, Rest

\* Type correctness of the whole system, whatever fails and whenever.
THEOREM TypeCorrect == Spec => []TypeOK
<1>1. Init => TypeOK
  <2>1. NoResult \in [returned : BOOLEAN, resumeFrom : Positions]
    BY DEF NoResult, Positions
  <2>2. Zero \in Tallies
    BY DEF Zero, Tallies
  <2>3. NoRow \in [status : {"none"}, last : Positions, tally : Tallies]
    BY <2>2 DEF NoRow, Positions
  <2>4. Off \in [pc : {"off"}, seq : Positions]
    BY DEF Off, Positions
  <2>5. Start \in Start..End + 1
    OBVIOUS
  <2> SUFFICES ASSUME Init PROVE TypeOK
    OBVIOUS
  <2>6. /\ ledgers \in [Ledgers -> {"absent", "filtered", "whole"}]
        /\ results \in [Ledgers -> {"none", "processed", "skipped", "failed"}]
    BY DEF Init
  <2>7. /\ worker \in [Workers -> [pc : {"off", "ready"} \union Busy, seq : Positions]]
        /\ \A w \in Workers : worker[w].pc \notin Busy
    BY <2>4 DEF Init, Busy
  <2>8. checkpoint \in [status : {"none", "in_progress", "cancelled", "failed", "completed"},
                        last : Positions \union {Start - 1}, tally : Tallies]
    BY <2>3 DEF Init
  <2>9. runs \in 0..MaxRuns /\ dropped \in SUBSET Ledgers
    BY DEF Init
  <2> QED
    BY <2>1, <2>2, <2>5, <2>6, <2>7, <2>8, <2>9 DEF Init, TypeOK, Positions, Modes
<1> QED
  BY <1>1, TypeStep, PTL DEF Spec

-----------------------------------------------------------------------------

\* No step takes a stored ledger away: what is accounted for stays so.
LEMMA StoredStays ==
    ASSUME TypeOK, [Next]_vars, NEW s \in Ledgers
    PROVE  /\ Stored(s) => Stored(s)'
           /\ Accounted(s) => Accounted(s)'
<1> USE DEF TypeOK, Stored, Accounted
<1>1. ASSUME NEW w \in Workers, WorkerStep(w)
      PROVE  /\ Stored(s) => Stored(s)'
             /\ dropped' = dropped
  BY <1>1 DEF WorkerStep, TakeNext, LeavePool, SkipIndexed, NotIndexed, Fetched, Commit,
              Fail, CommitUnheard, Written, workerUnchanged
<1>2. ASSUME MainStep
      PROVE  ledgers' = ledgers /\ dropped \subseteq dropped'
  BY <1>2 DEF MainStep, LoadCheckpoint, CreateCheckpoint, BeginBatch, CancelAtBatch,
              TallyBatch, SaveCheckpoint, FinishRun, dbVars
<1>3. ASSUME NEW r \in Ledgers, LiveIndex(r)
      PROVE  /\ Stored(s) => Stored(s)'
             /\ dropped' = dropped
  BY <1>3 DEF LiveIndex
<1>4. ASSUME \/ \E m \in Modes, c \in Concurrencies : StartRun(m, c)
             \/ Abort \/ Die \/ Rest \/ UNCHANGED vars
      PROVE  ledgers' = ledgers /\ dropped' = dropped
  BY <1>4 DEF StartRun, Abort, Die, Rest, vars, dbVars
<1> QED
  BY <1>1, <1>2, <1>3, <1>4 DEF Next

\* The history of ledgers given up only grows.
LEMMA DroppedGrows == [Next]_vars => dropped \subseteq dropped'
<1>1. ASSUME NEW w \in Workers, WorkerStep(w) PROVE dropped' = dropped
  BY <1>1 DEF WorkerStep, TakeNext, LeavePool, SkipIndexed, NotIndexed, Fetched, Commit,
              Fail, CommitUnheard, workerUnchanged
<1>2. ASSUME MainStep PROVE dropped \subseteq dropped'
  BY <1>2 DEF MainStep, LoadCheckpoint, CreateCheckpoint, BeginBatch, CancelAtBatch,
              TallyBatch, SaveCheckpoint, FinishRun
<1>3. ASSUME \/ \E m \in Modes, c \in Concurrencies : StartRun(m, c)
             \/ \E s \in Ledgers : LiveIndex(s)
             \/ Abort \/ Die \/ Rest \/ UNCHANGED vars
      PROVE  dropped' = dropped
  BY <1>3 DEF StartRun, LiveIndex, Abort, Die, Rest, vars
<1> QED
  BY <1>1, <1>2, <1>3 DEF Next

\* The inductive step of CleanInv.
LEMMA CleanStep == TypeOK /\ CleanInv /\ [Next]_vars => CleanInv'
<1> SUFFICES ASSUME TypeOK, CleanInv, [Next]_vars PROVE CleanInv'
  OBVIOUS
<1>t. TypeOK'
  BY TypeStep
<1>s. \A s \in Ledgers : /\ Stored(s) => Stored(s)'
                         /\ Accounted(s) => Accounted(s)'
  BY StoredStays
<1>c. /\ checkpoint.last \in Int /\ checkpoint.last <= End
      /\ Start..checkpoint.last \subseteq Ledgers
      /\ checkpoint.tally.failed \in Nat /\ tally.failed \in Nat
      /\ batchStart \in Start..End + 1
  BY DEF TypeOK, Positions, Ledgers, NoSeq, Tallies
<1>b. BatchEnd \in Ledgers /\ Reached \in Start..End + 1
  BY BatchEndRange, <1>c DEF Reached, Ledgers
\* a step that leaves the process's position and the checkpoint alone
<1>u. ASSUME checkpoint' = checkpoint,
             main' \in {main, "stopped"} \/ {main, main'} = {"loop", "pool"},
             UNCHANGED <<mode, tally, batchStart>>,
             Pooled => \A s \in Ledgers :
               results'[s] \in {"processed", "skipped"} => Stored(s)'
      PROVE  CleanInv'
  <2>1. CleanCheckpoint'
    BY <1>s, <1>c, <1>u DEF CleanInv, CleanCheckpoint
  <2>2. InRun' => InRun /\ Reached' = Reached
    BY <1>u DEF InRun, Reached, BatchEnd
  <2>3. (Pooled /\ InRun /\ tally.failed = 0 =>
           \A s \in Start..Reached - 1 : Accounted(s))'
    BY <1>s, <1>b, <1>u, <2>2 DEF CleanInv, Pooled, Ledgers
  <2>4. dropped \subseteq dropped'
    BY DroppedGrows
  <2> QED
    BY <1>u, <2>1, <2>3, <2>4 DEF CleanInv, Pooled, Fresh
<1>1. ASSUME NEW m \in Modes, NEW c \in Concurrencies, StartRun(m, c) PROVE CleanInv'
  <2>1. CleanCheckpoint'
    BY <1>1, <1>s, <1>c DEF StartRun, CleanInv, CleanCheckpoint
  <2>2. InRun' => ~Pooled'
    BY <1>1 DEF StartRun, InRun, Pooled
  <2>3. \A s \in Ledgers : results'[s] = "none"
    BY <1>1 DEF StartRun
  <2>4. (Fresh => batchStart = Start)' /\ main' # "finish"
    BY <1>1 DEF StartRun, Fresh
  <2> QED
    BY <2>1, <2>2, <2>3, <2>4 DEF CleanInv
<1>2. CASE LoadCheckpoint
  <2> USE DEF LoadCheckpoint, dbVars, poolVars
  <2>1. CleanCheckpoint' /\ UNCHANGED <<ledgers, dropped, results, mode>>
    BY <1>2 DEF CleanInv, CleanCheckpoint, Accounted, Stored
  <2>2. (Pooled /\ InRun /\ tally.failed = 0 =>
           \A s \in Start..Reached - 1 : Accounted(s))'
    <3> SUFFICES ASSUME InRun', tally'.failed = 0, NEW s \in Start..Reached' - 1
                 PROVE  Accounted(s)'
      BY <2>1 DEF Reached
    <3>1. main' = "loop" /\ batchStart' = checkpoint.last + 1 /\ tally' = checkpoint.tally
      BY <1>2 DEF InRun, ResumePoint, ResumeTally
    <3>2. s \in Start..checkpoint.last
      BY <1>c, <3>1 DEF Reached
    <3> QED
      BY <1>s, <1>c, <3>1, <3>2 DEF CleanInv, CleanCheckpoint
  <2>3. main' # "finish" /\ (Fresh => batchStart = Start)'
    BY <1>2 DEF CleanInv, Fresh
  <2> QED
    BY <2>1, <2>2, <2>3 DEF CleanInv, Pooled, Stored
<1>3. CASE CreateCheckpoint
  <2> USE DEF CreateCheckpoint, Upsert, runVars, poolVars
  <2>1. CleanCheckpoint' /\ UNCHANGED <<ledgers, dropped, results, mode>>
    BY <1>3 DEF CleanInv, CleanCheckpoint, Accounted, Stored, TypeOK
  <2>2. main' = "loop" /\ Reached' = Start
    BY <1>3 DEF CleanInv, Reached, Fresh
  <2> QED
    BY <2>1, <2>2 DEF CleanInv, Pooled, Stored, Fresh
<1>4. CASE BeginBatch
  BY <1>4, <1>u DEF BeginBatch, dbVars, runVars, CleanInv, Stored
<1>5. CASE CancelAtBatch
  <2> USE DEF CancelAtBatch, runVars, poolVars
  <2>1. /\ UNCHANGED <<ledgers, results, mode, tally, batchStart>>
        /\ main = "loop" /\ main' = "finish"
        /\ Reached = batchStart /\ Reached' = batchStart
    BY <1>5 DEF Reached
  <2>2. CASE Pooled
    <3>1. checkpoint' = Marked("cancelled", batchStart - 1)
          /\ dropped' = dropped \union batchStart..End
      BY <1>5, <2>2 DEF CancelPosition
    <3>2. tally.failed = 0 => \A s \in Start..batchStart - 1 : Accounted(s)'
      BY <1>s, <1>c, <2>1, <2>2 DEF CleanInv, InRun, Ledgers
    <3>3. CleanCheckpoint'
      BY <3>1, <3>2 DEF CleanCheckpoint, Marked
    <3> QED
      BY <2>1, <2>2, <3>1, <3>2, <3>3 DEF CleanInv, Pooled, Fresh, Stored
  <2>3. CASE ~Pooled
    <3>1. CleanCheckpoint' /\ ~Pooled'
      BY <1>5, <2>3, <1>s, <1>c DEF CleanInv, CleanCheckpoint, Pooled
    <3> QED
      BY <2>1, <3>1 DEF CleanInv, Fresh
  <2> QED
    BY <2>2, <2>3
<1>6. CASE TallyBatch
  <2> USE DEF TallyBatch, dbVars, runVars, poolVars
  <2>1. /\ UNCHANGED <<ledgers, results, mode, checkpoint, batchStart>>
        /\ main = "pool" /\ main' = "save"
        /\ Reached = batchStart /\ Reached' = BatchEnd + 1
    BY <1>6 DEF Reached, BatchEnd
  <2>2. CleanCheckpoint'
    BY <1>s, <1>c, <2>1 DEF CleanInv, CleanCheckpoint
  <2>3. ASSUME Pooled, tally'.failed = 0, NEW s \in Start..BatchEnd
        PROVE  Accounted(s)'
    <3>1. tally.failed = 0 /\ Settled("failed", Batch) = {}
      BY <1>6, <1>c, <2>3, SettledFinite
    <3>2. s \in Ledgers
      BY <1>b DEF Ledgers
    <3>3. CASE s \in Start..batchStart - 1
      BY <1>s, <2>1, <2>3, <3>1, <3>2, <3>3 DEF CleanInv, InRun
    <3>4. CASE s \in Batch
      <4>1. results[s] # "failed"
        BY <3>1, <3>4 DEF Settled
      <4>2. results[s] = "none" => s \in dropped'
        BY <1>6, <2>3, <3>4 DEF Settled
      <4>3. results[s] \in {"processed", "skipped"} => Stored(s)'
        BY <1>s, <2>3, <3>2 DEF CleanInv
      <4> QED
        BY <3>2, <4>1, <4>2, <4>3 DEF TypeOK, Accounted
    <3> QED
      BY <1>b, <1>c, <2>3, <3>3, <3>4 DEF Batch, Ledgers
  <2> QED
    BY <2>1, <2>2, <2>3, <1>b DEF CleanInv, Pooled, Fresh, Stored, Ledgers
<1>7. CASE SaveCheckpoint
  <2> USE DEF SaveCheckpoint, runVars, poolVars
  <2>1. /\ UNCHANGED <<ledgers, results, mode, tally, dropped>>
        /\ main = "save" /\ main' = "loop"
        /\ Reached = BatchEnd + 1 /\ Reached' = BatchEnd + 1
    BY <1>7 DEF Reached
  <2>2. Pooled /\ tally.failed = 0 => \A s \in Start..BatchEnd : Accounted(s)'
    BY <1>s, <1>b, <2>1 DEF CleanInv, InRun, Ledgers
  <2>3. CASE Pooled
    <3>1. CleanCheckpoint'
      BY <1>7, <2>2, <2>3 DEF CleanCheckpoint, Marked
    <3> QED
      BY <2>1, <2>2, <3>1, <1>b DEF CleanInv, Pooled, Fresh, Stored, Ledgers
  <2>4. CASE ~Pooled
    <3>1. CleanCheckpoint' /\ ~Pooled'
      BY <1>7, <2>4, <1>s, <1>c DEF CleanInv, CleanCheckpoint, Pooled
    <3> QED
      BY <2>1, <3>1 DEF CleanInv, Fresh
  <2> QED
    BY <2>3, <2>4
<1>8. CASE FinishRun
  <2> USE DEF FinishRun, runVars, poolVars
  <2>1. /\ UNCHANGED <<ledgers, results, mode, tally, dropped, batchStart>>
        /\ main' = "stopped" /\ main \in {"loop", "finish"}
        /\ Reached = batchStart
    BY <1>8 DEF Reached
  <2>2. Pooled /\ tally.failed = 0 => \A s \in Start..End : Accounted(s)'
    <3> SUFFICES ASSUME Pooled, tally.failed = 0, NEW s \in Start..End
                 PROVE  Accounted(s)
      BY <1>s DEF Ledgers
    <3>1. s < batchStart => Accounted(s)
      BY <1>c, <2>1 DEF CleanInv, InRun
    <3>2. main = "finish" /\ s >= batchStart => Accounted(s)
      BY <1>c DEF CleanInv, Accounted
    <3> QED
      BY <1>8, <1>c, <3>1, <3>2
  <2>3. CleanCheckpoint'
    BY <1>8, <1>s, <1>c, <2>2 DEF CleanInv, CleanCheckpoint, Marked
  <2> QED
    BY <2>1, <2>3 DEF CleanInv, Pooled, InRun, Fresh, Stored
<1>9. ASSUME NEW w \in Workers, WorkerStep(w) PROVE CleanInv'
  <2>1. /\ UNCHANGED <<checkpoint, main, mode, tally, batchStart>>
    BY <1>9 DEF WorkerStep, TakeNext, LeavePool, SkipIndexed, NotIndexed, Fetched, Commit,
                Fail, CommitUnheard, workerUnchanged, runVars
  <2>2. ASSUME Pooled, NEW s \in Ledgers, results'[s] \in {"processed", "skipped"}
        PROVE  Stored(s)'
    <3>1. CASE results' = results
      BY <1>s, <2>2, <3>1 DEF CleanInv
    <3>2. CASE SkipIndexed(w)
      BY <1>s, <2>2, <3>2 DEF SkipIndexed, Settle, CleanInv, TypeOK, Stored
    <3>3. CASE Commit(w)
      BY <1>s, <2>2, <3>3 DEF Commit, Settle, CleanInv, TypeOK, Stored, Written, Busy
    <3>4. CASE Fail(w) \/ CommitUnheard(w)
      BY <1>s, <2>2, <3>4 DEF Fail, CommitUnheard, Settle, CleanInv, TypeOK, Busy
    <3> QED
      BY <1>9, <3>1, <3>2, <3>3, <3>4 DEF WorkerStep, TakeNext, LeavePool, NotIndexed, Fetched
  <2> QED
    BY <1>u, <2>1, <2>2
<1>10. CASE Abort
  BY <1>10, <1>u, <1>s DEF Abort, dbVars, poolVars, CleanInv
<1>11. CASE Die
  BY <1>11, <1>u, <1>s DEF Die, dbVars, runVars, CleanInv
<1>12. ASSUME NEW s \in Ledgers, LiveIndex(s) PROVE CleanInv'
  BY <1>12, <1>u, <1>s DEF LiveIndex, runVars, poolVars, CleanInv
<1>13. CASE UNCHANGED vars
  BY <1>13, <1>u, <1>s DEF vars, CleanInv
<1> QED
  BY <1>1, <1>2, <1>3, <1>4, <1>5, <1>6, <1>7, <1>8, <1>9, <1>10, <1>11, <1>12, <1>13
     DEF Next, MainStep, Rest

\* A checkpoint that reports no failure stands behind no missing ledger.
THEOREM CheckpointClean == Spec => []CleanCheckpoint
<1>1. Init => CleanInv
  BY DEF Init, CleanInv, CleanCheckpoint, NoRow, NoSeq, InRun, Fresh
<1> QED
  BY <1>1, CleanStep, TypeCorrect, PTL DEF Spec, CleanInv

-----------------------------------------------------------------------------

\* The three kinds of results of a batch are counted at most once.
LEMMA BatchSum ==
    ASSUME batchStart \in Start..End + 1
    PROVE  Cardinality(Settled("processed", Batch)) + Cardinality(Settled("skipped", Batch))
             + Cardinality(Settled("failed", Batch)) <= BatchEnd + 1 - batchStart
<1> DEFINE P == Settled("processed", Batch)
           S == Settled("skipped", Batch)
           F == Settled("failed", Batch)
<1>1. /\ IsFiniteSet(P) /\ IsFiniteSet(S) /\ IsFiniteSet(F)
      /\ Cardinality(P) \in Nat /\ Cardinality(S) \in Nat /\ Cardinality(F) \in Nat
  BY SettledFinite
<1>2. BatchEnd \in Int /\ batchStart \in Int /\ BatchEnd + 1 >= batchStart
  BY DEF BatchEnd
<1>3. IsFiniteSet(Batch) /\ Cardinality(Batch) = BatchEnd + 1 - batchStart
  <2>1. /\ IsFiniteSet(batchStart..BatchEnd)
        /\ Cardinality(batchStart..BatchEnd) =
             IF batchStart > BatchEnd THEN 0 ELSE BatchEnd - batchStart + 1
    BY <1>2, FS_Interval
  <2> QED
    BY <1>2, <2>1 DEF Batch
<1>4. P \cap S = {} /\ (P \union S) \cap F = {} /\ (P \union S) \union F \subseteq Batch
  BY DEF Settled
<1> HIDE DEF P, S, F
<1>e. Cardinality(P \cap S) = 0 /\ Cardinality((P \union S) \cap F) = 0
  BY <1>4, FS_EmptySet, Zenon
<1>5. IsFiniteSet(P \union S) /\ Cardinality(P \union S) = Cardinality(P) + Cardinality(S)
  <2>1. /\ IsFiniteSet(P \union S)
        /\ Cardinality(P \union S) = Cardinality(P) + Cardinality(S) - Cardinality(P \cap S)
    BY <1>1, FS_Union
  <2> QED
    BY <1>1, <1>e, <2>1
<1>6. Cardinality((P \union S) \union F) = Cardinality(P) + Cardinality(S) + Cardinality(F)
  <2>1. Cardinality((P \union S) \union F) =
          Cardinality(P \union S) + Cardinality(F) - Cardinality((P \union S) \cap F)
    BY <1>1, <1>5, FS_Union
  <2> QED
    BY <1>1, <1>5, <1>e, <2>1
<1>7. Cardinality((P \union S) \union F) <= Cardinality(Batch)
  BY <1>3, <1>4, FS_Subset
<1> QED
  BY <1>3, <1>6, <1>7 DEF P, S, F

\* The inductive step of TallyInv.
LEMMA TallyStep == TypeOK /\ TallyInv /\ [Next]_vars => TallyInv'
<1> SUFFICES ASSUME TypeOK, TallyInv, [Next]_vars PROVE TallyInv'
  OBVIOUS
<1>c. /\ checkpoint.last \in Int /\ checkpoint.last <= End
      /\ checkpoint.last # NoSeq => checkpoint.last >= Start - 1
      /\ checkpoint.tally \in Tallies /\ tally \in Tallies
      /\ batchStart \in Start..End + 1
      /\ BatchEnd \in Start..End
  BY BatchEndRange DEF TypeOK, Positions, Ledgers, NoSeq
<1>s. TallySum(tally) \in Nat /\ TallySum(checkpoint.tally) \in Nat /\ TallySum(Zero) = 0
  BY <1>c DEF TallySum, Tallies, Zero
\* a step that leaves tally, position and checkpoint alone
<1>u. ASSUME UNCHANGED <<checkpoint, tally, batchStart, mode>>,
             main' \in {main, "stopped"} \/ {main, main'} = {"loop", "pool"}
      PROVE  TallyInv'
  <2>1. InRun' => InRun /\ Reached' = Reached
    BY <1>u DEF InRun, Reached, BatchEnd
  <2> QED
    BY <1>u, <2>1 DEF TallyInv, TallyWithinPosition, Fresh, Pooled
\* a step that marks the row of the running job
<1>m. ASSUME NEW p \in Int, Pooled, TallySum(tally) <= p + 1 - Start, p >= Start - 1,
             checkpoint'.last = p, checkpoint'.tally = tally
      PROVE  checkpoint'.status # "none" =>
               TallySum(checkpoint'.tally) <=
                 (IF checkpoint'.last = NoSeq THEN 0 ELSE checkpoint'.last - Start + 1)
  BY <1>m, <1>s DEF NoSeq
<1>1. ASSUME NEW m \in Modes, NEW c \in Concurrencies, StartRun(m, c) PROVE TallyInv'
  <2>1. checkpoint' = checkpoint /\ tally' = Zero /\ batchStart' = Start
        /\ main' \in {"loop", "load"} /\ (main' = "loop" => ~Pooled')
    BY <1>1 DEF StartRun, Pooled
  <2> QED
    BY <2>1, <1>s DEF TallyInv, TallyWithinPosition, InRun, Fresh, Reached
<1>2. CASE LoadCheckpoint
  <2> USE DEF LoadCheckpoint, dbVars, poolVars, ResumePoint, ResumeTally
  <2>1. CASE main' = "loop"
    <3>1. /\ batchStart' = checkpoint.last + 1 /\ tally' = checkpoint.tally
          /\ checkpoint' = checkpoint
          /\ checkpoint.status # "none" /\ checkpoint.last # NoSeq
      BY <1>2, <2>1
    <3>2. TallySum(checkpoint.tally) <= checkpoint.last + 1 - Start
      BY <3>1, <1>c, <1>s DEF TallyInv, TallyWithinPosition
    <3> QED
      BY <1>c, <2>1, <3>1, <3>2 DEF TallyInv, TallyWithinPosition, Fresh, Reached
  <2>2. CASE main' = "create"
    BY <1>2, <2>2 DEF TallyInv, TallyWithinPosition, Fresh, InRun
  <2> QED
    BY <1>2, <2>1, <2>2
<1>3. CASE CreateCheckpoint
  <2>1. /\ checkpoint'.status = "in_progress" /\ checkpoint'.last = checkpoint.last
        /\ checkpoint'.tally = checkpoint.tally
        /\ main' = "loop" /\ batchStart' = Start /\ tally' = Zero
    BY <1>3 DEF CreateCheckpoint, Upsert, runVars, TypeOK, TallyInv, Fresh
  <2>2. TallySum(checkpoint.tally) <=
          (IF checkpoint.last = NoSeq THEN 0 ELSE checkpoint.last - Start + 1)
    <3>1. CASE checkpoint.status = "none"
      BY <3>1, <1>s DEF TallyInv, NoRow
    <3> QED
      BY <3>1 DEF TallyInv, TallyWithinPosition
  <2> QED
    BY <2>1, <2>2, <1>s DEF TallyInv, TallyWithinPosition, Fresh, Reached
<1>4. CASE BeginBatch
  BY <1>4, <1>u DEF BeginBatch, dbVars, runVars
<1>5. CASE CancelAtBatch
  <2>1. TallySum(tally) <= batchStart - Start /\ main' = "finish"
        /\ UNCHANGED <<tally, batchStart>>
    BY <1>5 DEF CancelAtBatch, TallyInv, TallyWithinPosition, InRun, Reached
  <2>2. CASE Pooled
    <3>1. checkpoint' = Marked("cancelled", batchStart - 1)
      BY <1>5, <2>2 DEF CancelAtBatch, CancelPosition
    <3> QED
      BY <2>1, <2>2, <3>1, <1>m, <1>c
         DEF Marked, TallyInv, TallyWithinPosition, Fresh, Reached
  <2>3. CASE ~Pooled
    BY <1>5, <2>1, <2>3
       DEF CancelAtBatch, TallyInv, TallyWithinPosition, Fresh, Reached, Pooled, runVars
  <2> QED
    BY <2>2, <2>3
<1>6. CASE TallyBatch
  <2>1. /\ UNCHANGED <<checkpoint, batchStart, mode>> /\ main = "pool" /\ main' = "save"
        /\ TallySum(tally) <= batchStart - Start
    BY <1>6 DEF TallyBatch, dbVars, runVars, TallyInv, TallyWithinPosition, InRun, Reached
  <2>2. TallySum(tally') <= BatchEnd + 1 - Start
    <3> DEFINE P == Cardinality(Settled("processed", Batch))
               S == Cardinality(Settled("skipped", Batch))
               F == Cardinality(Settled("failed", Batch))
    <3>1. P \in Nat /\ S \in Nat /\ F \in Nat /\ P + S + F <= BatchEnd + 1 - batchStart
      BY <1>c, SettledFinite, BatchSum
    <3>2. tally' = [processed |-> tally.processed + P, skipped |-> tally.skipped + S,
                    failed |-> tally.failed + F]
      BY <1>6 DEF TallyBatch
    <3> HIDE DEF P, S, F
    <3>3. TallySum(tally') = TallySum(tally) + P + S + F
      BY <1>c, <3>1, <3>2 DEF TallySum, Tallies
    <3> QED
      BY <1>c, <1>s, <2>1, <3>1, <3>3
  <2>3. Reached' = BatchEnd + 1
    BY <2>1 DEF Reached, BatchEnd
  <2>4. TallySum(tally)' <= Reached' - Start
    <3>1. TallySum(tally)' = TallySum(tally')
      BY DEF TallySum
    <3> QED
      BY <1>c, <1>s, <2>2, <2>3, <3>1
  <2> QED
    BY <2>1, <2>4 DEF TallyInv, TallyWithinPosition, Fresh, InRun, Pooled
<1>7. CASE SaveCheckpoint
  <2>1. /\ main = "save" /\ main' = "loop" /\ batchStart' = BatchEnd + 1
        /\ tally' = tally /\ mode' = mode
    BY <1>7 DEF SaveCheckpoint, runVars
  <2>2. Reached = BatchEnd + 1 /\ Reached' = BatchEnd + 1 /\ InRun
    BY <2>1 DEF Reached, InRun
  <2>3. TallySum(tally) <= BatchEnd + 1 - Start
    <3>1. TallySum(tally) <= Reached - Start
      BY <2>2 DEF TallyInv, TallyWithinPosition
    <3> QED
      BY <1>c, <1>s, <2>2, <3>1
  <2>4. (InRun => TallySum(tally) <= Reached - Start)'
    <3>1. TallySum(tally)' = TallySum(tally)
      BY <2>1 DEF TallySum
    <3> QED
      BY <1>c, <1>s, <2>2, <2>3, <3>1
  <2>5. CASE Pooled
    <3>1. checkpoint' = Marked(checkpoint.status, BatchEnd)
      BY <1>7, <2>5 DEF SaveCheckpoint
    <3>2. /\ checkpoint'.status # "none" /\ checkpoint'.last = BatchEnd
          /\ checkpoint'.tally = tally
      BY <2>2, <2>5, <3>1 DEF Marked, TallyInv
    <3>3. BatchEnd \in Int /\ BatchEnd >= Start - 1
      BY <1>c
    <3>4. TallySum(checkpoint'.tally) <=
            (IF checkpoint'.last = NoSeq THEN 0 ELSE checkpoint'.last - Start + 1)
      BY <2>3, <2>5, <3>2, <3>3, <1>m
    <3> QED
      BY <2>1, <2>4, <3>2, <3>4 DEF TallyInv, TallyWithinPosition, Fresh, TallySum
  <2>6. CASE ~Pooled
    <3>1. checkpoint' = checkpoint /\ ~Pooled'
      BY <1>7, <2>1, <2>6 DEF SaveCheckpoint, Pooled
    <3> QED
      BY <2>1, <2>4, <3>1 DEF TallyInv, TallyWithinPosition, Fresh, TallySum
  <2> QED
    BY <2>5, <2>6
<1>8. CASE FinishRun
  <2>1. /\ main \in {"loop", "finish"} /\ main' = "stopped"
        /\ tally' = tally /\ mode' = mode
    BY <1>8 DEF FinishRun, runVars
  <2>2. ~InRun' /\ ~Fresh'
    BY <2>1 DEF InRun, Fresh
  <2>3. CASE Pooled
    <3>1. checkpoint' \in {Marked("failed", End), Marked("completed", End)}
      BY <1>8, <2>3 DEF FinishRun
    <3>2. /\ checkpoint'.status # "none" /\ checkpoint'.last = End
          /\ checkpoint'.tally = tally
      BY <3>1 DEF Marked
    <3>3. TallySum(tally) <= batchStart - Start
      BY <2>1 DEF TallyInv, TallyWithinPosition, InRun, Reached
    <3>4. TallySum(tally) <= End + 1 - Start
      BY <3>3, <1>c, <1>s
    <3>5. TallySum(checkpoint'.tally) <=
            (IF checkpoint'.last = NoSeq THEN 0 ELSE checkpoint'.last - Start + 1)
      BY <2>3, <3>2, <3>4, <1>m
    <3> QED
      BY <2>2, <3>2, <3>5 DEF TallyInv, TallyWithinPosition, TallySum
  <2>4. CASE ~Pooled
    <3>1. checkpoint' = checkpoint
      BY <1>8, <2>4 DEF FinishRun
    <3> QED
      BY <2>2, <3>1 DEF TallyInv, TallyWithinPosition, TallySum
  <2> QED
    BY <2>3, <2>4
<1>9. ASSUME NEW w \in Workers, WorkerStep(w) PROVE TallyInv'
  BY <1>9, <1>u DEF WorkerStep, TakeNext, LeavePool, SkipIndexed, NotIndexed, Fetched, Commit,
                    Fail, CommitUnheard, workerUnchanged, runVars
<1>10. CASE Abort
  BY <1>10, <1>u DEF Abort, dbVars
<1>11. CASE Die
  BY <1>11, <1>u DEF Die, dbVars, runVars
<1>12. ASSUME NEW s \in Ledgers, LiveIndex(s) PROVE TallyInv'
  BY <1>12, <1>u DEF LiveIndex, runVars
<1>13. CASE UNCHANGED vars
  BY <1>13, <1>u DEF vars
<1> QED
  BY <1>1, <1>2, <1>3, <1>4, <1>5, <1>6, <1>7, <1>8, <1>9, <1>10, <1>11, <1>12, <1>13
     DEF Next, MainStep, Rest

\* What a run reports, and what a later run resumes with, never exceeds the
\* ledgers its position has passed.
THEOREM TallyBounded == Spec => []TallyWithinPosition
<1>1. Init => TallyInv
  BY DEF Init, TallyInv, TallyWithinPosition, NoRow, InRun, Fresh
<1> QED
  BY <1>1, TallyStep, TypeCorrect, PTL DEF Spec, TallyInv

-----------------------------------------------------------------------------
(***************************************************************************)
(* The worker pool, runWithConcurrency: no ledger is taken twice, and only *)
(* a signal makes a batch end with ledgers nobody tried.                   *)
(***************************************************************************)

\* Outside the pool every worker is off.
LEMMA OffOutside ==
    ASSUME TypeOK, PoolInv, main # "pool", NEW w \in Workers
    PROVE  worker[w].pc = "off"
BY DEF PoolInv

\* The inductive step of PoolInv.
LEMMA PoolStep == TypeOK /\ PoolInv /\ [Next]_vars => PoolInv'
<1> SUFFICES ASSUME TypeOK, PoolInv, [Next]_vars PROVE PoolInv'
  OBVIOUS
<1>c. /\ batchStart \in Start..End + 1 /\ nextSeq \in Start..End + 1
      /\ BatchEnd \in Start..End
      /\ batchStart <= End => BatchEnd >= batchStart
  BY BatchEndRange DEF TypeOK, Ledgers, BatchEnd
<1>d. BatchEnd' = BatchEnd \/ batchStart' # batchStart
  BY DEF BatchEnd
\* a step after which no worker is at work
<1>o. ASSUME \A w \in Workers : worker'[w].pc \notin Busy
      PROVE  /\ NoLedgerTwice'
             /\ \A w \in Workers : worker'[w].pc \in Busy => worker'[w].seq \in batchStart'..nextSeq' - 1
  BY <1>o DEF NoLedgerTwice
<1>b. \A w \in Workers : worker[w].pc = "off" => worker[w].pc \notin Busy
  BY DEF Busy
<1>1. ASSUME NEW m \in Modes, NEW c \in Concurrencies, StartRun(m, c) PROVE PoolInv'
  <2>1. /\ main = "stopped" /\ main' \in {"load", "loop"} /\ batchStart' = Start
        /\ results' = [s \in Ledgers |-> "none"] /\ worker' = worker
    BY <1>1 DEF StartRun
  <2>2. \A w \in Workers : worker'[w].pc = "off"
    BY <2>1, OffOutside
  <2>3. \A s \in batchStart'..End : results'[s] = "none"
    BY <2>1 DEF Ledgers
  <2> QED
    BY <1>o, <1>b, <2>1, <2>2, <2>3 DEF PoolInv, Fresh, Busy
<1>2. CASE LoadCheckpoint
  <2>1. /\ main = "load" /\ main' \in {"create", "loop"}
        /\ UNCHANGED <<worker, results>>
    BY <1>2 DEF LoadCheckpoint, poolVars
  <2>2. \A w \in Workers : worker'[w].pc = "off"
    BY <2>1, OffOutside
  <2>3. batchStart = Start /\ \A s \in Start..End : results[s] = "none"
    BY <2>1 DEF PoolInv, Fresh
  <2>4. batchStart' \in Start..End + 1 /\ (Fresh' => batchStart' = Start)
    <3>1. batchStart' \in Start..End + 1
      BY TypeStep DEF TypeOK
    <3>2. main' = "create" => batchStart' = batchStart
      BY <1>2 DEF LoadCheckpoint
    <3> QED
      BY <2>1, <2>3, <3>1, <3>2 DEF Fresh
  <2>5. \A s \in batchStart'..End : results'[s] = "none"
    <3>1. batchStart'..End \subseteq Start..End
      BY <2>4
    <3> QED
      BY <2>1, <2>3, <3>1
  <2> QED
    BY <1>o, <2>1, <2>2, <2>4, <2>5 DEF PoolInv, Busy
<1>3. CASE CreateCheckpoint
  <2>1. /\ main = "create" /\ main' = "loop"
        /\ UNCHANGED <<worker, results, batchStart>>
    BY <1>3 DEF CreateCheckpoint, poolVars
  <2>2. \A w \in Workers : worker'[w].pc = "off"
    BY <2>1, OffOutside
  <2> QED
    BY <1>o, <2>1, <2>2 DEF PoolInv, Fresh, Busy
<1>4. CASE BeginBatch
  <2>1. /\ main = "loop" /\ main' = "pool" /\ batchStart <= End
        /\ nextSeq' = batchStart /\ UNCHANGED <<results, batchStart>>
    BY <1>4 DEF BeginBatch
  <2>2. \A w \in Workers : worker'[w].pc \notin Busy
    BY <1>4 DEF BeginBatch, Off, Ready, Busy
  <2>3. nextSeq' \in batchStart'..BatchEnd' + 1
    BY <1>c, <1>d, <2>1
  <2> QED
    BY <1>o, <2>1, <2>2, <2>3 DEF PoolInv, Fresh
<1>5. CASE CancelAtBatch
  <2>1. main = "loop" /\ main' = "finish" /\ worker' = worker
    BY <1>5 DEF CancelAtBatch, poolVars
  <2>2. \A w \in Workers : worker'[w].pc = "off"
    BY <2>1, OffOutside
  <2> QED
    BY <1>o, <2>1, <2>2 DEF PoolInv, Fresh, Busy
<1>6. CASE TallyBatch
  <2>1. /\ main = "pool" /\ main' = "save"
        /\ \A w \in Workers : worker[w].pc = "off"
        /\ UNCHANGED <<results, worker, batchStart>>
    BY <1>6 DEF TallyBatch, poolVars
  <2>2. batchStart <= End /\ nextSeq \in batchStart..BatchEnd + 1
        /\ \A s \in nextSeq..End : results[s] = "none"
    BY <2>1 DEF PoolInv
  <2>3. \A s \in BatchEnd' + 1..End : results'[s] = "none"
    BY <1>c, <1>d, <2>1, <2>2
  <2> QED
    BY <1>o, <2>1, <2>2, <2>3 DEF PoolInv, Fresh, Busy
<1>7. CASE SaveCheckpoint
  <2>1. /\ main = "save" /\ main' = "loop" /\ batchStart' = BatchEnd + 1
        /\ UNCHANGED <<results, worker>>
    BY <1>7 DEF SaveCheckpoint, poolVars
  <2>2. \A w \in Workers : worker'[w].pc = "off"
    BY <2>1, OffOutside
  <2>3. \A s \in batchStart'..End : results'[s] = "none"
    BY <2>1 DEF PoolInv
  <2> QED
    BY <1>o, <2>1, <2>2, <2>3 DEF PoolInv, Fresh, Busy
<1>8. CASE FinishRun
  <2>1. main # "pool" /\ main' = "stopped" /\ worker' = worker
    BY <1>8 DEF FinishRun, poolVars
  <2>2. \A w \in Workers : worker'[w].pc = "off"
    BY <2>1, OffOutside
  <2> QED
    BY <1>o, <2>1, <2>2 DEF PoolInv, Fresh, Busy
<1>9. ASSUME NEW w \in Workers, WorkerStep(w) PROVE PoolInv'
  <2>1. UNCHANGED <<main, batchStart>> /\ worker[w].pc # "off"
    BY <1>9 DEF WorkerStep, TakeNext, LeavePool, SkipIndexed, NotIndexed, Fetched, Commit,
                Fail, CommitUnheard, workerUnchanged
  <2>2. /\ main = "pool" /\ main' = "pool" /\ batchStart <= End /\ BatchEnd' = BatchEnd
        /\ nextSeq \in batchStart..BatchEnd + 1
        /\ \A s \in nextSeq..End : results[s] = "none"
        /\ \A v \in Workers : worker[v].pc \in Busy => worker[v].seq \in batchStart..nextSeq - 1
        /\ NoLedgerTwice
    BY <2>1, <1>d DEF PoolInv
  \* the worker only leaves, or moves to the next await of its task
  <2>m. ASSUME UNCHANGED <<nextSeq, results>>,
               \A v \in Workers : worker'[v].pc \in Busy =>
                 worker[v].pc \in Busy /\ worker'[v].seq = worker[v].seq
        PROVE  PoolInv'
    BY <2>1, <2>2, <2>m DEF PoolInv, Fresh, NoLedgerTwice
  \* the worker settles its task
  <2>s. ASSUME NEW o, Settle(w, o), worker[w].pc \in Busy, nextSeq' = nextSeq
        PROVE  PoolInv'
    <3>1. /\ results' = [results EXCEPT ![worker[w].seq] = o]
          /\ worker' = [worker EXCEPT ![w] = Ready]
          /\ worker[w].seq \in Ledgers /\ worker[w].seq < nextSeq
          /\ Ready.pc \notin Busy
      BY <1>c, <2>s, <2>2 DEF Settle, TypeOK, Ready, Busy
    <3>2. \A v \in Workers : worker'[v].pc \in Busy =>
            v # w /\ worker[v].pc \in Busy /\ worker'[v].seq = worker[v].seq
      BY <3>1 DEF TypeOK
    <3>3. \A s \in nextSeq..End : results'[s] = "none"
      BY <1>c, <2>2, <3>1 DEF TypeOK, Ledgers
    <3>4. \A v \in Workers : worker'[v].pc \in Busy => results'[worker'[v].seq] = "none"
      BY <2>s, <2>2, <3>1, <3>2 DEF NoLedgerTwice, TypeOK
    <3>5. NoLedgerTwice'
      BY <2>2, <3>2, <3>4 DEF NoLedgerTwice
    <3> QED
      BY <2>s, <2>1, <2>2, <3>2, <3>3, <3>5 DEF PoolInv, Fresh
  <2>3. CASE TakeNext(w)
    <3>1. /\ worker[w].pc = "ready" /\ nextSeq <= BatchEnd /\ nextSeq' = nextSeq + 1
          /\ worker' = [worker EXCEPT ![w] = [pc |-> "check", seq |-> nextSeq]]
          /\ results' = results
      BY <2>3 DEF TakeNext, Advanced
    <3>2. \A v \in Workers \ {w} : worker'[v] = worker[v]
      BY <3>1 DEF TypeOK
    <3>3. worker'[w].seq = nextSeq /\ results[nextSeq] = "none"
      <4>0. worker'[w] = [pc |-> "check", seq |-> nextSeq]
        BY <3>1 DEF TypeOK
      <4>1. worker'[w].seq = nextSeq
        BY <4>0
      <4>2. nextSeq \in nextSeq..End
        BY <1>c, <3>1
      <4> QED
        BY <2>2, <4>1, <4>2
    <3>4. \A v \in Workers \ {w} : worker[v].pc \in Busy => worker[v].seq < nextSeq
      BY <1>c, <2>2
    <3>5. NoLedgerTwice'
      <4>1. \A v \in Workers : worker'[v].pc \in Busy => results'[worker'[v].seq] = "none"
        BY <2>2, <3>1, <3>2, <3>3 DEF NoLedgerTwice
      <4>2. \A v \in Workers \ {w} : worker'[v].pc \in Busy => worker'[v].seq # worker'[w].seq
        BY <1>c, <3>2, <3>3, <3>4
      <4>3. \A v, u \in Workers \ {w} :
              worker'[v].pc \in Busy /\ worker'[u].pc \in Busy /\ v # u =>
                worker'[v].seq # worker'[u].seq
        BY <2>2, <3>2 DEF NoLedgerTwice
      <4> QED
        BY <4>1, <4>2, <4>3 DEF NoLedgerTwice
    <3>6. \A v \in Workers : worker'[v].pc \in Busy => worker'[v].seq \in batchStart..nextSeq' - 1
      BY <1>c, <2>2, <3>1, <3>2, <3>3
    <3>7. nextSeq' \in batchStart..BatchEnd + 1 /\ \A s \in nextSeq'..End : results'[s] = "none"
      BY <1>c, <2>2, <3>1
    <3> QED
      BY <2>1, <2>2, <3>5, <3>6, <3>7 DEF PoolInv, Fresh
  <2>4. CASE LeavePool(w)
    BY <2>4, <2>m DEF LeavePool, Off, Busy, TypeOK
  <2>5. CASE NotIndexed(w) \/ Fetched(w)
    BY <2>5, <2>m DEF NotIndexed, Fetched, Goto, Busy, TypeOK
  <2>6. CASE SkipIndexed(w) \/ Commit(w) \/ Fail(w) \/ CommitUnheard(w)
    <3>1. worker[w].pc \in Busy /\ nextSeq' = nextSeq
      BY <2>6 DEF SkipIndexed, Commit, Fail, CommitUnheard, Busy
    <3> QED
      BY <2>6, <3>1, <2>s DEF SkipIndexed, Commit, Fail, CommitUnheard
  <2> QED
    BY <1>9, <2>3, <2>4, <2>5, <2>6 DEF WorkerStep
<1>10. CASE Abort
  BY <1>10, <1>d DEF Abort, poolVars, PoolInv, Fresh, NoLedgerTwice
<1>11. CASE Die
  <2>1. main' = "stopped" /\ \A w \in Workers : worker'[w].pc = "off"
    BY <1>11 DEF Die, Off
  <2> QED
    BY <1>o, <2>1 DEF PoolInv, Fresh, Busy
<1>12. ASSUME NEW s \in Ledgers, LiveIndex(s) PROVE PoolInv'
  BY <1>12, <1>d DEF LiveIndex, poolVars, PoolInv, Fresh, NoLedgerTwice
<1>13. CASE UNCHANGED vars
  BY <1>13, <1>d DEF vars, PoolInv, Fresh, NoLedgerTwice
<1> QED
  BY <1>1, <1>2, <1>3, <1>4, <1>5, <1>6, <1>7, <1>8, <1>9, <1>10, <1>11, <1>12, <1>13
     DEF Next, MainStep, Rest

\* No two workers ever hold the same ledger.
THEOREM LedgerTakenOnce == Spec => []NoLedgerTwice
<1>1. Init => PoolInv
  BY DEF Init, PoolInv, NoLedgerTwice, Fresh, Off, Busy
<1> QED
  BY <1>1, PoolStep, TypeCorrect, PTL DEF Spec, PoolInv

-----------------------------------------------------------------------------

\* The inductive step of HoleInv, on top of PoolInv.
LEMMA HoleStep == TypeOK /\ PoolInv /\ HoleInv /\ [Next]_vars => HoleInv'
<1> SUFFICES ASSUME TypeOK, PoolInv, HoleInv, [Next]_vars PROVE HoleInv'
  OBVIOUS
<1>c. /\ batchStart \in Start..End + 1 /\ nextSeq \in Start..End + 1
      /\ BatchEnd \in Start..End
      /\ batchStart <= End => BatchEnd >= batchStart
  BY BatchEndRange DEF TypeOK, Ledgers, BatchEnd
<1>w. concurrency \in Nat /\ (concurrency > 0 => 1 \in Workers)
  <2>1. concurrency \in Concurrencies /\ concurrency \in Nat
    BY DEF TypeOK
  <2>2. concurrency > 0 => 1 \in 1..concurrency
    BY <2>1
  <2> QED
    BY <2>1, <2>2 DEF Workers
\* a step that neither enters nor is inside the pool or its aftermath
<1>u. ASSUME main' \notin {"pool", "save"} PROVE HoleInv'
  BY <1>u DEF HoleInv, OnlyAbortLeavesHoles
<1>e. ASSUME UNCHANGED <<main, concurrency, batchStart, nextSeq, results, worker>>,
             aborted' = aborted \/ aborted' = TRUE
      PROVE  HoleInv'
  BY <1>e DEF HoleInv, OnlyAbortLeavesHoles, Settled, Batch, BatchEnd
<1>1. ASSUME NEW m \in Modes, NEW c \in Concurrencies, StartRun(m, c) PROVE HoleInv'
  BY <1>1, <1>u DEF StartRun
<1>2. CASE LoadCheckpoint \/ CreateCheckpoint \/ CancelAtBatch \/ SaveCheckpoint \/ FinishRun
  BY <1>2, <1>u DEF LoadCheckpoint, CreateCheckpoint, CancelAtBatch, SaveCheckpoint, FinishRun
<1>3. CASE BeginBatch
  <2>1. /\ main' = "pool" /\ nextSeq' = batchStart /\ batchStart' = batchStart
        /\ batchStart <= End
        /\ worker' = [w \in Workers |-> IF w <= concurrency /\ w <= Cardinality(Batch)
                                        THEN Ready ELSE Off]
        /\ UNCHANGED concurrency
    BY <1>3 DEF BeginBatch, runVars
  <2>2. Cardinality(Batch) >= 1
    <3>1. Cardinality(batchStart..BatchEnd) = BatchEnd - batchStart + 1
      BY <1>c, <2>1, FS_Interval
    <3> QED
      BY <1>c, <2>1, <3>1 DEF Batch
  <2>3. concurrency > 0 => worker'[1].pc # "off"
    BY <1>w, <2>1, <2>2 DEF Ready
  <2>5. concurrency = 0 => \A w \in Workers : worker'[w].pc = "off"
    <3>1. \A w \in Workers : w \in Nat \ {0}
      BY DEF Workers
    <3> QED
      BY <2>1, <3>1 DEF Off
  <2>4. batchStart'..nextSeq' - 1 = {}
    BY <1>c, <2>1
  <2> QED
    BY <2>1, <2>3, <2>4, <2>5 DEF HoleInv, OnlyAbortLeavesHoles
<1>4. CASE TallyBatch
  <2>1. /\ main = "pool" /\ main' = "save"
        /\ \A w \in Workers : worker[w].pc = "off"
        /\ UNCHANGED <<aborted, concurrency, batchStart, results>>
    BY <1>4 DEF TallyBatch, runVars, poolVars
  <2>5. concurrency = 0 => \A s \in Batch : results[s] = "none"
    <3> SUFFICES ASSUME concurrency = 0, NEW s \in Batch PROVE results[s] = "none"
      OBVIOUS
    <3>1. nextSeq = batchStart
      BY <2>1 DEF HoleInv
    <3>2. s \in nextSeq..End
      BY <1>c, <3>1 DEF Batch
    <3> QED
      BY <2>1, <3>2 DEF PoolInv
  <2>2. ~aborted /\ concurrency > 0 => \A s \in Batch : results[s] # "none"
    <3> SUFFICES ASSUME ~aborted, concurrency > 0, NEW s \in Batch PROVE results[s] # "none"
      OBVIOUS
    <3>1. nextSeq > BatchEnd
      BY <1>w, <2>1 DEF HoleInv
    <3>2. s \in batchStart..nextSeq - 1
      BY <1>c, <3>1 DEF Batch
    <3> QED
      BY <2>1, <3>2 DEF HoleInv, Busy
  <2>3. Batch' = Batch
    BY <2>1 DEF Batch, BatchEnd
  <2>4. OnlyAbortLeavesHoles'
    BY <2>1, <2>2, <2>3, <2>5 DEF OnlyAbortLeavesHoles, Settled
  <2> QED
    BY <2>1, <2>4 DEF HoleInv
<1>5. ASSUME NEW w \in Workers, WorkerStep(w) PROVE HoleInv'
  <2>1. UNCHANGED <<main, aborted, concurrency, batchStart>> /\ worker[w].pc # "off"
    BY <1>5 DEF WorkerStep, TakeNext, LeavePool, SkipIndexed, NotIndexed, Fetched, Commit,
                Fail, CommitUnheard, workerUnchanged, runVars
  <2>2. main = "pool" /\ main' = "pool" /\ BatchEnd' = BatchEnd
    BY <2>1 DEF PoolInv, BatchEnd
  <2>p. concurrency > 0
    BY <1>w, <2>1, <2>2 DEF HoleInv
  <2> SUFFICES ASSUME ~aborted
               PROVE  /\ \A s \in batchStart..nextSeq' - 1 :
                           \/ results'[s] # "none"
                           \/ \E v \in Workers : worker'[v].pc \in Busy /\ worker'[v].seq = s
                      /\ worker'[1].pc = "off" => nextSeq' > BatchEnd
    BY <1>w, <2>1, <2>2, <2>p DEF HoleInv, OnlyAbortLeavesHoles
  <2>3. /\ \A s \in batchStart..nextSeq - 1 :
             \/ results[s] # "none"
             \/ \E v \in Workers : worker[v].pc \in Busy /\ worker[v].seq = s
        /\ worker[1].pc = "off" => nextSeq > BatchEnd
    BY <2>2, <2>p DEF HoleInv
  <2>o. \A v \in Workers \ {w} : worker'[v] = worker[v]
    BY <1>5 DEF WorkerStep, TakeNext, LeavePool, SkipIndexed, NotIndexed, Fetched, Commit,
                Fail, CommitUnheard, Goto, Settle, TypeOK
  <2>4. CASE TakeNext(w)
    <3>1. /\ worker[w].pc = "ready" /\ nextSeq' = nextSeq + 1 /\ results' = results
      BY <2>4 DEF TakeNext, Advanced
    <3>2. worker'[w] = [pc |-> "check", seq |-> nextSeq]
      BY <2>4 DEF TakeNext, TypeOK
    <3>3. worker'[w].pc \in Busy /\ worker'[w].seq = nextSeq
      BY <3>2 DEF Busy
    <3>4. worker[w].pc \notin Busy
      BY <3>1 DEF Busy
    <3>5. worker'[1].pc = "off" => nextSeq > BatchEnd
      BY <1>w, <2>p, <2>3, <2>o, <3>2
    <3>6. ASSUME NEW s \in batchStart..nextSeq' - 1
          PROVE  \/ results'[s] # "none"
                 \/ \E v \in Workers : worker'[v].pc \in Busy /\ worker'[v].seq = s
      <4>1. CASE s = nextSeq
        BY <3>3, <4>1
      <4>2. CASE s # nextSeq
        <5>1. s \in batchStart..nextSeq - 1
          BY <1>c, <3>1, <4>2
        <5> QED
          BY <2>3, <2>o, <3>1, <3>4, <5>1
      <4> QED
        BY <4>1, <4>2
    <3> QED
      BY <1>c, <3>1, <3>5, <3>6
  <2>5. CASE LeavePool(w)
    <3>1. /\ worker[w].pc \notin Busy /\ nextSeq > BatchEnd
          /\ UNCHANGED <<nextSeq, results>>
      BY <2>5 DEF LeavePool, Leaves, Busy
    <3> QED
      BY <2>3, <2>o, <3>1
  <2>6. CASE NotIndexed(w) \/ Fetched(w)
    <3>1. /\ worker[w].pc \in Busy /\ UNCHANGED <<nextSeq, results>>
      BY <2>6 DEF NotIndexed, Fetched, Busy
    <3>2. worker'[w].pc \in Busy /\ worker'[w].seq = worker[w].seq
      BY <2>6 DEF NotIndexed, Fetched, Goto, Busy, TypeOK
    <3>3. worker'[1].pc = "off" => worker[1].pc = "off"
      BY <1>w, <2>p, <2>o, <3>2 DEF Busy
    <3> QED
      BY <2>3, <2>o, <3>1, <3>2, <3>3
  <2>7. CASE SkipIndexed(w) \/ Commit(w) \/ Fail(w) \/ CommitUnheard(w)
    <3>1. nextSeq' = nextSeq /\ worker[w].pc \in Busy
      BY <2>7 DEF SkipIndexed, Commit, Fail, CommitUnheard, Busy
    <3>2. \E o \in {"processed", "skipped", "failed"} : Settle(w, o)
      BY <2>7 DEF SkipIndexed, Commit, Fail, CommitUnheard
    <3>3. worker[w].seq \in Ledgers
      BY <3>1 DEF TypeOK
    <3>4. /\ worker'[w].pc = "ready"
          /\ results'[worker[w].seq] # "none"
          /\ \A s \in Ledgers : results[s] # "none" => results'[s] # "none"
      BY <3>2, <3>3 DEF Settle, Ready, TypeOK
    <3>5. worker'[1].pc = "off" => worker[1].pc = "off"
      BY <1>w, <2>p, <2>o, <3>4
    <3>6. batchStart..nextSeq - 1 \subseteq Ledgers
      BY <1>c DEF Ledgers
    <3>7. ASSUME NEW s \in batchStart..nextSeq - 1, results[s] = "none"
          PROVE  \/ results'[s] # "none"
                 \/ \E v \in Workers : worker'[v].pc \in Busy /\ worker'[v].seq = s
      <4>1. PICK v \in Workers : worker[v].pc \in Busy /\ worker[v].seq = s
        BY <2>3, <3>7
      <4>2. CASE v = w
        BY <3>4, <4>1, <4>2
      <4>3. CASE v # w
        BY <2>o, <4>1, <4>3
      <4> QED
        BY <4>2, <4>3
    <3>8. ASSUME NEW s \in batchStart..nextSeq - 1, results[s] # "none"
          PROVE  results'[s] # "none"
      BY <3>4, <3>6, <3>8
    <3> QED
      BY <2>3, <3>1, <3>5, <3>7, <3>8
  <2> QED
    BY <1>5, <2>4, <2>5, <2>6, <2>7 DEF WorkerStep
<1>6. CASE Abort
  BY <1>6, <1>e DEF Abort, poolVars
<1>7. CASE Die
  BY <1>7, <1>u DEF Die
<1>8. ASSUME NEW s \in Ledgers, LiveIndex(s) PROVE HoleInv'
  BY <1>8, <1>e DEF LiveIndex, runVars, poolVars
<1>9. CASE UNCHANGED vars
  BY <1>9, <1>e DEF vars
<1> QED
  BY <1>1, <1>2, <1>3, <1>4, <1>5, <1>6, <1>7, <1>8, <1>9 DEF Next, MainStep, Rest

\* Without a signal every ledger of a batch has a result when the pool ends, if
\* the run has a worker; without one, none has.
THEOREM NoHolesWithoutAbort == Spec => []OnlyAbortLeavesHoles
<1>1. Init => PoolInv /\ HoleInv
  BY DEF Init, PoolInv, NoLedgerTwice, HoleInv, OnlyAbortLeavesHoles, Fresh, Off, Busy
<1> QED
  BY <1>1, PoolStep, HoleStep, TypeCorrect, PTL DEF Spec, HoleInv

-----------------------------------------------------------------------------
(***************************************************************************)
(* A resumed run never moves the checkpoint back, and Backfill implements  *)
(* CheckpointedJob.                                                        *)
(***************************************************************************)

workerQuiet == <<checkpoint, main, mode, resumeFrom, batchStart, tally>>

\* A worker's step leaves the run's position and the row alone.
LEMMA WorkerQuiet ==
    ASSUME NEW w \in Workers, WorkerStep(w)
    PROVE  UNCHANGED <<workerQuiet, dropped>>
BY DEF WorkerStep, TakeNext, LeavePool, SkipIndexed, NotIndexed, Fetched, Commit,
       Fail, CommitUnheard, workerUnchanged, runVars, workerQuiet

\* What a resumed run knows of the row it resumed from.
LEMMA RewindStep == TypeOK /\ RewindInv /\ [Next]_vars => RewindInv'
<1> SUFFICES ASSUME TypeOK, RewindInv, [Next]_vars PROVE RewindInv'
  OBVIOUS
<1>c. /\ checkpoint.last \in Int /\ checkpoint.last <= End
      /\ resumeFrom \in Start..End + 1 /\ batchStart \in Start..End + 1
      /\ BatchEnd \in Start..End
      /\ batchStart <= End => BatchEnd >= batchStart
  BY BatchEndRange DEF TypeOK, Positions, Ledgers, NoSeq, BatchEnd
<1>u. ASSUME UNCHANGED <<checkpoint, resumeFrom, batchStart>>,
             main' \in {main, "stopped"} \/ {main, main'} = {"loop", "pool"}
      PROVE  RewindInv'
  BY <1>u DEF RewindInv, Reached, InRun, Fresh, BatchEnd
<1>1. ASSUME NEW m \in Modes, NEW c \in Concurrencies, StartRun(m, c) PROVE RewindInv'
  BY <1>1 DEF StartRun, RewindInv, InRun, Fresh
<1>2. CASE LoadCheckpoint
  BY <1>2, <1>c DEF LoadCheckpoint, ResumePoint, RewindInv, Reached, InRun, Fresh, dbVars
<1>3. CASE CreateCheckpoint
  BY <1>3 DEF CreateCheckpoint, runVars, RewindInv, InRun, Fresh
<1>4. CASE BeginBatch
  BY <1>4, <1>u DEF BeginBatch, dbVars, runVars
<1>5. CASE CancelAtBatch
  <2>1. /\ main = "loop" /\ main' = "finish" /\ UNCHANGED <<resumeFrom, batchStart>>
        /\ checkpoint'.last = batchStart - 1 \/ checkpoint' = checkpoint
    BY <1>5 DEF CancelAtBatch, CancelPosition, Marked, runVars
  <2> QED
    BY <1>c, <2>1 DEF RewindInv, Reached, InRun, Fresh
<1>6. CASE TallyBatch
  <2>1. /\ main = "pool" /\ main' = "save" /\ UNCHANGED <<checkpoint, resumeFrom, batchStart>>
    BY <1>6 DEF TallyBatch, dbVars, runVars
  <2>2. Reached = batchStart /\ Reached' = BatchEnd + 1
    BY <2>1 DEF Reached, BatchEnd
  <2>3. BatchEnd + 1 >= batchStart
    BY DEF TypeOK, BatchEnd
  <2> QED
    BY <1>c, <2>1, <2>2, <2>3 DEF RewindInv, InRun, Fresh
<1>7. CASE SaveCheckpoint
  <2>1. /\ main = "save" /\ main' = "loop" /\ batchStart' = BatchEnd + 1
        /\ resumeFrom' = resumeFrom
        /\ checkpoint'.last = BatchEnd \/ checkpoint' = checkpoint
    BY <1>7 DEF SaveCheckpoint, Marked, runVars
  <2>2. Reached = BatchEnd + 1 /\ Reached' = BatchEnd + 1
    BY <2>1 DEF Reached
  <2> QED
    BY <1>c, <2>1, <2>2 DEF RewindInv, InRun, Fresh
<1>8. CASE FinishRun
  BY <1>8 DEF FinishRun, RewindInv, InRun, Fresh
<1>9. ASSUME NEW w \in Workers, WorkerStep(w) PROVE RewindInv'
  BY <1>9, <1>u, WorkerQuiet DEF workerQuiet
<1>10. CASE Abort
  BY <1>10, <1>u DEF Abort, dbVars
<1>11. CASE Die
  BY <1>11, <1>u DEF Die, dbVars, runVars
<1>12. ASSUME NEW s \in Ledgers, LiveIndex(s) PROVE RewindInv'
  BY <1>12, <1>u DEF LiveIndex, runVars
<1>13. CASE UNCHANGED vars
  BY <1>13, <1>u DEF vars
<1> QED
  BY <1>1, <1>2, <1>3, <1>4, <1>5, <1>6, <1>7, <1>8, <1>9, <1>10, <1>11, <1>12, <1>13
     DEF Next, MainStep, Rest

\* The only writes of a resumed run are the ones of its batches, its cancel
\* mark and its final mark; each lies at or past the stored position.
LEMMA NoRewind ==
    ASSUME TypeOK, RewindInv, [Next]_vars, resumeFrom > Start, InRun
    PROVE  checkpoint'.last >= checkpoint.last
<1>c. /\ checkpoint.last \in Int /\ checkpoint.last <= End
      /\ batchStart \in Start..End + 1 /\ BatchEnd \in Start..End
  BY BatchEndRange DEF TypeOK, Positions, Ledgers, NoSeq
<1>r. checkpoint.last < Reached
  BY DEF RewindInv
<1>u. ASSUME checkpoint' = checkpoint PROVE checkpoint'.last >= checkpoint.last
  BY <1>c, <1>u
<1>1. CASE CancelAtBatch
  <2>1. Reached = batchStart /\
        (checkpoint'.last = batchStart - 1 \/ checkpoint' = checkpoint)
    BY <1>1 DEF CancelAtBatch, CancelPosition, Marked, Reached
  <2> QED
    BY <1>c, <1>r, <2>1
<1>2. CASE SaveCheckpoint
  <2>1. Reached = BatchEnd + 1 /\
        (checkpoint'.last = BatchEnd \/ checkpoint' = checkpoint)
    BY <1>2 DEF SaveCheckpoint, Marked, Reached
  <2> QED
    BY <1>c, <1>r, <2>1
<1>3. CASE FinishRun
  <2>1. checkpoint'.last = End \/ checkpoint' = checkpoint
    BY <1>3 DEF FinishRun, Marked
  <2> QED
    BY <1>c, <2>1
<1>4. CASE LoadCheckpoint \/ CreateCheckpoint
  BY <1>4 DEF LoadCheckpoint, CreateCheckpoint, InRun
<1>5. CASE BeginBatch \/ TallyBatch
  BY <1>5, <1>u DEF BeginBatch, TallyBatch, dbVars
<1>6. ASSUME NEW w \in Workers, WorkerStep(w) PROVE checkpoint'.last >= checkpoint.last
  BY <1>6, <1>u, WorkerQuiet DEF workerQuiet
<1>7. ASSUME \/ \E m \in Modes, c \in Concurrencies : StartRun(m, c)
             \/ \E s \in Ledgers : LiveIndex(s)
             \/ Abort \/ Die \/ UNCHANGED vars
      PROVE  checkpoint'.last >= checkpoint.last
  BY <1>7, <1>u DEF StartRun, LiveIndex, Abort, Die, vars, dbVars
<1> QED
  BY <1>1, <1>2, <1>3, <1>4, <1>5, <1>6, <1>7 DEF Next, MainStep, Rest

\* A resumed run never moves the stored position back.
THEOREM NeverRewinds == Spec => ResumedRunNeverRewinds
<1>1. Init => RewindInv
  BY DEF Init, RewindInv, InRun, Fresh
<1>2. TypeOK /\ RewindInv /\ [Next]_vars =>
        [resumeFrom > Start /\ InRun => checkpoint'.last >= checkpoint.last]_vars
  BY NoRewind
<1> QED
  BY <1>1, <1>2, RewindStep, TypeCorrect, PTL DEF Spec, ResumedRunNeverRewinds

-----------------------------------------------------------------------------

\* The inductive step of StatusInv.
LEMMA StatusStep == TypeOK /\ StatusInv /\ [Next]_vars => StatusInv'
<1> SUFFICES ASSUME TypeOK, StatusInv, [Next]_vars PROVE StatusInv'
  OBVIOUS
<1>u. ASSUME UNCHANGED <<checkpoint, mode>>,
             main' \in {main, "stopped"} \/ {main, main'} \subseteq {"loop", "pool", "save"}
      PROVE  StatusInv'
  BY <1>u DEF StatusInv, Pooled
<1>1. ASSUME NEW m \in Modes, NEW c \in Concurrencies, StartRun(m, c) PROVE StatusInv'
  BY <1>1 DEF StartRun, StatusInv, Pooled
<1>2. CASE LoadCheckpoint
  BY <1>2 DEF LoadCheckpoint, dbVars, StatusInv
<1>3. CASE CreateCheckpoint
  <2>1. checkpoint'.status = "in_progress"
    BY <1>3 DEF CreateCheckpoint, Upsert, TypeOK
  <2> QED
    BY <2>1 DEF StatusInv
<1>4. CASE BeginBatch
  BY <1>4, <1>u DEF BeginBatch, dbVars, runVars
<1>5. CASE CancelAtBatch
  BY <1>5 DEF CancelAtBatch, Marked, runVars, StatusInv, Pooled
<1>6. CASE TallyBatch
  BY <1>6, <1>u DEF TallyBatch, dbVars, runVars
<1>7. CASE SaveCheckpoint
  BY <1>7 DEF SaveCheckpoint, Marked, runVars, StatusInv, Pooled
<1>8. CASE FinishRun
  BY <1>8 DEF FinishRun, Marked, runVars, StatusInv, Pooled
<1>9. ASSUME NEW w \in Workers, WorkerStep(w) PROVE StatusInv'
  BY <1>9, <1>u, WorkerQuiet DEF workerQuiet
<1>10. CASE Abort
  BY <1>10, <1>u DEF Abort, dbVars
<1>11. CASE Die
  BY <1>11, <1>u DEF Die, dbVars, runVars
<1>12. ASSUME NEW s \in Ledgers, LiveIndex(s) PROVE StatusInv'
  BY <1>12, <1>u DEF LiveIndex, runVars
<1>13. CASE UNCHANGED vars
  BY <1>13, <1>u DEF vars
<1> QED
  BY <1>1, <1>2, <1>3, <1>4, <1>5, <1>6, <1>7, <1>8, <1>9, <1>10, <1>11, <1>12, <1>13
     DEF Next, MainStep, Rest

\* The refinement mapping
StoredSet == {s \in Ledgers : Stored(s)}
Position == IF checkpoint.last = NoSeq THEN Start - 1 ELSE checkpoint.last
Clean == checkpoint.tally.failed = 0
Finished == checkpoint.status = "completed"

\* A step that stores nothing maps to Record, whatever it does to the row: the
\* invariants say that the new row keeps the job's promise.
LEMMA RecordStep ==
    ASSUME TypeOK, TypeOK', CleanInv', StatusInv', [Next]_vars, ledgers' = ledgers
    PROVE  Job!Next
<1>1. dropped' = dropped \union dropped' /\ dropped' \in SUBSET Ledgers
  BY DroppedGrows DEF TypeOK
<1>2. checkpoint'.last \in Start - 1..End \/ checkpoint'.last = NoSeq
  BY DEF TypeOK, Positions, Ledgers
<1>3. Position' \in Start - 1..End
  BY <1>2 DEF Position, NoSeq
<1>4. StoredSet' = StoredSet
  BY DEF StoredSet, Stored
<1>5. Clean' => Start..Position' \subseteq StoredSet \union dropped'
  <2> SUFFICES ASSUME Clean', NEW s \in Start..Position' PROVE s \in StoredSet \union dropped'
    OBVIOUS
  <2>1. checkpoint'.last # NoSeq /\ s \in Start..checkpoint'.last
    BY <1>2 DEF Position
  <2>2. s \in Ledgers
    BY <1>3, <2>1 DEF Position, Ledgers
  <2>3. (Accounted(s))'
    BY <2>1 DEF CleanInv, CleanCheckpoint, Clean
  <2> QED
    BY <1>4, <2>2, <2>3 DEF Accounted, StoredSet
<1>6. Finished' => Position' = End
  BY DEF StatusInv, Finished, Position, NoSeq
<1>7. Clean' \in BOOLEAN /\ Finished' \in BOOLEAN
  BY DEF Clean, Finished
<1>8. Job!Record(Position', dropped')
  BY <1>1, <1>4, <1>5, <1>6, <1>7
     DEF Job!Record, Position, Clean, Finished, StoredSet
<1> QED
  BY <1>1, <1>3, <1>8 DEF Job!Next, Job!Ledgers, Ledgers

\* A step that writes a ledger maps to Ingest, or stutters when some of the
\* ledger was stored before.
LEMMA IngestStep ==
    ASSUME TypeOK, NEW s \in Ledgers, NEW v \in {"filtered", "whole"},
           ledgers' = [ledgers EXCEPT ![s] = v], UNCHANGED <<checkpoint, dropped>>
    PROVE  Job!Next
<1>1. StoredSet' = StoredSet \union {s}
  BY DEF StoredSet, Stored, TypeOK
<1>2. UNCHANGED <<Position, Clean, Finished>>
  BY DEF Position, Clean, Finished
<1>3. Job!Ingest(s)
  BY <1>1, <1>2 DEF Job!Ingest, StoredSet, Position, Clean, Finished
<1> QED
  BY <1>3 DEF Job!Next, Job!Ledgers, Ledgers

\* The job implements the promise of its checkpoint.
THEOREM ImplementsJob == Spec => RefinesJob
<1>1. Init => Job!Init
  <2> SUFFICES ASSUME Init PROVE Job!Init
    OBVIOUS
  <2>1. {s \in Ledgers : Stored(s)} = {}
    BY DEF Init, Stored
  <2>2. checkpoint = NoRow /\ dropped = {}
    BY DEF Init
  <2> QED
    BY <2>1, <2>2 DEF Job!Init, NoRow, Zero, NoSeq
<1>2. Init => CleanInv /\ StatusInv
  BY DEF Init, CleanInv, CleanCheckpoint, StatusInv, NoRow, NoSeq, InRun, Fresh
<1>3. ASSUME TypeOK, TypeOK', CleanInv', StatusInv', [Next]_vars PROVE [Job!Next]_(Job!vars)
  <2>1. CASE ledgers' = ledgers
    BY <1>3, <2>1, RecordStep
  <2>2. CASE ledgers' # ledgers
    <3>1. ASSUME NEW w \in Workers, Commit(w) \/ CommitUnheard(w) PROVE Job!Next
      <4>1. /\ worker[w].seq \in Ledgers
            /\ ledgers' = [ledgers EXCEPT ![worker[w].seq] = Written(@, mode)]
            /\ UNCHANGED <<checkpoint, dropped>>
        BY <1>3, <2>2, <3>1 DEF Commit, CommitUnheard, workerUnchanged, TypeOK, Busy
      <4>2. Written(ledgers[worker[w].seq], mode) \in {"filtered", "whole"}
        BY DEF Written
      <4> QED
        BY <1>3, <4>1, <4>2, IngestStep
    <3>2. ASSUME NEW s \in Ledgers, LiveIndex(s) PROVE Job!Next
      BY <1>3, <3>2, IngestStep DEF LiveIndex
    <3>3. (\E w \in Workers : Commit(w) \/ CommitUnheard(w)) \/ (\E s \in Ledgers : LiveIndex(s))
      BY <1>3, <2>2 DEF Next, StartRun, MainStep, LoadCheckpoint, CreateCheckpoint, BeginBatch,
         CancelAtBatch, TallyBatch, SaveCheckpoint, FinishRun, WorkerStep, TakeNext, LeavePool,
         SkipIndexed, NotIndexed, Fetched, Fail, Abort, Die, Rest, vars, dbVars
    <3> QED
      BY <3>1, <3>2, <3>3
  <2> QED
    BY <2>1, <2>2
<1>4. Spec => [](TypeOK /\ CleanInv /\ StatusInv)
  BY <1>2, CleanStep, StatusStep, TypeCorrect, PTL DEF Spec
<1> QED
  BY <1>1, <1>3, <1>4, PTL DEF Spec, RefinesJob, Job!Spec

=============================================================================

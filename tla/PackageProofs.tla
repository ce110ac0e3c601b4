--------------------------- MODULE PackageProofs ---------------------------
(***************************************************************************)
(* Proofs about the parts of packages/indexer, for every value of the      *)
(* constants of PackageIndexer: each part has an inductive invariant of    *)
(* its own, and a step of the whole is a step or a stutter of each part.   *)
(***************************************************************************)
EXTENDS PackageIndexer, IdempotencyTrackerProofs, CountingLemmas,
        FiniteSetTheorems, SequenceTheorems

(* The indexer: what is lost, and what its state holds.                    *)

LedgerPoints == {"none", "check", "fetch", "insert", "bare", "full", "metrics", "stored", "threw"}

TaskType == task \in [L!Tasks -> LedgerPoints]

\* Two tasks never have their transactions on one ledger open together.
OneTransaction ==
    \A t, u \in L!Tasks :
        t[2] = u[2] /\ task[t] \in L!InTransaction /\ task[u] \in L!InTransaction => t = u

\* A mark that outlived its transaction is accounted for.
MarksExplained ==
    \A s \in marks :
        s \in txs \union withoutTx \/ \E t \in L!Tasks : t[2] = s /\ task[t] = "full"

\* A task that stores its ledger without the transaction: the transaction is
\* there, or the call knew that it would not be.
BareExplained ==
    \A t \in L!Tasks : task[t] = "bare" => t[2] \in txs \union withoutTx

LossInv == TaskType /\ OneTransaction /\ MarksExplained /\ BareExplained /\ L!LossExplained

-----------------------------------------------------------------------------

\* A task is the call of one origin for one ledger.
LEMMA TaskIs ==
    ASSUME NEW t \in L!Tasks
    PROVE  /\ t[1] \in {"stream", "batch"} /\ t[2] \in L!Ledgers
           /\ t = <<t[1], t[2]>>
BY DEF L!Tasks

\* A task is made of an origin and a ledger.
LEMMA IsTask ==
    ASSUME NEW o \in {"stream", "batch"}, NEW s \in L!Ledgers
    PROVE  <<o, s>> \in L!Tasks /\ <<o, s>>[2] = s
BY DEF L!Tasks

\* What a death of the process does to the tasks.
LEMMA DeathExplained ==
    ASSUME LossInv, L!Dies, UNCHANGED L!dbVars
    PROVE  LossInv'
<1>1. /\ \A t \in L!Tasks : task'[t] = "none"
      /\ task' \in [L!Tasks -> LedgerPoints]
      /\ withoutTx \subseteq withoutTx'
  BY DEF L!Dies, LedgerPoints
<1>2. ASSUME NEW t \in L!Tasks, task[t] = "full" PROVE t[2] \in withoutTx'
  <2>1. t[1] \in {"stream", "batch"} /\ t[2] \in L!Ledgers /\ task[<<t[1], t[2]>>] = "full"
    BY <1>2, TaskIs
  <2>2. QED
    BY <2>1 DEF L!Dies
<1>3. TaskType' /\ OneTransaction' /\ BareExplained'
  BY <1>1 DEF TaskType, OneTransaction, BareExplained, L!InTransaction
<1>4. MarksExplained'
  BY <1>1, <1>2 DEF LossInv, MarksExplained, L!dbVars
<1>5. L!LossExplained'
  BY <1>1 DEF LossInv, L!LossExplained, L!dbVars
<1>6. QED
  BY <1>3, <1>4, <1>5 DEF LossInv

\* A step that leaves the database alone and moves tasks outside of
\* transactions keeps everything accounted for.
LEMMA QuietExplained ==
    ASSUME LossInv, TaskType', UNCHANGED L!dbVars, withoutTx \subseteq withoutTx',
           \A t \in L!Tasks :
              \/ task'[t] = task[t]
              \/ /\ task'[t] \notin L!InTransaction
                 /\ task[t] = "full" => t[2] \in withoutTx'
    PROVE  LossInv'
<1>1. OneTransaction'
  BY DEF LossInv, OneTransaction
<1>2. MarksExplained'
  BY DEF LossInv, MarksExplained, L!dbVars
<1>3. BareExplained'
  BY DEF LossInv, BareExplained, L!dbVars, L!InTransaction
<1>4. L!LossExplained'
  BY DEF LossInv, L!LossExplained, L!dbVars
<1>5. QED
  BY <1>1, <1>2, <1>3, <1>4 DEF LossInv

\* A task that moves within its transaction, or out of it without storing.
LEMMA MovesType ==
    ASSUME TaskType, NEW t \in L!Tasks, NEW at \in LedgerPoints, L!Moves(t, at)
    PROVE  /\ TaskType'
           /\ task'[t] = at
           /\ \A u \in L!Tasks : u # t => task'[u] = task[u]
BY DEF TaskType, L!Moves

LEMMA InitLoss == L!Init => LossInv
BY DEF L!Init, LossInv, TaskType, LedgerPoints, OneTransaction, L!InTransaction, MarksExplained,
       BareExplained, L!LossExplained

\* A backfill that throws takes the process with it at boot; otherwise it
\* only forgets the tasks that threw.
LEMMA BackfillThrowsExplained ==
    ASSUME LossInv, L!BackfillThrows
    PROVE  LossInv'
<1>1. CASE L!Dies /\ UNCHANGED L!dbVars
  BY <1>1, DeathExplained
<1>2. CASE /\ task' = [t \in L!Tasks |-> IF task[t] = "threw" THEN "none" ELSE task[t]]
           /\ UNCHANGED <<L!dbVars, withoutTx>>
  <2>1. TaskType'
    BY <1>2 DEF LossInv, TaskType, LedgerPoints
  <2>2. \A t \in L!Tasks :
           task'[t] = task[t] \/ (task'[t] \notin L!InTransaction /\ task[t] # "full")
    BY <1>2 DEF L!InTransaction
  <2>3. QED
    BY <1>2, <2>1, <2>2, QuietExplained
<1>3. QED
  BY <1>1, <1>2 DEF L!BackfillThrows, L!historyVars

\* Every step of a task keeps the losses explained.
LEMMA TaskLoss ==
    ASSUME LossInv, NEW t \in L!Tasks, L!Task(t)
    PROVE  LossInv'
<1> USE DEF LossInv
<1>1. CASE L!Skip(t)
  <2>1. \E at \in {"none", "stored"} : L!Moves(t, at)
    BY <1>1 DEF L!Skip, L!EndsWell
  <2>2. QED
    BY <1>1, <2>1, MovesType, QuietExplained
       DEF L!Skip, L!EndsWell, LedgerPoints, L!InTransaction, L!historyVars
<1>2. CASE L!BeginLedger(t)
  <2>1. /\ L!Moves(t, "fetch") /\ UNCHANGED <<L!dbVars, withoutTx>> /\ ~L!Storing(t[2])
    BY <1>2 DEF L!BeginLedger, L!historyVars
  <2>2. /\ TaskType' /\ task'[t] = "fetch"
        /\ \A u \in L!Tasks : u # t => task'[u] = task[u]
    BY <2>1, MovesType DEF LedgerPoints
  <2>3. \A u \in L!Tasks : u[2] = t[2] => task[u] \notin L!InTransaction
    BY <2>1, TaskIs DEF L!Storing
  <2>4. OneTransaction'
    BY <2>2, <2>3 DEF OneTransaction
  <2>5. MarksExplained'
    BY <2>1, <2>2, <2>3 DEF MarksExplained, L!dbVars, L!InTransaction
  <2>6. BareExplained' /\ L!LossExplained'
    BY <2>1, <2>2 DEF BareExplained, L!LossExplained, L!dbVars
  <2>7. QED
    BY <2>2, <2>4, <2>5, <2>6
<1>3. CASE L!SkipTransactions(t)
  <2>1. /\ task[t] = "fetch" /\ L!Moves(t, "bare") /\ UNCHANGED L!dbVars
        /\ withoutTx' = withoutTx \union {t[2]}
    BY <1>3 DEF L!SkipTransactions
  <2>2. /\ TaskType' /\ task'[t] = "bare"
        /\ \A u \in L!Tasks : u # t => task'[u] = task[u]
    BY <2>1, MovesType DEF LedgerPoints
  <2>3. OneTransaction'
    BY <2>1, <2>2 DEF OneTransaction, L!InTransaction
  <2>4. MarksExplained' /\ BareExplained' /\ L!LossExplained'
    BY <2>1, <2>2 DEF MarksExplained, BareExplained, L!LossExplained, L!dbVars
  <2>5. QED
    BY <2>2, <2>3, <2>4
<1>4. CASE L!FilterDuplicates(t)
  <2>1. /\ task[t] = "fetch" /\ UNCHANGED <<L!dbVars, withoutTx>>
        /\ \E at \in {"bare", "insert"} : L!Moves(t, at) /\ (at = "bare" => t[2] \in marks)
    BY <1>4 DEF L!FilterDuplicates, L!historyVars
  <2>2. /\ TaskType' /\ task'[t] \in {"bare", "insert"}
        /\ task'[t] = "bare" => t[2] \in marks
        /\ \A u \in L!Tasks : u # t => task'[u] = task[u]
    BY <2>1, MovesType DEF LedgerPoints
  <2>3. OneTransaction'
    BY <2>1, <2>2 DEF OneTransaction, L!InTransaction
  <2>4. MarksExplained' /\ L!LossExplained'
    BY <2>1, <2>2 DEF MarksExplained, L!LossExplained, L!dbVars
  <2>5. ASSUME t[2] \in marks PROVE t[2] \in txs \union withoutTx
    BY <2>1, <2>5 DEF MarksExplained, OneTransaction, L!InTransaction
  <2>6. BareExplained'
    BY <2>1, <2>2, <2>5 DEF BareExplained, L!dbVars
  <2>7. QED
    BY <2>2, <2>3, <2>4, <2>6
<1>5. CASE L!InsertAndMark(t)
  <2>1. /\ task[t] = "insert" /\ L!Moves(t, "full") /\ UNCHANGED <<ledgers, txs, withoutTx>>
        /\ marks' = marks \union {t[2]}
    BY <1>5 DEF L!InsertAndMark, L!historyVars
  <2>2. /\ TaskType' /\ task'[t] = "full"
        /\ \A u \in L!Tasks : u # t => task'[u] = task[u]
    BY <2>1, MovesType DEF LedgerPoints
  <2>3. OneTransaction'
    BY <2>1, <2>2 DEF OneTransaction, L!InTransaction
  <2>4. MarksExplained'
    BY <2>1, <2>2 DEF MarksExplained
  <2>5. BareExplained' /\ L!LossExplained'
    BY <2>1, <2>2 DEF BareExplained, L!LossExplained
  <2>6. QED
    BY <2>2, <2>3, <2>4, <2>5
<1>6. CASE L!CommitLedger(t)
  <2>1. /\ task[t] \in {"bare", "full"} /\ L!Moves(t, "metrics") /\ UNCHANGED <<marks, withoutTx>>
        /\ ledgers' = ledgers \union {t[2]}
        /\ txs' = IF task[t] = "full" THEN txs \union {t[2]} ELSE txs
    BY <1>6 DEF L!CommitLedger, L!historyVars
  <2>2. /\ TaskType' /\ task'[t] = "metrics"
        /\ \A u \in L!Tasks : u # t => task'[u] = task[u]
    BY <2>1, MovesType DEF LedgerPoints
  <2>3. OneTransaction'
    BY <2>1, <2>2 DEF OneTransaction, L!InTransaction
  <2>4. MarksExplained' /\ BareExplained'
    BY <2>1, <2>2 DEF MarksExplained, BareExplained
  <2>5. L!LossExplained'
    BY <2>1 DEF L!LossExplained, BareExplained
  <2>6. QED
    BY <2>2, <2>3, <2>4, <2>5
<1>7. CASE L!FinishLedger(t)
  <2>1. /\ task[t] = "metrics" /\ UNCHANGED <<ledgers, txs, marks, withoutTx>>
        /\ \E at \in {"none", "stored"} : L!Moves(t, at)
    BY <1>7 DEF L!FinishLedger, L!EndsWell, L!historyVars
  <2>2. /\ TaskType' /\ task'[t] \in {"none", "stored"}
        /\ \A u \in L!Tasks : u # t => task'[u] = task[u]
    BY <2>1, MovesType DEF LedgerPoints
  <2>3. OneTransaction'
    BY <2>1, <2>2 DEF OneTransaction, L!InTransaction
  <2>4. MarksExplained' /\ BareExplained' /\ L!LossExplained'
    BY <2>1, <2>2 DEF MarksExplained, BareExplained, L!LossExplained
  <2>5. QED
    BY <2>2, <2>3, <2>4
<1>r. ASSUME L!Rejects(t), UNCHANGED L!dbVars PROVE LossInv'
  <2>1. CASE t[1] = "stream"
    BY <1>r, <2>1, DeathExplained DEF L!Rejects
  <2>2. CASE t[1] # "stream"
    <3>1. /\ L!Moves(t, "threw")
          /\ withoutTx' = IF task[t] = "full" THEN withoutTx \union {t[2]} ELSE withoutTx
      BY <1>r, <2>2 DEF L!Rejects
    <3>2. /\ TaskType' /\ task'[t] = "threw"
          /\ \A u \in L!Tasks : u # t => task'[u] = task[u]
      BY <3>1, MovesType DEF LedgerPoints
    <3>3. \A u \in L!Tasks :
             \/ task'[u] = task[u]
             \/ task'[u] \notin L!InTransaction /\ (task[u] = "full" => u[2] \in withoutTx')
      BY <3>1, <3>2 DEF L!InTransaction
    <3>4. QED
      BY <1>r, <3>1, <3>2, <3>3, QuietExplained
  <2>3. QED
    BY <2>1, <2>2
<1>8. CASE L!FailLedger(t)
  BY <1>8, <1>r DEF L!FailLedger, L!Throws
<1>9. CASE L!CheckFails(t)
  BY <1>9, <1>r DEF L!CheckFails
<1>10. CASE L!CommitUnheard(t)
  <2>1. /\ task[t] \in {"bare", "full"} /\ L!Rejects(t) /\ marks' = marks
        /\ ledgers' = ledgers \union {t[2]}
        /\ txs' = IF task[t] = "full" THEN txs \union {t[2]} ELSE txs
    BY <1>10 DEF L!CommitUnheard, L!Throws
  <2>2. /\ TaskType' /\ withoutTx \subseteq withoutTx'
        /\ \A u \in L!Tasks :
              \/ u # t /\ task'[u] = task[u]
              \/ /\ task'[u] \in {"none", "threw"}
                 /\ task[u] = "full" => u[2] \in txs' \union withoutTx'
    <3>1. CASE t[1] = "stream"
      <4>1. L!Dies
        BY <2>1, <3>1 DEF L!Rejects
      <4>2. /\ task' = [u \in L!Tasks |-> "none"] /\ withoutTx \subseteq withoutTx'
        BY <4>1 DEF L!Dies
      <4>3. ASSUME NEW u \in L!Tasks, task[u] = "full" PROVE u[2] \in withoutTx'
        <5>1. u[1] \in {"stream", "batch"} /\ u[2] \in L!Ledgers /\ task[<<u[1], u[2]>>] = "full"
          BY <4>3, TaskIs
        <5>2. QED
          BY <4>1, <5>1 DEF L!Dies
      <4>4. QED
        BY <4>2, <4>3 DEF TaskType, LedgerPoints
    <3>2. CASE t[1] # "stream"
      <4>1. /\ L!Moves(t, "threw")
            /\ withoutTx' = IF task[t] = "full" THEN withoutTx \union {t[2]} ELSE withoutTx
        BY <2>1, <3>2 DEF L!Rejects
      <4>2. /\ TaskType' /\ task'[t] = "threw"
            /\ \A u \in L!Tasks : u # t => task'[u] = task[u]
        BY <4>1, MovesType DEF LedgerPoints
      <4>3. QED
        BY <4>1, <4>2
    <3>3. QED
      BY <3>1, <3>2
  <2>3. OneTransaction'
    BY <2>2 DEF OneTransaction, L!InTransaction
  <2>4. MarksExplained'
    BY <2>1, <2>2 DEF MarksExplained
  <2>5. BareExplained'
    BY <2>1, <2>2 DEF BareExplained
  <2>6. L!LossExplained'
    BY <2>1, <2>2 DEF L!LossExplained, BareExplained
  <2>7. QED
    BY <2>2, <2>3, <2>4, <2>5, <2>6
<1>11. QED
  BY <1>1, <1>2, <1>3, <1>4, <1>5, <1>6, <1>7, <1>8, <1>9, <1>10 DEF L!Task

\* Every step keeps the losses explained.
LEMMA LossStep == LossInv /\ [L!Next]_legacyVars => LossInv'
<1> SUFFICES ASSUME LossInv, [L!Next]_legacyVars PROVE LossInv'
  OBVIOUS
<1>a. ASSUME UNCHANGED <<task, L!dbVars, withoutTx>> PROVE LossInv'
  BY <1>a DEF LossInv, TaskType, OneTransaction, MarksExplained, BareExplained,
              L!LossExplained, L!dbVars
<1>1. CASE UNCHANGED legacyVars
  BY <1>1, <1>a DEF legacyVars, L!dbVars
<1>2. CASE L!Boot \/ L!Shutdown \/ L!Close \/ L!StreamFails \/ L!Reconnect
  BY <1>2, <1>a DEF L!Boot, L!Shutdown, L!Close, L!StreamFails, L!Reconnect, L!historyVars
<1>3. CASE L!Crash
  BY <1>3, DeathExplained DEF L!Crash
<1>4. CASE L!StartBackfill \/ L!SetUpJob \/ L!FinishBackfill \/ \E r \in Requests : L!ManualBackfill(r)
  BY <1>4, <1>a DEF L!StartBackfill, L!SetUpJob, L!FinishBackfill, L!ManualBackfill, L!historyVars
<1>5. CASE L!Deliver
  <2>1. PICK s : /\ task[<<"stream", s>>] = "none"
                 /\ L!Moves(<<"stream", s>>, "check") \/ UNCHANGED task
    BY <1>5 DEF L!Deliver
  <2>2. TaskType'
    BY <2>1 DEF LossInv, TaskType, LedgerPoints, L!Moves
  <2>3. \A t \in L!Tasks : task'[t] = task[t] \/ (task[t] = "none" /\ task'[t] = "check")
    BY <2>1 DEF LossInv, TaskType, L!Moves
  <2>4. QED
    BY <1>5, <2>2, <2>3, QuietExplained DEF L!Deliver, L!historyVars, L!InTransaction
<1>6. CASE L!FetchBatch
  <2>1. PICK F :
           /\ \A s \in F : task[<<"batch", s>>] = "none"
           /\ task' = [t \in L!Tasks |-> IF t[1] = "batch" /\ t[2] \in F THEN "check" ELSE task[t]]
    BY <1>6 DEF L!FetchBatch
  <2>2. TaskType'
    BY <2>1 DEF LossInv, TaskType, LedgerPoints
  <2>3. ASSUME NEW t \in L!Tasks
        PROVE  task'[t] = task[t] \/ (task[t] = "none" /\ task'[t] = "check")
    <3>1. t = <<t[1], t[2]>>
      BY TaskIs
    <3>2. QED
      BY <2>1, <3>1
  <2>4. QED
    BY <1>6, <2>2, <2>3, QuietExplained DEF L!FetchBatch, L!historyVars, L!InTransaction
<1>7. CASE L!SaveBatch
  <2>1. /\ \A t \in L!BatchTasks : task[t] \in {"none", "stored"}
        /\ task' = [t \in L!Tasks |-> IF t \in L!BatchTasks THEN "none" ELSE task[t]]
    BY <1>7 DEF L!SaveBatch
  <2>2. TaskType'
    BY <2>1 DEF LossInv, TaskType, LedgerPoints
  <2>3. \A t \in L!Tasks : task'[t] = task[t] \/ (task[t] # "full" /\ task'[t] = "none")
    BY <2>1
  <2>4. QED
    BY <1>7, <2>2, <2>3, QuietExplained DEF L!SaveBatch, L!historyVars, L!InTransaction
<1>8. CASE L!BatchThrows \/ L!SetUpThrows \/ L!FinishThrows
  BY <1>8, BackfillThrowsExplained DEF L!BatchThrows, L!SetUpThrows, L!FinishThrows
<1>9. CASE \E t \in L!Tasks : L!Task(t)
  BY <1>9, TaskLoss
<1>10. QED
  BY <1>1, <1>2, <1>3, <1>4, <1>5, <1>6, <1>7, <1>8, <1>9 DEF L!Next

LEMMA LossFollows == LossInv => L!LossExplained
BY DEF LossInv

-----------------------------------------------------------------------------

\* A ledger leaves the dead letter queue only as it is stored, or as a start
\* does not find it in the file.
LEMMA QueueStep == L!FailedIsQueued /\ [L!Next]_legacyVars => L!FailedIsQueued'
<1> SUFFICES ASSUME L!FailedIsQueued, [L!Next]_legacyVars PROVE L!FailedIsQueued'
  OBVIOUS
<1> USE DEF L!FailedIsQueued
<1>a. ASSUME UNCHANGED <<L!dbVars, dlq, failed, unqueued>> PROVE L!FailedIsQueued'
  BY <1>a DEF L!dbVars
<1>1. CASE UNCHANGED legacyVars
  BY <1>1, <1>a DEF legacyVars, L!dbVars
<1>2. CASE L!Shutdown \/ L!Close \/ L!StreamFails \/ L!Reconnect \/ L!Deliver \/ L!Crash
  BY <1>2, <1>a DEF L!Shutdown, L!Close, L!StreamFails, L!Reconnect, L!Deliver, L!Crash, L!historyVars
<1>3. CASE L!StartBackfill \/ L!SetUpJob \/ L!FetchBatch \/ L!SaveBatch \/ L!FinishBackfill
           \/ \E r \in Requests : L!ManualBackfill(r)
  BY <1>3, <1>a DEF L!StartBackfill, L!SetUpJob, L!FetchBatch, L!SaveBatch, L!FinishBackfill,
                    L!ManualBackfill, L!historyVars
<1>4. CASE L!BatchThrows \/ L!SetUpThrows \/ L!FinishThrows
  BY <1>4, <1>a DEF L!BatchThrows, L!SetUpThrows, L!FinishThrows, L!BackfillThrows, L!historyVars
<1>5. CASE L!Boot
  <2>1. /\ UNCHANGED <<L!dbVars, failed>>
        /\ \E lost : dlq' = dlq \ lost /\ unqueued' = unqueued \union (lost \ ledgers)
    BY <1>5 DEF L!Boot, L!LoadQueue
  <2>2. QED
    BY <2>1 DEF L!dbVars
<1>6. ASSUME NEW t \in L!Tasks, L!Task(t) PROVE L!FailedIsQueued'
  <2>1. CASE L!Skip(t) \/ L!BeginLedger(t) \/ L!SkipTransactions(t) \/ L!FilterDuplicates(t)
    BY <2>1, <1>a DEF L!Skip, L!BeginLedger, L!SkipTransactions, L!FilterDuplicates, L!historyVars
  <2>2. CASE L!InsertAndMark(t) \/ L!FinishLedger(t)
    BY <2>2 DEF L!InsertAndMark, L!FinishLedger, L!historyVars
  <2>3. CASE L!CommitLedger(t)
    BY <2>3 DEF L!CommitLedger
  <2>4. CASE L!FailLedger(t)
    BY <2>4 DEF L!FailLedger, L!Throws, L!Rejects, L!dbVars
  <2>5. CASE L!CheckFails(t)
    BY <2>5 DEF L!CheckFails, L!Rejects, L!dbVars
  <2>6. CASE L!CommitUnheard(t)
    BY <2>6 DEF L!CommitUnheard, L!Throws, L!Rejects
  <2>7. QED
    BY <1>6, <2>1, <2>2, <2>3, <2>4, <2>5, <2>6 DEF L!Task
<1>7. QED
  BY <1>1, <1>2, <1>3, <1>4, <1>5, <1>6 DEF L!Next

LEMMA InitQueue == L!Init => L!FailedIsQueued
BY DEF L!Init, L!FailedIsQueued

-----------------------------------------------------------------------------

\* The types of the indexer's state, and how far a checkpoint and a backfill
\* under way can have come.

ChainTypes ==
    /\ head \in L!Ledgers /\ boots \in 0..MaxBoots
    /\ ledgers \subseteq L!Ledgers /\ txs \subseteq L!Ledgers /\ marks \subseteq L!Ledgers
    /\ counted \in BOOLEAN
    /\ app \in {"down", "booting", "up", "ending"} /\ last \in Nat
    /\ dlq \subseteq L!Ledgers /\ failed \subseteq L!Ledgers /\ unqueued \subseteq L!Ledgers
    /\ withoutTx \subseteq L!Ledgers

StreamTypes ==
    /\ inbox \subseteq L!Ledgers /\ reconnects \in 0..(MaxReconnects + 1)
    /\ timers \in Nat /\ streaming \in BOOLEAN

\* A checkpoint counts no ledger that is not behind it, and stays in its range.
Rows == [status : {"none", "in_progress", "completed"}, last : 0..LastLedger,
         processed : 0..LastLedger]

JobTypes ==
    /\ jobs \in [L!Ranges -> Rows]
    /\ \A r \in L!Ranges : jobs[r].last <= r[2] /\ jobs[r].processed <= jobs[r].last
    /\ recent \in Seq(L!Ranges)

BackfillType(b) ==
    /\ b \in [at : {"off", "latest", "setup", "loop", "batch"}, range : L!Ranges, old : Int,
              from : Int, seq : Int, processed : Int, boot : BOOLEAN]
    /\ b.seq >= 1 /\ b.processed >= 0
    /\ b.processed <= b.seq - 1 /\ b.processed <= b.range[2]
    /\ b.at = "latest" => b.processed = 0
    /\ b.at = "batch" => b.seq <= b.range[2]

IndexerInv == ChainTypes /\ StreamTypes /\ JobTypes /\ BackfillType(backfill) /\ TaskType

LEMMA ChainNumbers ==
    /\ LastLedger \in Nat /\ LastLedger >= 1 /\ Settled \in Nat
    /\ BatchSize \in Nat /\ BatchSize >= 1
    /\ MaxReconnects \in Nat /\ MaxBoots \in Nat /\ OpCount \in Nat
BY ChainAssumption

\* A range lies on the chain.
LEMMA RangeIs ==
    ASSUME NEW r \in L!Ranges
    PROVE  /\ r[1] \in L!Ledgers /\ r[2] \in L!Ledgers /\ r[1] <= r[2]
           /\ r[1] \in Int /\ r[2] \in Int /\ 1 <= r[1] /\ r[2] <= LastLedger
BY ChainAssumption DEF L!Ranges, L!Ledgers

\* Where a backfill is can change, but not to its batch.
LEMMA BackfillAt ==
    ASSUME NEW b, BackfillType(b), b.processed = 0, NEW at \in {"off", "latest", "setup", "loop"}
    PROVE  /\ BackfillType([b EXCEPT !.at = at])
           /\ \A boot \in BOOLEAN : BackfillType([b EXCEPT !.at = at, !.boot = boot])
<1>1. ASSUME NEW c, c = [b EXCEPT !.at = at] \/ \E boot \in BOOLEAN : c = [b EXCEPT !.at = at, !.boot = boot]
      PROVE  BackfillType(c)
  <2>1. /\ c \in [at : {"off", "latest", "setup", "loop", "batch"}, range : L!Ranges, old : Int,
                   from : Int, seq : Int, processed : Int, boot : BOOLEAN]
    BY <1>1 DEF BackfillType
  <2>2. c.at = at /\ c.seq = b.seq /\ c.processed = b.processed /\ c.range = b.range
    BY <1>1 DEF BackfillType
  <2>3. QED
    BY <2>1, <2>2 DEF BackfillType
<1>2. QED
  BY <1>1

LEMMA NoBackfillType ==
    /\ BackfillType(L!NoBackfill)
    /\ BackfillType([L!NoBackfill EXCEPT !.at = "latest", !.boot = TRUE])
<1> DEFINE one == <<1, 1>>
<1>1. one \in L!Ranges /\ one[2] = 1
  BY ChainNumbers DEF L!Ranges, L!Ledgers
<1>2. BackfillType(L!NoBackfill)
  <2>1. L!NoBackfill = [at |-> "off", range |-> one, old |-> 0, from |-> 1, seq |-> 1,
                        processed |-> 0, boot |-> FALSE]
    BY DEF L!NoBackfill
  <2> HIDE DEF one
  <2>2. QED
    BY <1>1, <2>1 DEF BackfillType
<1>3. L!NoBackfill.processed = 0
  BY DEF L!NoBackfill
<1>4. QED
  BY <1>2, <1>3, BackfillAt

\* An element that is taken out of a sequence.
LEMMA RemovedType ==
    ASSUME NEW T, NEW s \in Seq(T), NEW e
    PROVE  L!RemoveFirst(s, e) \in Seq(T)
<1> DEFINE I == {i \in 1..Len(s) : s[i] = e}
<1>1. CASE \E i \in 1..Len(s) : s[i] = e
  <2>1. I # {} /\ I \subseteq Int /\ \A i \in I : i >= 1
    BY <1>1
  <2>2. PICK m \in I : \A i \in I : m <= i
    <3> HIDE DEF I
    <3>1. 1 \in Int
      OBVIOUS
    <3>2. QED
      BY <2>1, <3>1, LeastExists, Zenon
  <2>3. L!Min(I) \in I
    <3> HIDE DEF I
    <3>1. QED
      BY <2>2 DEF L!Min
  <2>4. L!SelectInSeq(s, LAMBDA v : v = e) = L!Min(I)
    BY <2>1 DEF L!SelectInSeq
  <2>5. PICK i \in 1..Len(s) : L!RemoveFirst(s, e) = L!RemoveAt(s, i)
    BY <1>1, <2>3, <2>4 DEF L!RemoveFirst
  <2>6. SubSeq(s, 1, i - 1) \in Seq(T) /\ SubSeq(s, i + 1, Len(s)) \in Seq(T)
    BY SubSeqProperties
  <2>7. QED
    BY <2>5, <2>6, ConcatProperties DEF L!RemoveAt
<1>2. CASE ~ \E i \in 1..Len(s) : s[i] = e
  BY <1>2 DEF L!RemoveFirst
<1>3. QED
  BY <1>1, <1>2

\* The greatest of some numbers below a bound.
LEMMA GreatestIs ==
    ASSUME NEW m \in Int, NEW T, T \subseteq Int, T # {}, \A x \in T : x <= m
    PROVE  L!Max(T) \in T
<1>1. PICK x \in T : \A y \in T : y <= x
  BY GreatestExists
<1>2. \A y \in T : x >= y
  BY <1>1
<1>3. QED
  BY <1>2 DEF L!Max

\* The position a boot starts from is a number.
LEMMA LastProcessedType ==
    ASSUME ChainTypes, JobTypes PROVE L!LastProcessed \in Nat
<1>0. LastLedger \in Nat /\ OpCount \in Nat /\ head \in 1..LastLedger
  BY ChainNumbers DEF ChainTypes, L!Ledgers
<1>1. ASSUME NEW T, T \subseteq 0..(LastLedger + OpCount), T # {} PROVE L!Max(T) \in Nat
  <2>1. /\ T \subseteq Int /\ \A x \in T : x <= LastLedger + OpCount
        /\ LastLedger + OpCount \in Int /\ \A x \in T : x \in Nat
    BY <1>0, <1>1
  <2>2. L!Max(T) \in T
    BY <1>1, <2>1, GreatestIs, Zenon
  <2>3. QED
    BY <2>1, <2>2
<1>2. L!Resumable \subseteq L!Ranges
  <2> DEFINE open == {i \in DOMAIN recent : jobs[recent[i]].status = "in_progress"}
  <2>1. CASE open = {}
    BY <2>1 DEF L!Resumable
  <2>2. CASE open # {}
    <3>1. DOMAIN recent = 1..Len(recent) /\ Len(recent) \in Nat
      BY LenProperties DEF JobTypes
    <3>2. open \subseteq Int /\ \A i \in open : i <= Len(recent)
      BY <3>1
    <3>7. Len(recent) \in Int
      BY <3>1
    <3>3. L!Max(open) \in open
      <4> HIDE DEF open
      <4>1. QED
        BY <2>2, <3>1, <3>2, <3>7, GreatestIs, Zenon
    <3>4. recent[L!Max(open)] \in L!Ranges
      BY <3>1, <3>3, ElementOfSeq DEF JobTypes
    <3>5. L!Resumable = {recent[L!Max(open)]}
      BY <2>2 DEF L!Resumable
    <3>6. QED
      BY <3>4, <3>5
  <2>3. QED
    BY <2>1, <2>2
<1>3. ASSUME \E r \in L!Resumable : jobs[r].last # 0
      PROVE  L!Max({jobs[r].last : r \in L!Resumable}) \in Nat
  <2>1. \A r \in L!Resumable : jobs[r].last \in 0..LastLedger
    BY <1>2 DEF JobTypes, Rows
  <2>2. {jobs[r].last : r \in L!Resumable} \subseteq 0..(LastLedger + OpCount)
    BY <1>0, <2>1
  <2>3. {jobs[r].last : r \in L!Resumable} # {}
    BY <1>3
  <2>4. QED
    BY <1>1, <2>2, <2>3
<1>4. ASSUME L!StoredMarks # {} PROVE L!Max(L!StoredMarks) \in Nat
  <2>1. L!StoredMarks \subseteq 0..(LastLedger + OpCount)
    <3>1. L!StoredMarks \subseteq marks \union {OpCount}
      BY DEF L!StoredMarks
    <3>2. marks \subseteq 0..(LastLedger + OpCount)
      BY <1>0 DEF ChainTypes, L!Ledgers
    <3>3. OpCount \in 0..(LastLedger + OpCount)
      BY <1>0
    <3>4. QED
      BY <3>1, <3>2, <3>3
  <2>2. QED
    BY <1>1, <1>4, <2>1
<1>5. ASSUME ledgers # {} PROVE L!Max(ledgers) \in Nat
  <2>1. ledgers \subseteq 0..(LastLedger + OpCount)
    BY <1>0 DEF ChainTypes, L!Ledgers
  <2>2. QED
    BY <1>1, <1>5, <2>1
<1>6. head - 1 \in Nat
  BY <1>0
<1>7. QED
  BY <1>3, <1>4, <1>5, <1>6 DEF L!LastProcessed

LEMMA IndexerInit == L!Init => IndexerInv
<1> SUFFICES ASSUME L!Init PROVE IndexerInv
  OBVIOUS
<1> USE DEF L!Init
<1>1. ChainTypes
  <2>1. 1 \in L!Ledgers /\ 0 \in 0..MaxBoots /\ 0 \in Nat
    BY ChainNumbers DEF L!Ledgers
  <2>2. QED
    BY <2>1, Zenon DEF ChainTypes
<1>2. StreamTypes
  <2>1. 0 \in 0..(MaxReconnects + 1) /\ 0 \in Nat
    BY ChainNumbers
  <2>2. QED
    BY <2>1, Zenon DEF StreamTypes
<1>3. JobTypes
  <2>1. L!NoJob \in Rows /\ L!NoJob.last = 0 /\ L!NoJob.processed = 0
    BY ChainAssumption DEF L!NoJob, Rows
  <2>2. \A r \in L!Ranges : r[2] \in Int /\ r[2] >= 0
    BY RangeIs
  <2>3. recent \in Seq(L!Ranges)
    OBVIOUS
  <2>4. \A r \in L!Ranges : jobs[r] = L!NoJob
    OBVIOUS
  <2>5. jobs \in [L!Ranges -> Rows]
    BY <2>1
  <2>6. QED
    BY <2>1, <2>2, <2>3, <2>4, <2>5 DEF JobTypes
<1>4. TaskType
  BY DEF TaskType, LedgerPoints
<1>5. QED
  BY <1>1, <1>2, <1>3, <1>4, NoBackfillType DEF IndexerInv

\* The process dies.
LEMMA DeathTyped ==
    ASSUME IndexerInv, L!Dies, UNCHANGED <<boots, head, marks, counted, L!jobVars>>,
           ledgers' \subseteq L!Ledgers, txs' \subseteq L!Ledgers,
           dlq' \subseteq L!Ledgers, failed' \subseteq L!Ledgers, unqueued' \subseteq L!Ledgers
    PROVE  IndexerInv'
<1> USE DEF IndexerInv, L!Dies
<1>1. ChainTypes'
  BY DEF ChainTypes
<1>2. StreamTypes'
  <2>1. 0 \in 0..(MaxReconnects + 1) /\ 0 \in Nat
    BY ChainNumbers
  <2>2. QED
    BY <2>1, Zenon DEF StreamTypes
<1>3. JobTypes'
  BY DEF JobTypes, L!jobVars
<1>4. TaskType'
  BY DEF TaskType, LedgerPoints
<1>5. BackfillType(backfill)'
  BY NoBackfillType DEF BackfillType
<1>6. QED
  BY <1>1, <1>2, <1>3, <1>4, <1>5

\* What a call of the task does to the types.
LEMMA TaskTyped ==
    ASSUME IndexerInv, NEW t \in L!Tasks, L!Task(t)
    PROVE  IndexerInv'
<1> USE DEF IndexerInv
<1>0. t[1] \in {"stream", "batch"} /\ t[2] \in L!Ledgers /\ t[2] \in Nat
  BY TaskIs, ChainAssumption DEF L!Ledgers
<1>a. ASSUME L!EndsWell(t), UNCHANGED <<boots, head, ledgers, txs, marks, L!jobVars, app, inbox,
                timers, streaming, backfill, dlq, L!historyVars>>,
             counted' \in BOOLEAN
      PROVE  IndexerInv'
  <2>1. TaskType'
    <3>1. \E at \in LedgerPoints : L!Moves(t, at)
      BY <1>a DEF L!EndsWell, LedgerPoints
    <3>2. QED
      BY <3>1, MovesType
  <2>2. ChainTypes'
    BY <1>0, <1>a DEF ChainTypes, L!EndsWell, L!historyVars
  <2>3. StreamTypes'
    BY <1>a, ChainNumbers DEF StreamTypes, L!EndsWell
  <2>4. JobTypes' /\ BackfillType(backfill)'
    BY <1>a DEF JobTypes, L!jobVars, BackfillType
  <2>5. QED
    BY <2>1, <2>2, <2>3, <2>4
<1>b. ASSUME NEW at \in LedgerPoints, L!Moves(t, at),
             UNCHANGED <<boots, head, counted, L!jobVars, app, last, L!streamVars, backfill, failed>>,
             ledgers' \subseteq ledgers \union {t[2]}, txs' \subseteq txs \union {t[2]},
             marks' \subseteq marks \union {t[2]}, dlq' \subseteq dlq \union {t[2]},
             unqueued' \subseteq unqueued, withoutTx' \subseteq withoutTx \union {t[2]}
      PROVE  IndexerInv'
  <2>1. TaskType'
    BY <1>b, MovesType
  <2>2. ChainTypes'
    BY <1>0, <1>b DEF ChainTypes
  <2>3. StreamTypes' /\ JobTypes' /\ BackfillType(backfill)'
    BY <1>b DEF StreamTypes, L!streamVars, JobTypes, L!jobVars, BackfillType
  <2>4. QED
    BY <2>1, <2>2, <2>3
<1>1. CASE L!Skip(t)
  BY <1>1, <1>a DEF L!Skip, L!dbVars, ChainTypes
<1>2. CASE L!FinishLedger(t)
  BY <1>2, <1>a DEF L!FinishLedger
<1>3. CASE L!BeginLedger(t)
  BY <1>3, <1>b DEF L!BeginLedger, L!dbVars, L!historyVars, LedgerPoints
<1>4. CASE L!SkipTransactions(t)
  BY <1>4, <1>b DEF L!SkipTransactions, L!dbVars, LedgerPoints
<1>5. CASE L!FilterDuplicates(t)
  <2>1. \E at \in LedgerPoints : L!Moves(t, at)
    BY <1>5 DEF L!FilterDuplicates, LedgerPoints
  <2>2. QED
    BY <1>5, <1>b, <2>1 DEF L!FilterDuplicates, L!dbVars, L!historyVars
<1>6. CASE L!InsertAndMark(t)
  BY <1>6, <1>b DEF L!InsertAndMark, L!historyVars, LedgerPoints
<1>7. CASE L!CommitLedger(t)
  BY <1>7, <1>b DEF L!CommitLedger, L!historyVars, LedgerPoints
<1>r. ASSUME L!Rejects(t), UNCHANGED <<boots, head, marks, counted, L!jobVars>>,
             ledgers' \subseteq ledgers \union {t[2]}, txs' \subseteq txs \union {t[2]},
             dlq' \subseteq dlq \union {t[2]}, unqueued' \subseteq unqueued \union {t[2]}
      PROVE  IndexerInv'
  <2>1. /\ ledgers' \subseteq L!Ledgers /\ txs' \subseteq L!Ledgers
        /\ dlq' \subseteq L!Ledgers /\ unqueued' \subseteq L!Ledgers /\ failed' \subseteq L!Ledgers
    BY <1>0, <1>r DEF ChainTypes, L!Rejects
  <2>2. CASE t[1] = "stream"
    BY <1>r, <2>1, <2>2, DeathTyped DEF L!Rejects
  <2>3. CASE t[1] # "stream"
    <3>1. /\ L!Moves(t, "threw") /\ UNCHANGED <<app, last, L!streamVars, backfill>>
          /\ withoutTx' \subseteq withoutTx \union {t[2]}
      BY <1>r, <2>3 DEF L!Rejects
    <3>2. TaskType'
      BY <3>1, MovesType DEF LedgerPoints
    <3>3. ChainTypes'
      BY <1>0, <1>r, <2>1, <3>1 DEF ChainTypes
    <3>4. StreamTypes' /\ JobTypes' /\ BackfillType(backfill)'
      BY <1>r, <3>1 DEF StreamTypes, L!streamVars, JobTypes, L!jobVars, BackfillType
    <3>5. QED
      BY <3>2, <3>3, <3>4
  <2>4. QED
    BY <2>2, <2>3
<1>8. CASE L!FailLedger(t)
  BY <1>8, <1>r DEF L!FailLedger, L!Throws, L!dbVars
<1>9. CASE L!CheckFails(t)
  BY <1>9, <1>r DEF L!CheckFails, L!dbVars
<1>10. CASE L!CommitUnheard(t)
  BY <1>10, <1>r DEF L!CommitUnheard, L!Throws
<1>11. QED
  BY <1>1, <1>2, <1>3, <1>4, <1>5, <1>6, <1>7, <1>8, <1>9, <1>10 DEF L!Task

\* A row is written for a range.
LEMMA WriteTyped ==
    ASSUME JobTypes, NEW r \in L!Ranges, NEW row \in Rows,
           row.last <= r[2], row.processed <= row.last, L!Writes(r, row)
    PROVE  JobTypes'
<1>1. jobs' = [jobs EXCEPT ![r] = row] /\ recent' = Append(L!RemoveFirst(recent, r), r)
  BY DEF L!Writes
<1>2. recent' \in Seq(L!Ranges)
  BY <1>1, RemovedType, AppendProperties DEF JobTypes
<1>3. /\ jobs' \in [L!Ranges -> Rows]
      /\ \A q \in L!Ranges : jobs'[q].last <= q[2] /\ jobs'[q].processed <= jobs'[q].last
  BY <1>1 DEF JobTypes
<1>4. QED
  BY <1>2, <1>3 DEF JobTypes

\* The row of a range, with its numbers.
LEMMA RowIs ==
    ASSUME JobTypes, NEW r \in L!Ranges
    PROVE  /\ jobs[r] \in Rows
           /\ jobs[r].last \in Int /\ jobs[r].last >= 0 /\ jobs[r].last <= r[2]
           /\ jobs[r].processed \in Int /\ jobs[r].processed >= 0
           /\ jobs[r].processed <= jobs[r].last
           /\ jobs[r].status \in {"none", "in_progress", "completed"}
<1>1. /\ jobs[r] \in Rows /\ jobs[r].last <= r[2] /\ jobs[r].processed <= jobs[r].last
  BY DEF JobTypes
<1>2. QED
  BY <1>1 DEF Rows

\* The stream, the boot and the shutdown.
LEMMA StreamTyped ==
    ASSUME IndexerInv,
           L!Boot \/ L!Shutdown \/ L!Close \/ L!Deliver \/ L!StreamFails \/ L!Reconnect
    PROVE  IndexerInv'
<1> USE DEF IndexerInv
<1>1. CASE L!Boot
  <2>1. ChainTypes'
    <3>1. boots' \in 0..MaxBoots
      BY <1>1, ChainNumbers DEF L!Boot, ChainTypes
    <3>2. last' \in Nat
      BY <1>1, LastProcessedType DEF L!Boot
    <3>3. QED
      BY <1>1, <3>1, <3>2 DEF L!Boot, L!LoadQueue, ChainTypes, L!dbVars
  <2>2. StreamTypes'
    <3>1. 0 \in 0..(MaxReconnects + 1) /\ 0 \in Nat
      BY ChainNumbers
    <3>2. inbox' = {} /\ reconnects' = 0 /\ timers' = 0 /\ streaming' = TRUE
      BY <1>1 DEF L!Boot
    <3>3. QED
      BY <3>1, <3>2, Zenon DEF StreamTypes
  <2>3. JobTypes' /\ TaskType'
    BY <1>1 DEF L!Boot, L!jobVars, JobTypes, TaskType
  <2>4. BackfillType(backfill)'
    <3>1. backfill' = [L!NoBackfill EXCEPT !.at = "latest", !.boot = TRUE]
      BY <1>1 DEF L!Boot
    <3>2. QED
      BY <3>1, NoBackfillType DEF BackfillType
  <2>5. QED
    BY <2>1, <2>2, <2>3, <2>4
<1>2. CASE L!Shutdown
  <2>1. ChainTypes'
    BY <1>2 DEF L!Shutdown, ChainTypes, L!dbVars, L!historyVars
  <2>2. StreamTypes' /\ JobTypes' /\ TaskType' /\ BackfillType(backfill)'
    BY <1>2 DEF L!Shutdown, StreamTypes, L!streamVars, L!jobVars, JobTypes, TaskType,
                BackfillType
  <2>3. QED
    BY <2>1, <2>2
<1>3. CASE L!Close
  <2>1. head + 1 \in L!Ledgers
    BY <1>3, ChainNumbers DEF L!Close, ChainTypes, L!Ledgers
  <2>2. ChainTypes'
    BY <1>3, <2>1 DEF L!Close, ChainTypes, L!dbVars, L!historyVars
  <2>3. inbox' \subseteq L!Ledgers /\ UNCHANGED <<reconnects, timers, streaming>>
    BY <1>3, <2>1 DEF L!Close, StreamTypes
  <2>4. StreamTypes' /\ JobTypes' /\ TaskType' /\ BackfillType(backfill)'
    BY <1>3, <2>3 DEF L!Close, StreamTypes, L!jobVars, JobTypes, TaskType, BackfillType
  <2>5. QED
    BY <2>2, <2>4
<1>4. CASE L!Deliver
  <2>1. PICK s : /\ inbox' = inbox \ {s}
                 /\ \/ L!Moves(<<"stream", s>>, "check") /\ UNCHANGED reconnects
                    \/ reconnects' = 0 /\ UNCHANGED task
    BY <1>4 DEF L!Deliver
  <2>2. TaskType'
    BY <2>1 DEF TaskType, LedgerPoints, L!Moves
  <2>3. inbox' \subseteq L!Ledgers /\ reconnects' \in 0..(MaxReconnects + 1)
    BY <2>1, ChainNumbers DEF StreamTypes
  <2>4. ChainTypes'
    BY <1>4 DEF L!Deliver, ChainTypes, L!dbVars, L!historyVars
  <2>5. StreamTypes' /\ JobTypes' /\ BackfillType(backfill)'
    BY <1>4, <2>3 DEF L!Deliver, StreamTypes, L!jobVars, JobTypes, BackfillType
  <2>6. QED
    BY <2>2, <2>4, <2>5
<1>5. CASE L!StreamFails
  <2>1. reconnects' \in 0..(MaxReconnects + 1)
    <3> DEFINE both == {reconnects + 1, MaxReconnects + 1}
    <3>1. /\ reconnects + 1 \in 0..(MaxReconnects + 2) /\ MaxReconnects + 1 \in Nat
          /\ reconnects \in Int
      BY ChainNumbers DEF StreamTypes
    <3>2. \E x \in both : \A y \in both : x <= y
      <4>1. CASE reconnects <= MaxReconnects
        <5>1. (\A y \in both : reconnects + 1 <= y) /\ reconnects + 1 \in both
          BY <3>1, <4>1, ChainNumbers
        <5> HIDE DEF both
        <5>2. QED
          BY <5>1
      <4>2. CASE ~(reconnects <= MaxReconnects)
        <5>1. (\A y \in both : MaxReconnects + 1 <= y) /\ MaxReconnects + 1 \in both
          BY <3>1, <4>2, ChainNumbers
        <5> HIDE DEF both
        <5>2. QED
          BY <5>1
      <4>3. QED
        BY <4>1, <4>2
    <3>3. L!Min(both) \in both /\ \A y \in both : L!Min(both) <= y
      <4> HIDE DEF both
      <4>1. QED
        BY <3>2 DEF L!Min
    <3>4. L!Min(both) \in Int /\ L!Min(both) <= MaxReconnects + 1 /\ L!Min(both) >= 0
      BY <3>1, <3>3
    <3>5. reconnects' = L!Min(both)
      BY <1>5 DEF L!StreamFails
    <3> HIDE DEF both
    <3>6. QED
      BY <3>4, <3>5, ChainNumbers
  <2>2. timers' \in Nat
    BY <1>5 DEF L!StreamFails, StreamTypes
  <2>3. inbox' = {} /\ streaming' = FALSE
    BY <1>5 DEF L!StreamFails
  <2>4. StreamTypes'
    BY <2>1, <2>2, <2>3, Zenon DEF StreamTypes
  <2>5. ChainTypes' /\ JobTypes' /\ TaskType' /\ BackfillType(backfill)'
    BY <1>5 DEF L!StreamFails, ChainTypes, L!dbVars, L!historyVars, L!jobVars, JobTypes,
                TaskType, BackfillType
  <2>6. QED
    BY <2>4, <2>5
<1>6. CASE L!Reconnect
  <2>1. timers' \in Nat
    BY <1>6 DEF L!Reconnect, StreamTypes
  <2>2. streaming' \in BOOLEAN
    BY <1>6, Zenon DEF L!Reconnect, StreamTypes
  <2>3. StreamTypes'
    BY <1>6, <2>1, <2>2 DEF L!Reconnect, StreamTypes
  <2>4. ChainTypes' /\ JobTypes' /\ TaskType' /\ BackfillType(backfill)'
    BY <1>6 DEF L!Reconnect, ChainTypes, L!dbVars, L!historyVars, L!jobVars, JobTypes,
                TaskType, BackfillType
  <2>5. QED
    BY <2>3, <2>4
<1>7. QED
  BY <1>1, <1>2, <1>3, <1>4, <1>5, <1>6

\* A backfill that throws.
LEMMA BackfillThrowsTyped ==
    ASSUME IndexerInv, L!BackfillThrows PROVE IndexerInv'
<1>1. CASE L!Dies /\ UNCHANGED <<boots, head, L!dbVars, L!jobVars, dlq, failed, unqueued>>
  BY <1>1, DeathTyped DEF L!dbVars, IndexerInv, ChainTypes
<1>2. CASE /\ backfill' = L!NoBackfill
           /\ task' = [t \in L!Tasks |-> IF task[t] = "threw" THEN "none" ELSE task[t]]
           /\ UNCHANGED <<boots, head, L!dbVars, L!jobVars, app, last, L!streamVars, dlq,
                          L!historyVars>>
  <2> USE DEF IndexerInv
  <2>1. TaskType'
    BY <1>2 DEF TaskType, LedgerPoints
  <2>2. BackfillType(backfill)'
    BY <1>2, NoBackfillType DEF BackfillType
  <2>3. ChainTypes' /\ StreamTypes' /\ JobTypes'
    BY <1>2 DEF ChainTypes, L!dbVars, L!historyVars, StreamTypes, L!streamVars, JobTypes,
                L!jobVars
  <2>4. QED
    BY <2>1, <2>2, <2>3
<1>3. QED
  BY <1>1, <1>2 DEF L!BackfillThrows

\* The types that a step of the backfill leaves alone.
LEMMA BackfillOnly ==
    ASSUME IndexerInv, UNCHANGED <<boots, head, L!dbVars, L!streamVars, dlq, L!historyVars>>,
           app' \in {"down", "booting", "up", "ending"}, UNCHANGED last
    PROVE  ChainTypes' /\ StreamTypes'
BY DEF IndexerInv, ChainTypes, L!dbVars, L!historyVars, StreamTypes, L!streamVars

\* A backfill is begun, at boot or over HTTP.
LEMMA BeginsTyped ==
    ASSUME IndexerInv, L!StartBackfill \/ \E r \in Requests : L!ManualBackfill(r)
    PROVE  IndexerInv'
<1> USE DEF IndexerInv
<1>1. CASE L!StartBackfill
  <2>1. ChainTypes' /\ StreamTypes'
    <3>1. app' \in {"down", "booting", "up", "ending"}
      BY <1>1 DEF L!StartBackfill, L!Returns, ChainTypes
    <3>2. QED
      BY <1>1, <3>1, BackfillOnly DEF L!StartBackfill
  <2>2. JobTypes' /\ TaskType'
    BY <1>1 DEF L!StartBackfill, JobTypes, L!jobVars, TaskType
  <2>3. CASE backfill' = L!NoBackfill
    BY <2>1, <2>2, <2>3, NoBackfillType DEF BackfillType
  <2>4. CASE /\ last < head - Settled
             /\ backfill' = [backfill EXCEPT !.at = "setup",
                                             !.range = <<last + 1, head - Settled>>]
    <3> DEFINE range == <<last + 1, head - Settled>>
    <3>1. range \in L!Ranges /\ range[2] \in Int /\ range[2] >= 0
      BY <2>4, ChainNumbers DEF L!Ranges, L!Ledgers, ChainTypes
    <3>2. backfill.processed = 0
      BY <1>1 DEF L!StartBackfill, L!AtBackfill, BackfillType
    <3>3. backfill' = [backfill EXCEPT !.at = "setup", !.range = range]
      BY <2>4
    <3> HIDE DEF range
    <3>4. BackfillType(backfill)'
      BY <3>1, <3>2, <3>3 DEF BackfillType
    <3>5. QED
      BY <2>1, <2>2, <3>4
  <2>5. QED
    BY <1>1, <2>3, <2>4 DEF L!StartBackfill, L!Returns
<1>2. ASSUME NEW r \in Requests, L!ManualBackfill(r) PROVE IndexerInv'
  <2>0. r \in L!Ranges
    BY ChainAssumption DEF L!Ranges, L!Ledgers
  <2>1. ChainTypes' /\ StreamTypes' /\ JobTypes' /\ TaskType'
    BY <1>2 DEF L!ManualBackfill, ChainTypes, L!dbVars, L!historyVars, StreamTypes,
                L!streamVars, JobTypes, L!jobVars, TaskType
  <2>2. PICK from : /\ from <= r[2] /\ (from = jobs[r].last + 1 \/ from = r[1])
                    /\ backfill' = [L!NoBackfill EXCEPT !.at = "setup", !.range = <<from, r[2]>>]
    BY <1>2 DEF L!ManualBackfill
  <2> DEFINE range == <<from, r[2]>>
  <2>3. range \in L!Ranges /\ range[2] \in Int /\ range[2] >= 0
    BY <2>0, <2>2, RangeIs, RowIs, ChainNumbers DEF L!Ranges, L!Ledgers
  <2>4. L!NoBackfill.processed = 0 /\ L!NoBackfill.seq = 1 /\ BackfillType(L!NoBackfill)
    BY NoBackfillType DEF L!NoBackfill
  <2> HIDE DEF range
  <2>5. BackfillType(backfill)'
    <3>1. backfill' = [L!NoBackfill EXCEPT !.at = "setup", !.range = range]
      BY <2>2 DEF range
    <3>2. QED
      BY <2>3, <2>4, <3>1 DEF BackfillType
  <2>6. QED
    BY <2>1, <2>5
<1>3. QED
  BY <1>1, <1>2

\* The job is set up: a row in progress is taken up, any other begun anew.
LEMMA SetUpTyped ==
    ASSUME IndexerInv, L!SetUpJob PROVE IndexerInv'
<1> USE DEF IndexerInv
<1> DEFINE r == backfill.range
           resumed == jobs[r].status = "in_progress" /\ jobs[r].last # 0
           from == IF resumed THEN jobs[r].last + 1 ELSE r[1]
           done == IF resumed THEN jobs[r].processed ELSE 0
<1>1. r \in L!Ranges /\ backfill.at = "setup"
  BY DEF L!SetUpJob, L!AtBackfill, BackfillType
<1>2. /\ backfill' = [backfill EXCEPT !.at = "loop", !.old = jobs[r].last, !.from = from,
                          !.seq = from, !.processed = done]
      /\ \/ UNCHANGED L!jobVars
         \/ L!Writes(r, [jobs[r] EXCEPT !.status = "in_progress"])
      /\ UNCHANGED <<boots, head, L!dbVars, app, last, L!streamVars, task, dlq, L!historyVars>>
  BY DEF L!SetUpJob
<1>3. ChainTypes' /\ StreamTypes'
  BY <1>2, BackfillOnly DEF ChainTypes
<1>4. TaskType'
  BY <1>2 DEF TaskType
<1>5. JobTypes'
  <2>1. CASE UNCHANGED L!jobVars
    BY <2>1 DEF JobTypes, L!jobVars
  <2>2. CASE L!Writes(r, [jobs[r] EXCEPT !.status = "in_progress"])
    <3> DEFINE row == [jobs[r] EXCEPT !.status = "in_progress"]
    <3> HIDE DEF r
    <3>1. jobs[r] \in Rows /\ jobs[r].last <= r[2] /\ jobs[r].processed <= jobs[r].last
      BY <1>1, RowIs
    <3>2. row \in Rows /\ row.last = jobs[r].last /\ row.processed = jobs[r].processed
      BY <3>1 DEF Rows
    <3> HIDE DEF row
    <3>3. row.last <= r[2] /\ row.processed <= row.last /\ L!Writes(r, row)
      BY <2>2, <3>1, <3>2 DEF row
    <3>4. QED
      BY <1>1, <3>2, <3>3, WriteTyped
  <2>3. QED
    BY <1>2, <2>1, <2>2
<1>6. BackfillType(backfill)'
  <2>1. /\ r[1] \in Int /\ 1 <= r[1] /\ r[2] \in Int /\ r[1] <= r[2]
        /\ jobs[r].last \in Int /\ jobs[r].last >= 0 /\ jobs[r].last <= r[2]
        /\ jobs[r].processed \in Int /\ jobs[r].processed >= 0
        /\ jobs[r].processed <= jobs[r].last
    <3> HIDE DEF r
    <3>1. QED
      BY <1>1, RangeIs, RowIs
  <2> HIDE DEF r, resumed
  <2>2. /\ from \in Int /\ from >= 1 /\ done \in Int /\ done >= 0
        /\ done <= from - 1 /\ done <= r[2]
    BY <2>1
  <2> HIDE DEF from, done
  <2>3. r = backfill.range
    BY DEF r
  <2>4. jobs[r].last \in Int /\ backfill.range \in L!Ranges /\ backfill.boot \in BOOLEAN
    BY <2>1 DEF BackfillType
  <2>5. /\ backfill'.at = "loop" /\ backfill'.seq = from /\ backfill'.processed = done
        /\ backfill'.range = r
        /\ backfill' \in [at : {"off", "latest", "setup", "loop", "batch"}, range : L!Ranges,
                          old : Int, from : Int, seq : Int, processed : Int, boot : BOOLEAN]
    BY <1>2, <2>2, <2>3, <2>4 DEF BackfillType
  <2>6. QED
    BY <2>2, <2>5 DEF BackfillType
<1>7. QED
  BY <1>3, <1>4, <1>5, <1>6

\* The last ledger of a batch.
LEMMA BatchEndIs ==
    ASSUME BackfillType(backfill), backfill.at = "batch"
    PROVE  /\ L!BatchEnd \in Int /\ L!BatchEnd >= backfill.seq
           /\ L!BatchEnd <= backfill.range[2]
           /\ L!BatchEnd <= backfill.seq + BatchSize - 1
<1> DEFINE a == backfill.seq + BatchSize - 1
           b == backfill.range[2]
           both == {a, b}
<1>1. /\ a \in Int /\ b \in Int /\ a >= backfill.seq /\ b >= backfill.seq
      /\ backfill.seq \in Int
  BY ChainNumbers, RangeIs DEF BackfillType
<1>2. L!BatchEnd = L!Min(both)
  BY DEF L!BatchEnd
<1> HIDE DEF a, b
<1>3. a \in both /\ b \in both /\ \A x \in both : x = a \/ x = b
  OBVIOUS
<1> HIDE DEF both
<1>4. \E x \in both : \A y \in both : x <= y
  <2>1. CASE a <= b
    BY <1>1, <1>3, <2>1
  <2>2. CASE ~(a <= b)
    BY <1>1, <1>3, <2>2
  <2>3. QED
    BY <2>1, <2>2
<1>5. L!Min(both) \in both /\ \A y \in both : L!Min(both) <= y
  BY <1>4 DEF L!Min
<1>6. QED
  BY <1>1, <1>2, <1>3, <1>5 DEF a, b

\* The batches.
LEMMA BatchTyped ==
    ASSUME IndexerInv, L!FetchBatch \/ L!SaveBatch PROVE IndexerInv'
<1> USE DEF IndexerInv
<1>1. CASE L!FetchBatch
  <2>1. PICK F :
           task' = [t \in L!Tasks |-> IF t[1] = "batch" /\ t[2] \in F THEN "check" ELSE task[t]]
    BY <1>1 DEF L!FetchBatch
  <2>2. TaskType'
    BY <2>1 DEF TaskType, LedgerPoints
  <2>3. ChainTypes' /\ StreamTypes'
    BY <1>1, BackfillOnly DEF L!FetchBatch, ChainTypes
  <2>4. JobTypes'
    BY <1>1 DEF L!FetchBatch, JobTypes, L!jobVars
  <2>5. BackfillType(backfill)'
    <3>1. /\ backfill' = [backfill EXCEPT !.at = "batch"]
          /\ backfill.seq <= backfill.range[2]
      BY <1>1 DEF L!FetchBatch, L!ToBackfill
    <3>2. QED
      BY <3>1 DEF BackfillType
  <2>6. QED
    BY <2>2, <2>3, <2>4, <2>5
<1>2. CASE L!SaveBatch
  <2> DEFINE r == backfill.range
             done == backfill.processed + (L!BatchEnd - backfill.seq + 1)
             row == [jobs[r] EXCEPT !.last = L!BatchEnd, !.processed = done]
  <2>1. /\ backfill.at = "batch" /\ L!Writes(r, row)
        /\ backfill' = [backfill EXCEPT !.at = "loop", !.seq = backfill.seq + BatchSize,
                                        !.processed = done]
        /\ task' = [t \in L!Tasks |-> IF t \in L!BatchTasks THEN "none" ELSE task[t]]
        /\ UNCHANGED <<boots, head, L!dbVars, app, last, L!streamVars, dlq, L!historyVars>>
    BY <1>2 DEF L!SaveBatch, L!AtBackfill
  <2>2. TaskType'
    BY <2>1 DEF TaskType, LedgerPoints
  <2>3. ChainTypes' /\ StreamTypes'
    BY <2>1, BackfillOnly DEF ChainTypes
  <2>4. /\ r \in L!Ranges /\ backfill.seq \in Int /\ backfill.seq >= 1
        /\ backfill.processed \in Int /\ backfill.processed >= 0
        /\ backfill.processed <= backfill.seq - 1
    BY DEF BackfillType
  <2>5. r[2] \in Int /\ r[2] <= LastLedger
    <3> HIDE DEF r
    <3>1. QED
      BY <2>4, RangeIs
  <2>6. /\ L!BatchEnd \in Int /\ L!BatchEnd >= backfill.seq /\ L!BatchEnd <= r[2]
    BY <2>1, BatchEndIs
  <2>7. /\ done \in Int /\ done >= 0 /\ done <= L!BatchEnd
        /\ done <= backfill.seq + BatchSize - 1
    <3> DEFINE a == backfill.seq + BatchSize - 1
    <3>1. L!BatchEnd <= a
      BY <2>1, BatchEndIs
    <3> HIDE DEF a
    <3>2. done \in Int /\ done >= 0 /\ done <= L!BatchEnd
      BY <2>4, <2>6
    <3> HIDE DEF done
    <3>3. a \in Int
      BY <2>4, ChainNumbers DEF a
    <3>4. QED
      BY <2>6, <3>1, <3>2, <3>3 DEF a
  <2>8. JobTypes'
    <3> HIDE DEF r, done
    <3>1. jobs[r] \in Rows
      BY <2>4, RowIs
    <3>2. L!BatchEnd \in 0..LastLedger /\ done \in 0..LastLedger
      BY <2>4, <2>5, <2>6, <2>7, ChainNumbers
    <3>3. row \in Rows /\ row.last = L!BatchEnd /\ row.processed = done
      BY <3>1, <3>2 DEF Rows
    <3> HIDE DEF row
    <3>4. QED
      BY <2>1, <2>4, <2>6, <2>7, <3>3, WriteTyped
  <2>9. BackfillType(backfill)'
    <3> DEFINE next == backfill.seq + BatchSize
    <3>1. next \in Int /\ next >= 1 /\ done <= next - 1 /\ done <= r[2]
      BY <2>4, <2>5, <2>6, <2>7, ChainNumbers
    <3>2. backfill' = [backfill EXCEPT !.at = "loop", !.seq = next, !.processed = done]
      BY <2>1
    <3> HIDE DEF next, done
    <3>3. QED
      BY <2>7, <3>1, <3>2 DEF BackfillType
  <2>10. QED
    BY <2>2, <2>3, <2>8, <2>9
<1>3. QED
  BY <1>1, <1>2

\* The backfill ends.
LEMMA FinishTyped ==
    ASSUME IndexerInv, L!FinishBackfill PROVE IndexerInv'
<1> USE DEF IndexerInv
<1> DEFINE r == backfill.range
           row == [status |-> "completed", last |-> r[2], processed |-> backfill.processed]
<1>1. /\ UNCHANGED L!jobVars \/ L!Writes(r, row)
      /\ backfill' = L!NoBackfill /\ app' \in {"up", app}
      /\ UNCHANGED <<boots, head, L!dbVars, last, L!streamVars, task, dlq, L!historyVars>>
  BY DEF L!FinishBackfill, L!Returns
<1>2. ChainTypes' /\ StreamTypes'
  <2>1. app' \in {"down", "booting", "up", "ending"}
    BY <1>1 DEF ChainTypes
  <2>2. QED
    BY <1>1, <2>1, BackfillOnly
<1>3. TaskType' /\ BackfillType(backfill)'
  BY <1>1, NoBackfillType DEF TaskType, BackfillType
<1>4. JobTypes'
  <2>1. CASE UNCHANGED L!jobVars
    BY <2>1 DEF JobTypes, L!jobVars
  <2>2. CASE L!Writes(r, row)
    <3>1. /\ r \in L!Ranges /\ backfill.processed \in Int /\ backfill.processed >= 0
          /\ backfill.processed <= r[2]
      BY DEF BackfillType
    <3>2. r[2] \in 0..LastLedger /\ backfill.processed \in 0..LastLedger /\ r[2] \in Int
      <4> HIDE DEF r
      <4>1. QED
        BY <3>1, RangeIs, ChainNumbers
    <3>3. row \in Rows /\ row.last = r[2] /\ row.processed = backfill.processed
      <4> HIDE DEF r
      <4>1. QED
        BY <3>2 DEF Rows
    <3> HIDE DEF row, r
    <3>4. QED
      BY <2>2, <3>1, <3>2, <3>3, WriteTyped
  <2>3. QED
    BY <1>1, <2>1, <2>2
<1>5. QED
  BY <1>2, <1>3, <1>4

LEMMA IndexerStep == ASSUME IndexerInv, [L!Next]_legacyVars PROVE IndexerInv'
<1>1. CASE UNCHANGED legacyVars
  BY <1>1 DEF legacyVars, IndexerInv, ChainTypes, StreamTypes, JobTypes, BackfillType, TaskType
<1>2. CASE L!Boot \/ L!Shutdown \/ L!Close \/ L!Deliver \/ L!StreamFails \/ L!Reconnect
  BY <1>2, StreamTyped
<1>3. CASE L!Crash
  <2>1. /\ L!Dies /\ UNCHANGED <<boots, head, L!dbVars, L!jobVars, dlq, failed, unqueued>>
    BY <1>3 DEF L!Crash
  <2>2. /\ dlq' \subseteq L!Ledgers /\ failed' \subseteq L!Ledgers /\ unqueued' \subseteq L!Ledgers
        /\ ledgers' \subseteq L!Ledgers /\ txs' \subseteq L!Ledgers
    BY <2>1 DEF IndexerInv, ChainTypes, L!dbVars
  <2>3. QED
    BY <2>1, <2>2, DeathTyped DEF L!dbVars
<1>4. CASE \E t \in L!Tasks : L!Task(t)
  BY <1>4, TaskTyped
<1>5. CASE L!StartBackfill \/ \E r \in Requests : L!ManualBackfill(r)
  BY <1>5, BeginsTyped
<1>6. CASE L!SetUpJob
  BY <1>6, SetUpTyped
<1>7. CASE L!FetchBatch \/ L!SaveBatch
  BY <1>7, BatchTyped
<1>8. CASE L!FinishBackfill
  BY <1>8, FinishTyped
<1>9. CASE L!BatchThrows \/ L!SetUpThrows \/ L!FinishThrows
  BY <1>9, BackfillThrowsTyped DEF L!BatchThrows, L!SetUpThrows, L!FinishThrows
<1>10. QED
  BY <1>1, <1>2, <1>3, <1>4, <1>5, <1>6, <1>7, <1>8, <1>9 DEF L!Next

LEMMA IndexerFollows == IndexerInv => L!TypeOK
<1> SUFFICES ASSUME IndexerInv PROVE L!TypeOK
  OBVIOUS
<1>1. ChainTypes /\ StreamTypes /\ JobTypes /\ TaskType
  BY DEF IndexerInv
<1>2. QED
  BY <1>1, Zenon DEF L!TypeOK, ChainTypes, StreamTypes, JobTypes, Rows, TaskType, LedgerPoints

-----------------------------------------------------------------------------

(* The gap detector.                                                       *)

LEMMA ScanCardinality == \A T : G!Cardinality(T) = Cardinality(T)
BY DEF G!Cardinality, Cardinality

LEMMA LowestIs ==
    ASSUME NEW m \in Int, NEW S, S \subseteq Int, S # {}, \A x \in S : x >= m
    PROVE  G!Lowest(S) \in S /\ \A y \in S : G!Lowest(S) <= y
<1>1. \E x \in S : \A y \in S : x <= y
  BY LeastExists
<1>2. QED
  BY <1>1, Zenon DEF G!Lowest

LEMMA HighestIs ==
    ASSUME NEW m \in Int, NEW S, S \subseteq Int, S # {}, \A x \in S : x <= m
    PROVE  G!Highest(S) \in S /\ \A y \in S : y <= G!Highest(S)
<1>1. \E x \in S : \A y \in S : y <= x
  BY GreatestExists
<1>2. QED
  BY <1>1, Zenon DEF G!Highest

\* A set within bounds that has as many members as there are numbers between
\* them is all of these numbers.
LEMMA FullRange ==
    ASSUME NEW lo \in Int, NEW hi \in Int, lo <= hi,
           NEW S, S \subseteq lo..hi, Cardinality(S) >= hi - lo + 1
    PROVE  S = lo..hi
<1>1. IsFiniteSet(lo..hi) /\ Cardinality(lo..hi) = hi - lo + 1
  BY FS_Interval
<1>2. /\ Cardinality(S) <= Cardinality(lo..hi)
      /\ Cardinality(lo..hi) = Cardinality(S) => lo..hi = S
  BY <1>1, FS_Subset
<1>3. Cardinality(S) \in Nat
  BY <1>1, FS_Subset, FS_CardinalityType
<1>4. QED
  BY <1>1, <1>2, <1>3

\* The end of what a walk has seen.
LEMMA WalkEnd ==
    ASSUME NEW top \in Int, NEW seen, seen \subseteq Int, \A x \in seen : x <= top,
           NEW before \in Int
    PROVE  LET T == seen \union {before} IN
           G!Highest(T) \in T /\ G!Highest(T) \in Int /\ \A y \in T : y <= G!Highest(T)
<1> DEFINE T == seen \union {before}
<1>1. PICK m \in Int : \A x \in T : x <= m
  <2>1. CASE before <= top
    BY <2>1
  <2>2. CASE ~(before <= top)
    <3>1. \A x \in T : x <= before
      BY <2>2
    <3>2. QED
      BY <3>1
  <2>3. QED
    BY <2>1, <2>2
<1>2. T \subseteq Int /\ T # {}
  OBVIOUS
<1> HIDE DEF T
<1>3. G!Highest(T) \in T /\ \A y \in T : y <= G!Highest(T)
  BY <1>1, <1>2, HighestIs
<1>4. QED
  BY <1>2, <1>3 DEF T

\* A report of gaps is a finite set of ranges of counts.
Reports == {T \in SUBSET G!Gaps : IsFiniteSet(T)}

LEMMA WalkType ==
    ASSUME NEW top \in Int, NEW seen, seen \subseteq Int, \A x \in seen : 0 <= x /\ x <= top,
           NEW before \in Int, -1 <= before, NEW hi \in Int
    PROVE  G!Walk(seen, before, hi) \in Reports
<1> DEFINE Pairs == {p \in (seen \union {before}) \X seen :
                        p[2] > p[1] + 1 /\ \A c \in seen : ~(p[1] < c /\ c < p[2])}
           Between == {<<q[1] + 1, q[2] - 1>> : q \in Pairs}
           end == G!Highest(seen \union {before})
           Behind == IF end < hi THEN {<<end + 1, hi>>} ELSE {}
<1>1. end \in Int /\ -1 <= end
  <2>1. end \in seen \union {before} /\ end \in Int
    BY WalkEnd
  <2> HIDE DEF end
  <2>2. QED
    BY <2>1
<1>2. ASSUME NEW q \in Pairs
      PROVE  <<q[1] + 1, q[2] - 1>> \in G!Gaps /\ <<q[1] + 1, q[2] - 1>> \in (0..top) \X (0..top)
  <2>1. /\ q[1] \in Int /\ q[2] \in Int /\ -1 <= q[1] /\ q[2] <= top /\ q[2] > q[1] + 1
    <3>1. q[1] \in seen \union {before} /\ q[2] \in seen /\ q[2] > q[1] + 1
      OBVIOUS
    <3> HIDE DEF Pairs
    <3>2. \A x \in seen \union {before} : x \in Int /\ -1 <= x
      OBVIOUS
    <3>3. QED
      BY <3>1, <3>2
  <2>2. q[1] + 1 \in 0..top /\ q[2] - 1 \in 0..top /\ q[1] + 1 <= q[2] - 1
    BY <2>1
  <2> HIDE DEF Pairs
  <2>3. QED
    BY <2>2 DEF G!Gaps
<1>3. Between \subseteq G!Gaps /\ Between \subseteq (0..top) \X (0..top)
  BY <1>2
<1> HIDE DEF Between, end
<1>4. IsFiniteSet(Between)
  <2>1. IsFiniteSet(0..top)
    BY FS_Interval
  <2>2. IsFiniteSet((0..top) \X (0..top))
    BY <2>1, FS_Product
  <2>3. QED
    BY <1>3, <2>2, FS_Subset
<1>5. Behind \subseteq G!Gaps /\ IsFiniteSet(Behind)
  <2>1. CASE end < hi
    <3>1. end + 1 \in Nat /\ hi \in Nat /\ end + 1 <= hi
      BY <1>1, <2>1
    <3>2. <<end + 1, hi>> \in G!Gaps
      BY <3>1 DEF G!Gaps
    <3>3. QED
      BY <2>1, <3>2, FS_Singleton
  <2>2. CASE ~(end < hi)
    BY <2>2, FS_EmptySet
  <2>3. QED
    BY <2>1, <2>2
<1>6. G!Walk(seen, before, hi) = Between \union Behind
  BY DEF G!Walk, Between, end
<1> HIDE DEF Behind
<1>7. QED
  BY <1>3, <1>4, <1>5, <1>6, FS_Union DEF Reports

\* What one of the gaps holds is covered.
LEMMA CoveredBy ==
    ASSUME NEW gaps, NEW x, NEW y, <<x, y>> \in gaps, NEW s \in x..y
    PROVE  s \in G!Covered(gaps)
<1>1. <<x, y>>[1] = x /\ <<x, y>>[2] = y
  OBVIOUS
<1>2. x..y \in {g[1]..g[2] : g \in gaps}
  BY <1>1
<1>3. QED
  BY <1>2 DEF G!Covered

\* The walk over the sorted rows names every number that it does not see,
\* from the one behind "before" to hi.
LEMMA WalkCovers ==
    ASSUME NEW top \in Int, NEW seen, seen \subseteq Int, \A x \in seen : x <= top,
           NEW before \in Int, NEW hi \in Int,
           NEW s \in Int, before < s, s <= hi, s \notin seen
    PROVE  s \in G!Covered(G!Walk(seen, before, hi))
<1> DEFINE Pairs == {p \in (seen \union {before}) \X seen :
                        p[2] > p[1] + 1 /\ \A c \in seen : ~(p[1] < c /\ c < p[2])}
           Between == {<<q[1] + 1, q[2] - 1>> : q \in Pairs}
           end == G!Highest(seen \union {before})
           Down == {x \in seen \union {before} : x < s}
           Up == {x \in seen : s < x}
<1>1. G!Walk(seen, before, hi) = Between \union (IF end < hi THEN {<<end + 1, hi>>} ELSE {})
  BY DEF G!Walk
<1>2. PICK a \in Down : \A y \in Down : y <= a
  <2>1. Down \subseteq Int /\ before \in Down
    OBVIOUS
  <2>2. \A x \in Down : x <= s
    BY <2>1
  <2> HIDE DEF Down
  <2>3. Down # {}
    BY <2>1
  <2>4. QED
    BY <2>1, <2>2, <2>3, GreatestExists, Zenon
<1>3. CASE Up # {}
  <2>1. PICK b \in Up : \A y \in Up : b <= y
    <3>1. Up \subseteq Int
      OBVIOUS
    <3>2. \A x \in Up : x >= s
      BY <3>1
    <3> HIDE DEF Up
    <3>3. QED
      BY <1>3, <3>1, <3>2, LeastExists, Zenon
  <2>2. a \in Int /\ b \in Int /\ a < s /\ s < b
    BY <1>2, <2>1
  <2>3. \A c \in seen : ~(a < c /\ c < b)
    <3>1. ASSUME NEW c \in seen, a < c, c < b PROVE FALSE
      <4>1. c \in Int /\ c # s
        OBVIOUS
      <4>2. CASE c < s
        BY <1>2, <2>2, <3>1, <4>1, <4>2
      <4>3. CASE s < c
        BY <2>1, <2>2, <3>1, <4>1, <4>3
      <4>4. QED
        BY <4>1, <4>2, <4>3
    <3>2. QED
      BY <3>1
  <2>4. <<a, b>> \in Pairs
    BY <1>2, <2>1, <2>2, <2>3
  <2>5. <<a + 1, b - 1>> \in Between
    <3> HIDE DEF Pairs
    <3>1. <<a, b>>[1] = a /\ <<a, b>>[2] = b
      OBVIOUS
    <3>2. QED
      BY <2>4, <3>1
  <2>6. s \in (a + 1)..(b - 1)
    BY <2>2
  <2> HIDE DEF Between
  <2>7. QED
    BY <1>1, <2>5, <2>6, CoveredBy
<1>4. CASE Up = {}
  <2>1. /\ end \in seen \union {before} /\ end \in Int
    BY WalkEnd
  <2>2. end < s
    BY <1>4, <2>1
  <2>3. s \in (end + 1)..hi /\ end < hi
    BY <2>1, <2>2
  <2> HIDE DEF Between, end
  <2>4. QED
    BY <1>1, <2>3, CoveredBy
<1>5. QED
  BY <1>3, <1>4

-----------------------------------------------------------------------------

\* What is assumed of the constants.
Numbers == LastRow \in Nat /\ RecordCount \in Nat /\ HorizonSeq \in Nat /\ Settled \in Nat

Scans == [at : {"off", "range", "count", "rows", "done"}, lo : Nat, hi : Int,
          gaps : Reports]

LEMMA NothingReported == {} \in Reports
BY FS_EmptySet DEF Reports

GapTypes ==
    /\ rows \subseteq G!Ledgers /\ filed \subseteq G!Ledgers
    /\ scan \in [G!Kinds -> Scans]

\* The scan of the table starts at a ledger that is there; the lag scan has
\* its bounds from its caller.
Bounds ==
    /\ scan["db"].at = "rows" => scan["db"].lo \in rows
    /\ scan["lag"].at # "range"

\* HolesFound for one scan.
NamesHoles(sc) ==
    sc.at = "done" /\ sc.hi > sc.lo =>
        \A s \in sc.lo..sc.hi : s \in rows \/ s \in G!Covered(sc.gaps)

GapInv == GapTypes /\ Bounds /\ NamesHoles(scan["db"]) /\ NamesHoles(scan["lag"])

LEMMA InitGaps == G!Init => GapInv
BY NothingReported DEF G!Init, GapInv, GapTypes, Bounds, NamesHoles, G!NoScan, Scans, G!Kinds

\* The sequences a scan reads are numbers between 0 and a bound.
LEMMA SequencesBounded ==
    ASSUME Numbers, GapTypes, NEW k
    PROVE  /\ G!Sequences(k) \subseteq Int
           /\ \A x \in G!Sequences(k) : x >= 0
           /\ \E top \in Int : \A x \in G!Sequences(k) : x <= top
<1>1. G!Sequences(k) \subseteq G!Ledgers \union {RecordCount}
  BY DEF G!Sequences, GapTypes
<1>2. \A x \in G!Ledgers \union {RecordCount} : x \in Int /\ x >= 0 /\ x <= LastRow + RecordCount
  BY DEF Numbers, G!Ledgers
<1>3. LastRow + RecordCount \in Int
  BY DEF Numbers
<1>4. QED
  BY <1>1, <1>2, <1>3

\* The first statement of a scan.
LEMMA ReadRangeStep ==
    ASSUME Numbers, GapInv, NEW k \in G!Kinds, G!ReadRange(k)
    PROVE  GapInv'
<1> USE DEF GapInv, GapTypes
<1> DEFINE S == G!Sequences(k)
           lo == IF S = {} THEN 1 ELSE G!Lowest(S)
           hi == IF S = {} THEN 1 ELSE G!Highest(S)
           whole == S = {} \/ G!Count(k) >= G!Highest(S) - G!Lowest(S) + 1
           after == [at |-> IF whole THEN "done" ELSE "rows", gaps |-> {}, lo |-> lo, hi |-> hi]
<1>1. scan' = [scan EXCEPT ![k] = after] /\ UNCHANGED <<rows, filed>> /\ scan[k].at = "range"
  BY DEF G!ReadRange
<1>2. S \subseteq Int /\ (\A x \in S : x >= 0) /\ \E top \in Int : \A x \in S : x <= top
  BY SequencesBounded
<1>3. ASSUME S # {}
      PROVE  /\ G!Lowest(S) \in S /\ \A y \in S : G!Lowest(S) <= y
             /\ G!Highest(S) \in S /\ \A y \in S : y <= G!Highest(S)
  <2> HIDE DEF S
  <2>1. 0 \in Int
    OBVIOUS
  <2>2. QED
    BY <1>2, <1>3, <2>1, LowestIs, HighestIs, Zenon
<1>4. lo \in Int /\ lo >= 0 /\ hi \in Int
  <2>1. CASE S = {}
    BY <2>1
  <2>2. CASE S # {}
    <3>1. lo = G!Lowest(S) /\ hi = G!Highest(S)
      BY <2>2
    <3> HIDE DEF S, lo, hi
    <3>2. G!Lowest(S) \in S /\ G!Highest(S) \in S
      BY <1>3, <2>2
    <3>3. QED
      BY <1>2, <3>1, <3>2
  <2>3. QED
    BY <2>1, <2>2
<1>5. after \in Scans
  <2> HIDE DEF lo, hi, whole
  <2>1. QED
    BY <1>4, NothingReported DEF Scans
<1>6. GapTypes'
  <2> HIDE DEF after
  <2>1. QED
    BY <1>1, <1>5
<1>7. k # "lag"
  BY <1>1 DEF Bounds
<1>8. CASE k = "db"
  <2>1. S = rows
    BY <1>8 DEF G!Sequences
  <2>2. scan'["db"] = after /\ scan'["lag"] = scan["lag"]
    <3> HIDE DEF after
    <3>1. QED
      BY <1>1, <1>8 DEF G!Kinds
  <2>3. ASSUME ~whole PROVE lo \in rows
    BY <1>3, <2>1, <2>3
  <2>4. Bounds'
    <3> HIDE DEF lo, hi, whole
    <3>1. QED
      BY <1>1, <2>2, <2>3 DEF Bounds
  <2>5. ASSUME whole, hi > lo PROVE \A s \in lo..hi : s \in rows
    <3>1. S # {}
      BY <2>5
    <3>2. S \subseteq lo..hi
      BY <1>2, <1>3, <1>4, <3>1
    <3>3. Cardinality(S) >= hi - lo + 1
      BY <1>8, <2>1, <2>5, <3>1, ScanCardinality DEF G!Count
    <3> HIDE DEF S, lo, hi
    <3>4. lo <= hi
      BY <1>4, <2>5
    <3>5. S = lo..hi
      BY <1>4, <3>2, <3>3, <3>4, FullRange
    <3>6. QED
      BY <2>1, <3>5
  <2>6. NamesHoles(scan["db"])'
    <3> HIDE DEF lo, hi, whole
    <3>1. QED
      BY <1>1, <2>2, <2>5 DEF NamesHoles
  <2>7. NamesHoles(scan["lag"])'
    BY <1>1, <2>2 DEF NamesHoles
  <2>8. QED
    BY <1>6, <2>4, <2>6, <2>7
<1>9. CASE k # "db"
  <2>1. scan'["db"] = scan["db"] /\ scan'["lag"] = scan["lag"]
    <3> HIDE DEF after
    <3>1. QED
      BY <1>1, <1>7, <1>9 DEF G!Kinds
  <2>2. QED
    BY <1>1, <1>6, <2>1 DEF Bounds, NamesHoles
<1>10. QED
  BY <1>8, <1>9

\* The second statement: what was read is walked.
LEMMA ReadRowsStep ==
    ASSUME Numbers, GapInv, NEW k \in G!Kinds, G!ReadRows(k)
    PROVE  GapInv'
<1> USE DEF GapInv, GapTypes
<1> DEFINE S == IF k = "db" THEN rows
                ELSE {s \in G!Sequences(k) : scan[k].lo <= s /\ s <= scan[k].hi}
           before == IF k = "lag" THEN scan[k].lo - 1 ELSE scan[k].lo
           found == G!Walk(S, before, scan[k].hi)
<1>1. /\ scan' = [scan EXCEPT ![k].at = "done", ![k].gaps = found]
      /\ UNCHANGED <<rows, filed>> /\ scan[k].at = "rows"
  BY DEF G!ReadRows
<1>2. scan[k] \in Scans /\ scan[k].lo \in Int /\ scan[k].hi \in Int
  BY DEF Scans
<1>3. S \subseteq G!Sequences(k)
  BY DEF G!Sequences
<1>4. PICK top \in Int : \A x \in S : x <= top
  <2> HIDE DEF S
  <2>1. QED
    BY <1>3, SequencesBounded
<1>5. S \subseteq Int /\ before \in Int
  <2>1. before \in Int
    BY <1>2
  <2> HIDE DEF S, before
  <2>2. QED
    BY <1>3, <2>1, SequencesBounded
<1>6. found \in Reports
  <2>1. -1 <= before
    BY <1>2 DEF Scans
  <2>2. \A x \in S : 0 <= x /\ x <= top
    <3> HIDE DEF S
    <3>1. QED
      BY <1>3, <1>4, <1>5, SequencesBounded
  <2> HIDE DEF S, before
  <2>3. QED
    BY <1>2, <1>5, <2>1, <2>2, WalkType
<1>7. \A s \in Int : before < s /\ s <= scan[k].hi => s \in S \/ s \in G!Covered(found)
  <2> HIDE DEF S, before
  <2>1. QED
    BY <1>2, <1>4, <1>5, WalkCovers
<1> HIDE DEF found
<1>8. /\ scan'[k].at = "done" /\ scan'[k].gaps = found
      /\ scan'[k].lo = scan[k].lo /\ scan'[k].hi = scan[k].hi
      /\ \A j \in G!Kinds : j # k => scan'[j] = scan[j]
  BY <1>1, <1>2 DEF Scans
<1>9. GapTypes'
  BY <1>1, <1>2, <1>6 DEF Scans
<1>10. ASSUME k \in {"db", "lag"} PROVE NamesHoles(scan[k])'
  <2>1. S \subseteq rows
    BY <1>10 DEF G!Sequences
  <2>2. ASSUME NEW s \in scan[k].lo..scan[k].hi
        PROVE  s \in rows \/ s \in G!Covered(found)
    <3>1. s \in Int /\ scan[k].lo <= s /\ s <= scan[k].hi
      BY <1>2
    <3>2. before < s \/ s \in rows
      <4>1. CASE k = "db"
        BY <1>1, <1>2, <3>1, <4>1 DEF Bounds
      <4>2. CASE k = "lag"
        BY <1>2, <3>1, <4>2
      <4>3. QED
        BY <1>10, <4>1, <4>2
    <3> HIDE DEF S, before
    <3>3. QED
      BY <1>7, <2>1, <3>1, <3>2
  <2>3. QED
    BY <1>1, <1>8, <2>2 DEF NamesHoles
<1>11. Bounds'
  BY <1>1, <1>8 DEF Bounds, G!Kinds
<1>12. NamesHoles(scan["db"])' /\ NamesHoles(scan["lag"])'
  BY <1>1, <1>8, <1>10 DEF NamesHoles, G!Kinds
<1>13. QED
  BY <1>9, <1>11, <1>12

\* The lag scan: its bounds, and its count of the ledgers between them.
LEMMA LagStep ==
    ASSUME Numbers, GapInv, G!CountLag \/ \E newest \in G!Ledgers : G!DetectLag(newest)
    PROVE  GapInv'
<1> USE DEF GapInv, GapTypes
<1>0. "lag" \in G!Kinds /\ "db" \in G!Kinds /\ scan["lag"] \in Scans
  BY DEF G!Kinds
<1>1. CASE G!CountLag
  <2> DEFINE lo == scan["lag"].lo
             hi == scan["lag"].hi
             present == {s \in rows : lo <= s /\ s <= hi}
             at == IF Cardinality(present) >= hi - lo + 1 THEN "done" ELSE "rows"
  <2>1. scan' = [scan EXCEPT !["lag"].at = at] /\ UNCHANGED <<rows, filed>>
    BY <1>1, ScanCardinality DEF G!CountLag
  <2>2. lo \in Int /\ hi \in Int /\ at \in {"done", "rows"}
    BY <1>0 DEF Scans
  <2>3. ASSUME at = "done", hi > lo PROVE \A s \in lo..hi : s \in rows
    <3>0. rows \subseteq Int /\ lo <= hi
      BY <2>2, <2>3 DEF G!Ledgers, Numbers
    <3>1. ASSUME NEW s \in present PROVE s \in lo..hi
      <4>1. s \in Int /\ lo <= s /\ s <= hi
        BY <3>0
      <4> HIDE DEF lo, hi
      <4>2. QED
        BY <2>2, <4>1
    <3>2. Cardinality(present) >= hi - lo + 1
      BY <2>3
    <3>3. present \subseteq rows
      OBVIOUS
    <3> HIDE DEF present, lo, hi
    <3>4. present = lo..hi
      <4>1. present \subseteq lo..hi
        BY <3>1
      <4>2. QED
        BY <2>2, <3>0, <3>2, <4>1, FullRange
    <3>5. QED
      BY <3>3, <3>4
  <2> HIDE DEF at
  <2>4. /\ scan'["lag"].at = at /\ scan'["lag"].lo = lo /\ scan'["lag"].hi = hi
        /\ scan'["db"] = scan["db"]
    BY <1>0, <2>1 DEF Scans
  <2>5. GapTypes'
    BY <1>0, <2>1, <2>2 DEF Scans
  <2>6. Bounds'
    BY <2>1, <2>2, <2>4 DEF Bounds
  <2>7. NamesHoles(scan["lag"])' /\ NamesHoles(scan["db"])'
    BY <2>1, <2>3, <2>4 DEF NamesHoles
  <2>8. QED
    BY <2>5, <2>6, <2>7
<1>2. ASSUME NEW newest \in G!Ledgers, G!DetectLag(newest) PROVE GapInv'
  <2> DEFINE after == [at |-> IF HorizonSeq - Settled - newest <= 1 THEN "done" ELSE "count",
                       lo |-> newest + 1, hi |-> HorizonSeq - Settled, gaps |-> {}]
  <2>1. scan' = [scan EXCEPT !["lag"] = after] /\ UNCHANGED <<rows, filed>>
    BY <1>2 DEF G!DetectLag
  <2>2. newest \in Int /\ HorizonSeq \in Int /\ Settled \in Int
    BY DEF G!Ledgers, Numbers
  <2>3. after \in Scans /\ after.at # "range" /\ NamesHoles(after)
    BY <2>2, NothingReported DEF Scans, NamesHoles, G!Ledgers
  <2> HIDE DEF after
  <2>4. scan'["lag"] = after /\ scan'["db"] = scan["db"] /\ GapTypes'
    BY <1>0, <2>1, <2>3
  <2>5. QED
    BY <2>1, <2>3, <2>4 DEF Bounds, NamesHoles
<1>3. QED
  BY <1>1, <1>2

\* Every step keeps what a finished scan promises.
LEMMA GapStep ==
    ASSUME Numbers
    PROVE  GapInv /\ [G!Next]_gapVars => GapInv'
<1> SUFFICES ASSUME GapInv, [G!Next]_gapVars PROVE GapInv'
  OBVIOUS
<1>a. ASSUME UNCHANGED scan, rows \subseteq rows', rows' \subseteq G!Ledgers, filed' \subseteq G!Ledgers
      PROVE  GapInv'
  BY <1>a DEF GapInv, GapTypes, Bounds, NamesHoles
<1>1. CASE UNCHANGED gapVars
  BY <1>1, <1>a DEF gapVars, GapInv, GapTypes
<1>2. ASSUME NEW s \in G!Ledgers, G!Store(s) \/ G!FileTransactions(s) PROVE GapInv'
  BY <1>2, <1>a DEF G!Store, G!FileTransactions, GapInv, GapTypes
<1>3. CASE G!FileLedger \/ G!Merge \/ G!RecoverGap \/ G!Recovered
  BY <1>3, <1>a DEF G!FileLedger, G!Merge, G!RecoverGap, G!Recovered, GapInv, GapTypes
<1>4. ASSUME NEW k \in G!Kinds, G!ReadRange(k) \/ G!ReadRows(k) PROVE GapInv'
  BY <1>4, ReadRangeStep, ReadRowsStep
<1>5. CASE G!CountLag \/ \E newest \in G!Ledgers : G!DetectLag(newest)
  BY <1>5, LagStep
<1>6. ASSUME NEW k \in G!Kinds, G!ScanFails(k) PROVE GapInv'
  <2>1. G!NoScan \in Scans /\ G!NoScan.at = "off"
    BY NothingReported DEF G!NoScan, Scans
  <2>2. /\ UNCHANGED <<rows, filed>>
        /\ \/ scan' = [scan EXCEPT !["lag"] = G!NoScan]
           \/ scan' = [scan EXCEPT !["db"] = G!NoScan, !["idem"] = G!NoScan]
    BY <1>6 DEF G!ScanFails
  <2>3. GapTypes' /\ \A j \in {"db", "lag"} : scan'[j] = scan[j] \/ scan'[j].at = "off"
    BY <2>1, <2>2 DEF GapInv, GapTypes, G!Kinds
  <2>4. QED
    BY <2>2, <2>3 DEF GapInv, Bounds, NamesHoles
<1>7. CASE G!Recover
  <2> DEFINE fresh == [G!NoScan EXCEPT !.at = "range"]
  <2>1. fresh \in Scans /\ fresh.at = "range"
    BY NothingReported DEF G!NoScan, Scans
  <2>2. /\ UNCHANGED <<rows, filed>>
        /\ scan' = [scan EXCEPT !["db"] = fresh, !["idem"] = fresh]
    BY <1>7 DEF G!Recover
  <2> HIDE DEF fresh
  <2>3. GapTypes' /\ scan'["lag"] = scan["lag"] /\ scan'["db"] = fresh
    BY <2>1, <2>2 DEF GapInv, GapTypes, G!Kinds
  <2>4. QED
    BY <2>1, <2>2, <2>3 DEF GapInv, Bounds, NamesHoles
<1>8. QED
  BY <1>1, <1>2, <1>3, <1>4, <1>5, <1>6, <1>7 DEF G!Next

-----------------------------------------------------------------------------

\* "Before" orders the ranges.
LEMMA BeforeOrders ==
    ASSUME NEW a \in G!Gaps, NEW b \in G!Gaps, NEW c \in G!Gaps
    PROVE  /\ ~G!Before(a, a)
           /\ G!Before(a, b) \/ a = b \/ G!Before(b, a)
           /\ G!Before(a, b) => ~G!Before(b, a)
           /\ G!Before(a, b) /\ G!Before(b, c) => G!Before(a, c)
<1>1. /\ a = <<a[1], a[2]>> /\ b = <<b[1], b[2]>>
      /\ a[1] \in Nat /\ a[2] \in Nat /\ b[1] \in Nat /\ b[2] \in Nat
      /\ c[1] \in Nat /\ c[2] \in Nat
  BY DEF G!Gaps
<1>2. QED
  BY <1>1 DEF G!Before

\* The place of a range in a report is how many come before it, and itself.
LEMMA PlacesExist ==
    ASSUME NEW S \in Reports
    PROVE  \E place \in Bijection(S, 1..Cardinality(S)) :
              \A a, b \in S : G!Before(a, b) => place[a] < place[b]
<1> DEFINE n == Cardinality(S)
           Upto(a) == {b \in S : b = a \/ G!Before(b, a)}
           place == [a \in S |-> Cardinality(Upto(a))]
<1>1. S \subseteq G!Gaps /\ IsFiniteSet(S) /\ n \in Nat
  BY FS_CardinalityType DEF Reports
<1>2. ASSUME NEW a \in S
      PROVE  /\ IsFiniteSet(Upto(a)) /\ Cardinality(Upto(a)) \in Nat
             /\ place[a] = Cardinality(Upto(a)) /\ place[a] \in 1..n
  <2>1. Upto(a) \in SUBSET S /\ a \in Upto(a)
    OBVIOUS
  <2>2. place[a] = Cardinality(Upto(a))
    OBVIOUS
  <2> HIDE DEF Upto, place
  <2>3. IsFiniteSet(Upto(a)) /\ Cardinality(Upto(a)) <= n
    BY <1>1, <2>1, FS_Subset
  <2>4. Cardinality(Upto(a)) \in Nat /\ Cardinality(Upto(a)) # 0
    BY <2>1, <2>3, FS_CardinalityType, FS_EmptySet
  <2> HIDE DEF n
  <2>5. QED
    BY <1>1, <2>2, <2>3, <2>4
<1>3. ASSUME NEW a \in S, NEW b \in S, G!Before(a, b) PROVE place[a] < place[b]
  <2>1. Upto(a) \in SUBSET Upto(b)
    BY <1>1, <1>3, BeforeOrders
  <2>2. b \in Upto(b) /\ b \notin Upto(a)
    BY <1>1, <1>3, BeforeOrders
  <2> HIDE DEF Upto, place
  <2>3. Cardinality(Upto(a)) <= Cardinality(Upto(b)) /\ Cardinality(Upto(a)) # Cardinality(Upto(b))
    BY <1>2, <2>1, <2>2, FS_Subset
  <2>4. QED
    BY <1>2, <2>3
<1>4. place \in [S -> 1..n]
  BY <1>2
<1> HIDE DEF place, n
<1>5. \A a, b \in S : a # b => place[a] # place[b]
  <2>1. SUFFICES ASSUME NEW a \in S, NEW b \in S, a # b PROVE place[a] # place[b]
    OBVIOUS
  <2>2. place[a] < place[b] \/ place[b] < place[a]
    BY <1>1, <1>3, <2>1, BeforeOrders
  <2>3. place[a] \in Int /\ place[b] \in Int
    BY <1>1, <1>4
  <2>4. QED
    BY <2>2, <2>3
<1>6. place \in Injection(S, 1..n)
  BY <1>4, <1>5 DEF Injection, IsInjective
<1>7. IsFiniteSet(1..n) /\ Cardinality(1..n) = n
  BY <1>1, FS_Interval
<1>8. place \in Surjection(S, 1..n)
  BY <1>6, <1>7, FS_Injection DEF n
<1>9. QED
  BY <1>3, <1>6, <1>8 DEF Bijection, n

\* The ranges of a report, sorted.
LEMMA SortedIs ==
    ASSUME NEW S \in Reports
    PROVE  LET s == G!Sorted(S) IN
           /\ s \in Seq(G!Gaps) /\ Len(s) = Cardinality(S) /\ Cardinality(S) \in Nat
           /\ S = {s[i] : i \in 1..Len(s)}
           /\ \A i, j \in 1..Len(s) : i < j => s[i][1] <= s[j][1]
<1> DEFINE n == Cardinality(S)
           Fine(s) == /\ \A i, j \in DOMAIN s : i < j => G!Before(s[i], s[j])
                      /\ S = {s[i] : i \in DOMAIN s}
<1>1. S \subseteq G!Gaps /\ IsFiniteSet(S) /\ n \in Nat
  BY FS_CardinalityType DEF Reports
<1>2. G!Sorted(S) = CHOOSE s \in [1..n -> S] : Fine(s)
  BY ScanCardinality DEF G!Sorted
<1>3. PICK place \in Bijection(S, 1..n) : \A a, b \in S : G!Before(a, b) => place[a] < place[b]
  BY PlacesExist
<1> HIDE DEF n
<1>4. /\ place \in [S -> 1..n]
      /\ \A i \in 1..n : \E a \in S : place[a] = i
  BY <1>3 DEF Bijection, Surjection
<1> DEFINE s == [i \in 1..n |-> CHOOSE a \in S : place[a] = i]
<1>5. \A i \in 1..n : s[i] \in S /\ place[s[i]] = i
  BY <1>4
<1>6. s \in [1..n -> S] /\ DOMAIN s = 1..n
  BY <1>5
<1>6a. \A a \in S : place[a] \in 1..n /\ s[place[a]] = a
  <2>1. ASSUME NEW a \in S PROVE place[a] \in 1..n /\ s[place[a]] = a
    <3> HIDE DEF s
    <3>1. place[a] \in 1..n
      BY <1>4
    <3>2. s[place[a]] \in S /\ place[s[place[a]]] = place[a]
      BY <1>5, <3>1
    <3>3. QED
      BY <1>3, <3>1, <3>2 DEF Bijection, Injection, IsInjective
  <2>2. QED
    BY <2>1
<1> HIDE DEF s
<1>7. ASSUME NEW i \in 1..n, NEW j \in 1..n, i < j PROVE G!Before(s[i], s[j])
  <2>1. s[i] \in S /\ s[j] \in S /\ place[s[i]] = i /\ place[s[j]] = j
    BY <1>5
  <2>2. s[i] # s[j] /\ ~(place[s[j]] < place[s[i]])
    BY <1>7, <2>1
  <2>3. QED
    BY <1>1, <1>3, <2>1, <2>2, BeforeOrders
<1>8. Fine(s)
  <2>1. S = {s[i] : i \in 1..n}
    BY <1>5, <1>6a
  <2>2. QED
    BY <1>6, <1>7, <2>1
<1> DEFINE t == G!Sorted(S)
<1>9. t \in [1..n -> S] /\ Fine(t)
  <2> HIDE DEF Fine
  <2>1. QED
    BY <1>2, <1>6, <1>8
<1> HIDE DEF t
<1>10. t \in Seq(G!Gaps) /\ Len(t) = n /\ DOMAIN t = 1..n
  <2>1. t \in [1..n -> G!Gaps]
    BY <1>1, <1>9
  <2>2. t \in Seq(G!Gaps)
    BY <1>1, <2>1, IsASeq
  <2>3. QED
    BY <1>1, <1>9, <2>2, LenProperties
<1>11. ASSUME NEW i \in 1..n, NEW j \in 1..n, i < j PROVE t[i][1] <= t[j][1]
  <2>1. G!Before(t[i], t[j])
    BY <1>9, <1>10, <1>11
  <2>2. t[i] \in G!Gaps /\ t[j] \in G!Gaps
    BY <1>1, <1>9
  <2>3. t[i][1] \in Nat /\ t[j][1] \in Nat
    BY <2>2 DEF G!Gaps
  <2>4. QED
    BY <2>1, <2>3 DEF G!Before
<1>12. QED
  BY <1>1, <1>9, <1>10, <1>11 DEF t, n

-----------------------------------------------------------------------------

\* The numbers in the first k ranges.
Spanned(gaps, k) == {x \in Nat : \E i \in 1..k : gaps[i][1] <= x /\ x <= gaps[i][2]}

\* Merged ranges neither overlap nor touch.
Separated(gaps) ==
    \A i, j \in 1..Len(gaps) : i < j => gaps[i][2] + 1 < gaps[j][1]

LEMMA GapIs ==
    ASSUME NEW g \in G!Gaps
    PROVE  g = <<g[1], g[2]>> /\ g[1] \in Nat /\ g[2] \in Nat /\ g[1] <= g[2]
BY DEF G!Gaps

LEMMA HigherIs ==
    ASSUME NEW a \in Nat, NEW b \in Nat
    PROVE  /\ G!Highest({a, b}) \in Nat
           /\ G!Highest({a, b}) = IF a <= b THEN b ELSE a
<1> DEFINE top == IF a <= b THEN b ELSE a
<1>1. top \in Int /\ {a, b} \subseteq Int /\ {a, b} # {} /\ \A x \in {a, b} : x <= top
  OBVIOUS
<1> DEFINE P == {a, b}
<1>2. G!Highest(P) \in P /\ \A y \in P : y <= G!Highest(P)
  <2>1. top \in Int /\ P \subseteq Int /\ P # {} /\ \A x \in P : x <= top
    BY <1>1
  <2> HIDE DEF P, top
  <2>2. QED
    BY <2>1, HighestIs
<1>3. QED
  BY <1>2

LEMMA JoinType ==
    ASSUME NEW gaps \in Seq(G!Gaps), NEW g \in G!Gaps
    PROVE  G!Join(gaps, g) \in Seq(G!Gaps)
<1> DEFINE n == Len(gaps)
           wide == <<gaps[n][1], G!Highest({gaps[n][2], g[2]})>>
<1>1. CASE gaps # <<>> /\ g[1] <= gaps[n][2] + 1
  <2>1. n \in 1..n
    BY <1>1, LenProperties, EmptySeq
  <2>2. gaps[n] \in G!Gaps
    BY <2>1, ElementOfSeq
  <2>3. wide \in G!Gaps
    <3> DEFINE a == gaps[n]
    <3>1. a[1] \in Nat /\ a[2] \in Nat /\ a[1] <= a[2] /\ g[1] \in Nat /\ g[2] \in Nat
      BY <2>2, GapIs
    <3> DEFINE top == G!Highest({a[2], g[2]})
    <3>2. top \in Nat /\ top = IF a[2] <= g[2] THEN g[2] ELSE a[2]
      BY <3>1, HigherIs
    <3> HIDE DEF a, top
    <3>3. a[1] <= top
      BY <3>1, <3>2
    <3>4. <<a[1], top>> \in G!Gaps
      BY <3>1, <3>2, <3>3 DEF G!Gaps
    <3>5. QED
      BY <3>4 DEF a, top
  <2>4. G!Join(gaps, g) = [gaps EXCEPT ![n] = wide]
    BY <1>1 DEF G!Join
  <2> HIDE DEF wide
  <2>5. QED
    BY <2>1, <2>3, <2>4, ExceptSeq
<1>2. CASE ~(gaps # <<>> /\ g[1] <= gaps[n][2] + 1)
  BY <1>2, AppendProperties DEF G!Join
<1>3. QED
  BY <1>1, <1>2

\* One turn of the loop over the sorted gaps.
LEMMA JoinKeeps ==
    ASSUME NEW gaps \in Seq(G!Gaps), Separated(gaps), NEW g \in G!Gaps,
           gaps # <<>> => gaps[Len(gaps)][1] <= g[1]
    PROVE  LET more == G!Join(gaps, g) IN
           /\ more \in Seq(G!Gaps) /\ more # <<>> /\ Separated(more)
           /\ more[Len(more)][1] <= g[1]
           /\ Spanned(more, Len(more)) = Spanned(gaps, Len(gaps)) \union g[1]..g[2]
<1> DEFINE more == G!Join(gaps, g)
           n == Len(gaps)
<1>1. n \in Nat /\ DOMAIN gaps = 1..n /\ \A i \in 1..n : gaps[i] \in G!Gaps
  BY LenProperties, ElementOfSeq
<1>2. \A i \in 1..n : gaps[i][1] \in Nat /\ gaps[i][2] \in Nat /\ gaps[i][1] <= gaps[i][2]
  BY <1>1, GapIs
<1>3. g[1] \in Nat /\ g[2] \in Nat /\ g[1] <= g[2]
  BY GapIs
<1>4. CASE gaps # <<>> /\ g[1] <= gaps[n][2] + 1
  <2> DEFINE newest == gaps[n]
             top == G!Highest({newest[2], g[2]})
             wide == <<newest[1], top>>
  <2>1. n \in 1..n /\ n >= 1
    BY <1>1, <1>4, EmptySeq
  <2>2. newest[1] \in Nat /\ newest[2] \in Nat /\ newest[1] <= newest[2] /\ newest[1] <= g[1]
    BY <1>2, <1>4, <2>1
  <2>3. top \in Nat /\ top = IF newest[2] <= g[2] THEN g[2] ELSE newest[2]
    BY <1>3, <2>2, HigherIs
  <2>4. more = [gaps EXCEPT ![n] = wide]
    BY <1>4 DEF G!Join
  <2> HIDE DEF top, newest
  <2>5. wide \in G!Gaps /\ wide[1] = newest[1] /\ wide[2] = top /\ newest[1] <= top /\ newest[2] <= top
    BY <1>3, <2>2, <2>3 DEF G!Gaps
  <2> HIDE DEF wide, more
  <2>6. /\ more \in Seq(G!Gaps) /\ Len(more) = n /\ more[n] = wide
        /\ \A i \in 1..n : i # n => more[i] = gaps[i]
    <3>1. more \in Seq(G!Gaps) /\ Len(more) = n
      BY <1>1, <2>1, <2>4, <2>5, ExceptSeq
    <3>2. more[n] = wide /\ \A i \in 1..n : i # n => more[i] = gaps[i]
      BY <1>1, <2>1, <2>4
    <3>3. QED
      BY <3>1, <3>2
  <2>7. more # <<>>
    BY <2>1, <2>6, EmptySeq
  <2>8. Separated(more)
    <3>1. SUFFICES ASSUME NEW i \in 1..n, NEW j \in 1..n, i < j
                   PROVE  more[i][2] + 1 < more[j][1]
      BY <2>6 DEF Separated
    <3>2. i # n /\ gaps[i][2] + 1 < gaps[j][1]
      <4>1. i # n
        BY <1>1, <3>1
      <4>2. gaps[i][2] + 1 < gaps[j][1]
        BY <3>1 DEF Separated
      <4>3. QED
        BY <4>1, <4>2
    <3>3. more[i] = gaps[i] /\ more[j][1] = gaps[j][1]
      BY <2>5, <2>6, <3>2 DEF newest
    <3>4. QED
      BY <3>2, <3>3
  <2>9. more[n][1] <= g[1]
    BY <2>2, <2>5, <2>6
  <2>10. Spanned(more, n) = Spanned(gaps, n) \union g[1]..g[2]
    <3>1. ASSUME NEW x \in Spanned(more, n) PROVE x \in Spanned(gaps, n) \union g[1]..g[2]
      <4>1. PICK i \in 1..n : x \in Nat /\ more[i][1] <= x /\ x <= more[i][2]
        BY <3>1 DEF Spanned
      <4>2. CASE i # n
        BY <2>6, <4>1, <4>2 DEF Spanned
      <4>3. CASE i = n
        <5>1. newest[1] <= x /\ x <= top
          BY <2>5, <2>6, <4>1, <4>3
        <5>2. x <= newest[2] \/ (g[1] <= x /\ x <= g[2])
          BY <1>3, <1>4, <2>2, <2>3, <4>1, <5>1 DEF newest
        <5>3. QED
          BY <1>3, <2>1, <4>1, <5>1, <5>2 DEF Spanned, newest
      <4>4. QED
        BY <4>2, <4>3
    <3>2. ASSUME NEW x \in Spanned(gaps, n) PROVE x \in Spanned(more, n)
      <4>1. PICK i \in 1..n : x \in Nat /\ gaps[i][1] <= x /\ x <= gaps[i][2]
        BY <3>2 DEF Spanned
      <4>2. CASE i # n
        BY <2>6, <4>1, <4>2 DEF Spanned
      <4>3. CASE i = n
        <5>1. newest[1] <= x /\ x <= top
          BY <2>2, <2>3, <2>5, <4>1, <4>3 DEF newest
        <5>2. QED
          BY <2>1, <2>5, <2>6, <4>1, <5>1 DEF Spanned
      <4>4. QED
        BY <4>2, <4>3
    <3>3. ASSUME NEW x \in g[1]..g[2] PROVE x \in Spanned(more, n)
      <4>1. x \in Nat /\ newest[1] <= x /\ x <= top
        BY <1>3, <2>2, <2>3
      <4>2. QED
        BY <2>1, <2>5, <2>6, <4>1 DEF Spanned
    <3>4. QED
      BY <3>1, <3>2, <3>3
  <2>11. QED
    BY <2>6, <2>7, <2>8, <2>9, <2>10 DEF more
<1>5. CASE ~(gaps # <<>> /\ g[1] <= gaps[n][2] + 1)
  <2>1. more = Append(gaps, g)
    BY <1>5 DEF G!Join
  <2> HIDE DEF more
  <2>2. /\ more \in Seq(G!Gaps) /\ Len(more) = n + 1 /\ more[n + 1] = g
        /\ \A i \in 1..n : more[i] = gaps[i]
    BY <2>1, AppendProperties
  <2>3. more # <<>>
    BY <1>1, <2>2, EmptySeq
  <2>4. ASSUME NEW i \in 1..n PROVE gaps[i][2] + 1 < g[1]
    <3>1. gaps # <<>> /\ n \in 1..n
      BY <1>1
    <3>2. gaps[n][2] + 1 < g[1]
      BY <1>2, <1>3, <1>5, <3>1
    <3>3. CASE i = n
      BY <3>2, <3>3
    <3>4. CASE i # n
      <4>1. gaps[i][2] + 1 < gaps[n][1]
        BY <3>1, <3>4 DEF Separated
      <4>2. gaps[n][1] <= gaps[n][2] /\ gaps[n][1] \in Nat /\ gaps[n][2] \in Nat /\ gaps[i][2] \in Nat
        BY <1>2, <3>1
      <4>3. QED
        BY <1>3, <3>2, <4>1, <4>2
    <3>5. QED
      BY <3>3, <3>4
  <2>5. Separated(more)
    <3>1. SUFFICES ASSUME NEW i \in 1..(n + 1), NEW j \in 1..(n + 1), i < j
                   PROVE  more[i][2] + 1 < more[j][1]
      BY <2>2 DEF Separated
    <3>2. i \in 1..n /\ (j = n + 1 \/ j \in 1..n)
      BY <1>1, <3>1
    <3>3. QED
      BY <2>2, <2>4, <3>1, <3>2 DEF Separated
  <2>6. more[n + 1][1] <= g[1]
    BY <1>3, <2>2
  <2>7. Spanned(more, n + 1) = Spanned(gaps, n) \union g[1]..g[2]
    <3>1. \A i \in 1..(n + 1) : i \in 1..n \/ i = n + 1
      BY <1>1
    <3>2. n + 1 \in 1..(n + 1) /\ \A i \in 1..n : i \in 1..(n + 1)
      BY <1>1
    <3>3. Spanned(more, n + 1) = Spanned(gaps, n) \union {x \in Nat : g[1] <= x /\ x <= g[2]}
      BY <2>2, <3>1, <3>2 DEF Spanned
    <3>4. {x \in Nat : g[1] <= x /\ x <= g[2]} = g[1]..g[2]
      BY <1>3
    <3>5. QED
      BY <3>3, <3>4
  <2>8. QED
    BY <2>2, <2>3, <2>5, <2>6, <2>7 DEF more
<1>6. QED
  BY <1>4, <1>5

\* What has been merged once the first i sorted ranges are taken in.
MergedTo(merged, s, i) ==
    /\ merged \in Seq(G!Gaps) /\ Separated(merged)
    /\ i = 0 => merged = <<>>
    /\ i > 0 => merged # <<>> /\ merged[Len(merged)][1] <= s[i][1]
    /\ Spanned(merged, Len(merged)) = Spanned(s, i)

\* The function that describes the loop exists.
LEMMA MergingIs ==
    ASSUME NEW s \in Seq(G!Gaps)
    PROVE  LET merged == G!Merging(s) IN
           /\ merged = [i \in 0..Len(s) |->
                           IF i = 0 THEN <<>> ELSE G!Join(merged[i - 1], s[i])]
<1> DEFINE n == Len(s)
           T == Seq(G!Gaps)
           next == [p \in T \X (1..n) |-> G!Join(p[1], s[p[2]])]
           Fits2(f) == f = [i \in 0..n |-> IF i = 0 THEN <<>> ELSE G!Join(f[i - 1], s[i])]
<1>1. n \in Nat /\ \A i \in 1..n : s[i] \in G!Gaps
  BY LenProperties, ElementOfSeq
<1>2. ASSUME NEW m \in T, NEW g \in G!Gaps PROVE G!Join(m, g) \in T
  BY JoinType
<1>3. next \in [T \X (1..n) -> T]
  BY <1>1, <1>2
<1>4. <<>> \in T
  OBVIOUS
<1>5. PICK f \in [0..n -> T] :
         \A i \in 0..n : f[i] = IF i = 0 THEN <<>> ELSE next[<<f[i - 1], i>>]
  <2>1. n \in Nat
    BY <1>1
  <2> HIDE DEF next, T, n
  <2>2. \E f \in [0..n -> T] : Follows(f, n, <<>>, next)
    BY <1>3, <1>4, <2>1, RecursionExists
  <2>3. QED
    BY <2>2 DEF Follows
<1>6. \A i \in 0..n : f[i] = IF i = 0 THEN <<>> ELSE G!Join(f[i - 1], s[i])
  <2>1. ASSUME NEW i \in 0..n, i # 0 PROVE next[<<f[i - 1], i>>] = G!Join(f[i - 1], s[i])
    <3>1. i \in 1..n /\ i - 1 \in 0..n
      BY <1>1, <2>1
    <3>2. <<f[i - 1], i>> \in T \X (1..n)
      BY <3>1
    <3>3. QED
      BY <3>2
  <2> HIDE DEF next
  <2>2. QED
    BY <1>5, <2>1
<1>7. Fits2(f)
  BY <1>6
<1>8. G!Merging(s) = CHOOSE h : Fits2(h)
  BY DEF G!Merging
<1> HIDE DEF Fits2
<1>9. Fits2(G!Merging(s))
  BY <1>7, <1>8
<1>10. QED
  BY <1>9 DEF Fits2

\* The loop merges the sorted ranges.
LEMMA MergedIs ==
    ASSUME NEW s \in Seq(G!Gaps), \A i, j \in 1..Len(s) : i < j => s[i][1] <= s[j][1]
    PROVE  \A i \in 0..Len(s) : MergedTo(G!Merging(s)[i], s, i)
<1> DEFINE n == Len(s)
           merged == G!Merging(s)
           Kept == {i \in 0..n : MergedTo(merged[i], s, i)}
<1>1. n \in Nat /\ \A i \in 1..n : s[i] \in G!Gaps
  BY LenProperties, ElementOfSeq
<1>2. \A i \in 0..n : merged[i] = IF i = 0 THEN <<>> ELSE G!Join(merged[i - 1], s[i])
  <2>1. merged = [i \in 0..n |-> IF i = 0 THEN <<>> ELSE G!Join(merged[i - 1], s[i])]
    BY MergingIs
  <2> HIDE DEF merged
  <2>2. QED
    BY <2>1
<1> HIDE DEF merged
<1>3. MergedTo(merged[0], s, 0)
  <2>1. merged[0] = <<>>
    BY <1>1, <1>2
  <2>2. Spanned(<<>>, 0) = {} /\ Spanned(s, 0) = {}
    BY DEF Spanned
  <2>3. QED
    <3>1. <<>> \in Seq(G!Gaps) /\ Len(<<>>) = 0 /\ Separated(<<>>)
      BY DEF Separated
    <3>2. Spanned(<<>>, Len(<<>>)) = Spanned(s, 0) /\ ~(0 > 0)
      <4>1. ~(0 > 0)
        OBVIOUS
      <4>2. QED
        BY <2>2, <3>1, <4>1, Zenon
    <3> HIDE DEF Separated
    <3>3. QED
      BY <2>1, <3>1, <3>2 DEF MergedTo
<1>4. ASSUME NEW i \in 0..(n - 1), MergedTo(merged[i], s, i) PROVE MergedTo(merged[i + 1], s, i + 1)
  <2> DEFINE m == merged[i]
             g == s[i + 1]
             more == G!Join(m, g)
  <2>1. i + 1 \in 1..n /\ i + 1 \in 0..n /\ (i + 1) - 1 = i /\ i + 1 # 0 /\ (i > 0 => i \in 1..n)
        /\ i + 1 > 0 /\ (i = 0 \/ i > 0) /\ i < i + 1
    BY <1>1
  <2>2. merged[i + 1] = more /\ g \in G!Gaps
    BY <1>1, <1>2, <2>1
  <2>3. m \in Seq(G!Gaps) /\ Separated(m) /\ Spanned(m, Len(m)) = Spanned(s, i)
    BY <1>4 DEF MergedTo
  <2>4. m # <<>> => m[Len(m)][1] <= g[1]
    <3>1. SUFFICES ASSUME m # <<>> PROVE m[Len(m)][1] <= g[1]
      OBVIOUS
    <3>2. i > 0 /\ m[Len(m)][1] <= s[i][1]
      BY <1>4, <2>1, <3>1 DEF MergedTo
    <3>3. s[i][1] <= g[1] /\ s[i] \in G!Gaps
      BY <1>1, <2>1, <3>2
    <3>4. m[Len(m)] \in G!Gaps
      <4>1. Len(m) \in 1..Len(m)
        BY <2>3, <3>1, LenProperties, EmptySeq
      <4> HIDE DEF m
      <4>2. QED
        BY <2>3, <4>1, ElementOfSeq
    <3>5. m[Len(m)][1] \in Nat /\ s[i][1] \in Nat /\ g[1] \in Nat
      BY <2>2, <3>3, <3>4, GapIs
    <3>6. QED
      BY <3>2, <3>3, <3>5
  <2> HIDE DEF m, more
  <2>5. /\ more \in Seq(G!Gaps) /\ more # <<>> /\ Separated(more)
        /\ more[Len(more)][1] <= g[1]
        /\ Spanned(more, Len(more)) = Spanned(m, Len(m)) \union g[1]..g[2]
    <3> HIDE DEF g
    <3>1. QED
      BY <2>2, <2>3, <2>4, JoinKeeps DEF more
  <2>6. Spanned(s, i + 1) = Spanned(s, i) \union g[1]..g[2]
    <3>1. \A j \in 1..(i + 1) : j \in 1..i \/ j = i + 1
      BY <2>1
    <3>2. i + 1 \in 1..(i + 1) /\ \A j \in 1..i : j \in 1..(i + 1)
      BY <2>1
    <3>3. Spanned(s, i + 1) = Spanned(s, i) \union {x \in Nat : g[1] <= x /\ x <= g[2]}
      BY <3>1, <3>2 DEF Spanned
    <3> HIDE DEF g
    <3>4. {x \in Nat : g[1] <= x /\ x <= g[2]} = g[1]..g[2]
      BY <2>2, GapIs
    <3>5. QED
      BY <3>3, <3>4
  <2>7. QED
    BY <2>1, <2>2, <2>3, <2>5, <2>6 DEF MergedTo
<1>5. \A i \in 0..n : i \in Kept
  <2>1. 0 \in Kept
    BY <1>1, <1>3
  <2>2. \A i \in 0..(n - 1) : i \in Kept => i + 1 \in Kept
    BY <1>1, <1>4
  <2> HIDE DEF Kept, n
  <2>3. QED
    BY <1>1, <2>1, <2>2, CountingUp
<1>6. QED
  BY <1>5 DEF merged

\* Merging a report leaves the numbers it names, in ranges apart.
LEMMA MergeIs ==
    ASSUME NEW S \in Reports
    PROVE  LET gaps == G!MergeGaps(S) IN
           /\ gaps \in Seq(G!Gaps) /\ Separated(gaps)
           /\ Spanned(gaps, Len(gaps)) = G!Covered(S)
<1> DEFINE s == G!Sorted(S)
           gaps == G!MergeGaps(S)
<1>1. /\ s \in Seq(G!Gaps) /\ Len(s) = Cardinality(S) /\ Len(s) \in Nat
      /\ S = {s[i] : i \in 1..Len(s)}
      /\ \A i, j \in 1..Len(s) : i < j => s[i][1] <= s[j][1]
  BY SortedIs
<1>2. gaps = G!Merging(s)[Len(s)]
  BY <1>1, ScanCardinality DEF G!MergeGaps
<1> HIDE DEF s, gaps
<1>3. MergedTo(gaps, s, Len(s))
  BY <1>1, <1>2, MergedIs
<1>4. Spanned(s, Len(s)) = G!Covered(S)
  <2>1. ASSUME NEW x \in Spanned(s, Len(s)) PROVE x \in G!Covered(S)
    <3>1. PICK i \in 1..Len(s) : x \in Nat /\ s[i][1] <= x /\ x <= s[i][2]
      BY <2>1 DEF Spanned
    <3>2. s[i] \in S /\ s[i] \in G!Gaps
      BY <1>1, ElementOfSeq
    <3>3. x \in s[i][1]..s[i][2]
      BY <3>1, <3>2, GapIs
    <3>4. QED
      BY <3>2, <3>3 DEF G!Covered
  <2>2. ASSUME NEW x \in G!Covered(S) PROVE x \in Spanned(s, Len(s))
    <3>1. PICK g \in S : x \in g[1]..g[2]
      BY <2>2 DEF G!Covered
    <3>2. PICK i \in 1..Len(s) : g = s[i]
      BY <1>1
    <3>3. g \in G!Gaps
      BY <1>1, <3>2, ElementOfSeq
    <3>4. x \in Nat /\ g[1] <= x /\ x <= g[2]
      BY <3>1, <3>3, GapIs
    <3>5. QED
      BY <3>2, <3>4 DEF Spanned
  <2>3. QED
    BY <2>1, <2>2
<1>5. QED
  BY <1>3, <1>4 DEF MergedTo, gaps

-----------------------------------------------------------------------------

\* The loop that counts: the function that describes it exists.
LEMMA CountingIs ==
    ASSUME NEW gaps \in Seq(G!Gaps)
    PROVE  LET total == G!Counting(gaps) IN
           total = [i \in 0..Len(gaps) |->
                       IF i = 0 THEN 0 ELSE total[i - 1] + gaps[i][2] - gaps[i][1] + 1]
<1> DEFINE n == Len(gaps)
           next == [p \in Int \X (1..n) |-> p[1] + gaps[p[2]][2] - gaps[p[2]][1] + 1]
           Fits2(f) == f = [i \in 0..n |->
                              IF i = 0 THEN 0 ELSE f[i - 1] + gaps[i][2] - gaps[i][1] + 1]
<1>1. n \in Nat /\ \A i \in 1..n : gaps[i][1] \in Nat /\ gaps[i][2] \in Nat
  BY LenProperties, ElementOfSeq, GapIs
<1>2. next \in [Int \X (1..n) -> Int]
  BY <1>1
<1>3. PICK f \in [0..n -> Int] :
         \A i \in 0..n : f[i] = IF i = 0 THEN 0 ELSE next[<<f[i - 1], i>>]
  <2>1. n \in Nat /\ 0 \in Int
    BY <1>1
  <2> HIDE DEF next, n
  <2>2. \E f \in [0..n -> Int] : Follows(f, n, 0, next)
    BY <1>2, <2>1, RecursionExists
  <2>3. QED
    BY <2>2 DEF Follows
<1>4. \A i \in 0..n : f[i] = IF i = 0 THEN 0 ELSE f[i - 1] + gaps[i][2] - gaps[i][1] + 1
  <2>1. ASSUME NEW i \in 0..n, i # 0
        PROVE  next[<<f[i - 1], i>>] = f[i - 1] + gaps[i][2] - gaps[i][1] + 1
    <3>1. i \in 1..n /\ i - 1 \in 0..n
      BY <1>1, <2>1
    <3>2. <<f[i - 1], i>> \in Int \X (1..n)
      BY <3>1
    <3>3. QED
      BY <3>2
  <2> HIDE DEF next
  <2>2. QED
    BY <1>3, <2>1
<1>5. Fits2(f)
  BY <1>4
<1>6. G!Counting(gaps) = CHOOSE h : Fits2(h)
  BY DEF G!Counting
<1> HIDE DEF Fits2
<1>7. Fits2(G!Counting(gaps))
  BY <1>5, <1>6
<1>8. QED
  BY <1>7 DEF Fits2

\* Counting ranges apart, one by one, counts every number in them once.
LEMMA CountedOnce ==
    ASSUME NEW gaps \in Seq(G!Gaps), Separated(gaps)
    PROVE  /\ G!TotalMissing(gaps) \in Nat
           /\ G!TotalMissing(gaps) = Cardinality(Spanned(gaps, Len(gaps)))
<1> DEFINE n == Len(gaps)
           total == G!Counting(gaps)
           Kept == {i \in 0..n : /\ IsFiniteSet(Spanned(gaps, i))
                                 /\ total[i] = Cardinality(Spanned(gaps, i))}
<1>1. n \in Nat /\ \A i \in 1..n : gaps[i][1] \in Nat /\ gaps[i][2] \in Nat /\ gaps[i][1] <= gaps[i][2]
  BY LenProperties, ElementOfSeq, GapIs
<1>2. \A i \in 0..n : total[i] =
         IF i = 0 THEN 0 ELSE total[i - 1] + gaps[i][2] - gaps[i][1] + 1
  <2>1. total = [i \in 0..n |->
                    IF i = 0 THEN 0 ELSE total[i - 1] + gaps[i][2] - gaps[i][1] + 1]
    BY CountingIs
  <2> HIDE DEF total
  <2>2. QED
    BY <2>1
<1> HIDE DEF total
<1>3. 0 \in Kept
  <2>1. Spanned(gaps, 0) = {}
    BY DEF Spanned
  <2>2. 0 \in 0..n /\ total[0] = 0
    BY <1>1, <1>2
  <2>3. QED
    BY <2>1, <2>2, FS_EmptySet
<1>4. ASSUME NEW i \in 0..(n - 1), i \in Kept PROVE i + 1 \in Kept
  <2> DEFINE lo == gaps[i + 1][1]
             hi == gaps[i + 1][2]
             A == Spanned(gaps, i)
  <2>1. i + 1 \in 1..n /\ i + 1 \in 0..n /\ (i + 1) - 1 = i /\ i + 1 # 0
    BY <1>1
  <2>2. lo \in Nat /\ hi \in Nat /\ lo <= hi
    BY <1>1, <2>1
  <2>3. total[i + 1] = total[i] + hi - lo + 1
    BY <1>2, <2>1
  <2>4. Spanned(gaps, i + 1) = A \union lo..hi
    <3>1. \A j \in 1..(i + 1) : j \in 1..i \/ j = i + 1
      BY <2>1
    <3>2. i + 1 \in 1..(i + 1) /\ \A j \in 1..i : j \in 1..(i + 1)
      BY <2>1
    <3>3. Spanned(gaps, i + 1) = A \union {x \in Nat : lo <= x /\ x <= hi}
      BY <3>1, <3>2 DEF Spanned
    <3> HIDE DEF lo, hi
    <3>4. {x \in Nat : lo <= x /\ x <= hi} = lo..hi
      BY <2>2
    <3>5. QED
      BY <3>3, <3>4
  <2>5. A \cap lo..hi = {}
    <3>1. SUFFICES ASSUME NEW x \in A, x \in lo..hi PROVE FALSE
      OBVIOUS
    <3>2. PICK j \in 1..i : x \in Nat /\ x <= gaps[j][2]
      BY DEF Spanned
    <3>3. j \in 1..n /\ j < i + 1
      BY <1>1, <3>2
    <3>4. gaps[j][2] + 1 < lo
      BY <2>1, <3>3 DEF Separated
    <3>5. gaps[j][2] \in Nat /\ lo <= x
      BY <1>1, <2>2, <3>1, <3>3
    <3> HIDE DEF lo
    <3>6. QED
      BY <2>2, <3>2, <3>4, <3>5
  <2>6. IsFiniteSet(A) /\ total[i] = Cardinality(A)
    BY <1>4
  <2> HIDE DEF A, lo, hi
  <2>7. IsFiniteSet(lo..hi) /\ Cardinality(lo..hi) = hi - lo + 1
    BY <2>2, FS_Interval
  <2>8. /\ IsFiniteSet(A \union lo..hi)
        /\ Cardinality(A \union lo..hi) = Cardinality(A) + Cardinality(lo..hi) - Cardinality(A \cap lo..hi)
    BY <2>6, <2>7, FS_Union
  <2>9. Cardinality(A \cap lo..hi) = 0 /\ Cardinality(A) \in Nat
    BY <2>5, <2>6, FS_EmptySet, FS_CardinalityType
  <2>10. total[i + 1] = Cardinality(A \union lo..hi)
    BY <2>2, <2>3, <2>6, <2>7, <2>8, <2>9
  <2>11. QED
    BY <2>1, <2>4, <2>8, <2>10
<1>5. n \in Kept
  <2>1. \A i \in 0..n : i \in Kept
    <3> HIDE DEF Kept, n
    <3>1. QED
      BY <1>1, <1>3, <1>4, CountingUp
  <2> HIDE DEF Kept
  <2>2. QED
    BY <1>1, <2>1
<1>6. G!TotalMissing(gaps) = total[n]
  BY DEF G!TotalMissing, total
<1>7. QED
  BY <1>5, <1>6, FS_CardinalityType

\* The first range is taken up.
LEMMA RestSpanned ==
    ASSUME NEW gaps \in Seq(G!Gaps), gaps # <<>>
    PROVE  /\ Tail(gaps) \in Seq(G!Gaps)
           /\ gaps[1][1]..gaps[1][2] \subseteq Nat
           /\ Spanned(gaps, Len(gaps)) =
                 gaps[1][1]..gaps[1][2] \union Spanned(Tail(gaps), Len(Tail(gaps)))
<1> DEFINE n == Len(gaps)
           rest == Tail(gaps)
           lo == gaps[1][1]
           hi == gaps[1][2]
<1>1. n \in Nat /\ n >= 1 /\ 1 \in 1..n
  BY LenProperties, EmptySeq
<1>2. /\ rest \in Seq(G!Gaps) /\ Len(rest) = n - 1
      /\ \A i \in 1..(n - 1) : rest[i] = gaps[i + 1]
  BY HeadTailProperties
<1>3. lo \in Nat /\ hi \in Nat /\ lo <= hi
  <2>1. gaps[1] \in G!Gaps
    BY <1>1, ElementOfSeq
  <2>2. QED
    BY <2>1, GapIs
<1> HIDE DEF rest
<1>4. ASSUME NEW x \in Spanned(gaps, n) PROVE x \in lo..hi \union Spanned(rest, n - 1)
  <2>1. PICK i \in 1..n : x \in Nat /\ gaps[i][1] <= x /\ x <= gaps[i][2]
    BY DEF Spanned
  <2>2. CASE i = 1
    BY <1>3, <2>1, <2>2
  <2>3. CASE i # 1
    <3>1. i - 1 \in 1..(n - 1) /\ (i - 1) + 1 = i
      BY <1>1, <2>3
    <3>2. rest[i - 1] = gaps[i]
      BY <1>2, <3>1
    <3>3. QED
      BY <2>1, <3>1, <3>2 DEF Spanned
  <2>4. QED
    BY <2>2, <2>3
<1>5. ASSUME NEW x \in lo..hi PROVE x \in Spanned(gaps, n)
  BY <1>1, <1>3 DEF Spanned
<1>6. ASSUME NEW x \in Spanned(rest, n - 1) PROVE x \in Spanned(gaps, n)
  <2>1. PICK i \in 1..(n - 1) : x \in Nat /\ rest[i][1] <= x /\ x <= rest[i][2]
    BY DEF Spanned
  <2>2. i + 1 \in 1..n /\ rest[i] = gaps[i + 1]
    BY <1>1, <1>2
  <2>3. QED
    BY <2>1, <2>2 DEF Spanned
<1>7. lo..hi \subseteq Nat
  BY <1>3
<1>8. QED
  BY <1>2, <1>4, <1>5, <1>6, <1>7 DEF rest

-----------------------------------------------------------------------------

\* The recovery under way, and what the one before has left.

Named == G!Covered(scan["db"].gaps \union scan["idem"].gaps)

RecoveryTypes ==
    /\ recovery \in [at : {"off", "scan", "recover"}, gaps : Seq(G!Gaps),
                     total : Nat, failures : Nat]
    /\ tried \subseteq Nat /\ recorded \in BOOLEAN

\* Tried so far and still to come are together what the scans have named.
NothingDropped ==
    /\ scan["idem"].at = "done"
    /\ tried \union Spanned(recovery.gaps, Len(recovery.gaps)) = Named
    /\ recovery.total = Cardinality(Named)

RecoverInv ==
    /\ RecoveryTypes
    /\ recovery.at = "off" =>
          /\ recovery.gaps = <<>>
          /\ scan["db"].at \in {"off", "done"} /\ scan["idem"].at \in {"off", "done"}
          /\ scan["db"].at = "done" => NothingDropped
    /\ recovery.at = "scan" => tried = {}
    /\ recovery.at = "recover" => scan["db"].at = "done" /\ NothingDropped

LEMMA InitRecover == G!Init => RecoverInv
<1> SUFFICES ASSUME G!Init PROVE RecoverInv
  OBVIOUS
<1>1. /\ recovery = [at |-> "off", gaps |-> <<>>, total |-> 0, failures |-> 0]
      /\ tried = {} /\ recorded = FALSE
      /\ scan["db"].at = "off" /\ scan["idem"].at = "off"
  BY DEF G!Init, G!NoRecovery, G!NoScan, G!Kinds
<1>2. <<>> \in Seq(G!Gaps)
  OBVIOUS
<1>3. RecoveryTypes
  BY <1>1, <1>2 DEF RecoveryTypes
<1>4. recovery.at = "off" /\ recovery.gaps = <<>>
  BY <1>1
<1>5. QED
  BY <1>1, <1>3, <1>4 DEF RecoverInv

\* A step that leaves the recovery and its two scans alone.
LEMMA ScansAlone ==
    ASSUME RecoverInv, UNCHANGED <<recovery, tried>>, recorded' \in BOOLEAN,
           scan'["db"] = scan["db"], scan'["idem"] = scan["idem"]
    PROVE  RecoverInv'
BY DEF RecoverInv, RecoveryTypes, NothingDropped, Named

\* A step of one of its scans, while it waits for both.
LEMMA WhileScanning ==
    ASSUME RecoverInv, UNCHANGED <<recovery, tried, recorded>>, recovery.at = "scan"
    PROVE  RecoverInv'
BY DEF RecoverInv, RecoveryTypes

\* The report is merged and the recovery begins.
LEMMA MergeStep ==
    ASSUME GapInv, RecoverInv, G!Merge PROVE RecoverInv'
<1> DEFINE S == scan["db"].gaps \union scan["idem"].gaps
           gaps == G!MergeGaps(S)
<1>1. /\ recovery.at = "scan" /\ scan["db"].at = "done" /\ scan["idem"].at = "done"
      /\ recovery' = [at |-> "recover", gaps |-> gaps, total |-> G!TotalMissing(gaps), failures |-> 0]
      /\ UNCHANGED <<recorded, scan, tried>>
  BY DEF G!Merge
<1>2. S \in Reports
  <2>1. scan["db"].gaps \in Reports /\ scan["idem"].gaps \in Reports
    BY DEF GapInv, GapTypes, Scans, G!Kinds
  <2>2. QED
    BY <2>1, FS_Union DEF Reports
<1>3. gaps \in Seq(G!Gaps) /\ Separated(gaps) /\ Spanned(gaps, Len(gaps)) = Named
  BY <1>2, MergeIs DEF Named
<1>4. G!TotalMissing(gaps) \in Nat /\ G!TotalMissing(gaps) = Cardinality(Named)
  <2> HIDE DEF gaps
  <2>1. QED
    BY <1>3, CountedOnce
<1> HIDE DEF gaps
<1>5. tried = {}
  BY <1>1 DEF RecoverInv
<1>6. Named' = Named
  BY <1>1 DEF Named
<1>7. RecoveryTypes'
  BY <1>1, <1>3, <1>4 DEF RecoverInv, RecoveryTypes
<1>8. NothingDropped'
  <2>1. recovery'.gaps = gaps /\ recovery'.total = G!TotalMissing(gaps)
    BY <1>1
  <2>2. scan'["idem"].at = "done" /\ tried' = {}
    BY <1>1, <1>5
  <2>3. QED
    BY <1>3, <1>4, <1>6, <2>1, <2>2 DEF NothingDropped
<1>9. QED
  BY <1>1, <1>7, <1>8 DEF RecoverInv

\* One gap after the other is tried, whether it succeeds or fails.
LEMMA RecoverGapStep ==
    ASSUME RecoverInv, G!RecoverGap PROVE RecoverInv'
<1> DEFINE first == recovery.gaps[1][1]..recovery.gaps[1][2]
           rest == Tail(recovery.gaps)
<1>1. /\ recovery.at = "recover" /\ recovery.gaps # <<>>
      /\ tried' = tried \union first
      /\ UNCHANGED <<recorded, scan>>
  BY DEF G!RecoverGap
<1>2. RecoveryTypes /\ NothingDropped
  BY <1>1 DEF RecoverInv
<1>3. \/ recovery' = [recovery EXCEPT !.gaps = rest]
      \/ recovery' = [recovery EXCEPT !.gaps = rest, !.failures = recovery.failures + 1]
  <2>1. G!AfterFailure(recovery) = [recovery EXCEPT !.gaps = rest, !.failures = recovery.failures + 1]
    BY DEF G!AfterFailure
  <2>2. QED
    BY <2>1 DEF G!RecoverGap
<1>4. /\ rest \in Seq(G!Gaps) /\ first \subseteq Nat
      /\ Spanned(recovery.gaps, Len(recovery.gaps)) = first \union Spanned(rest, Len(rest))
  <2>1. recovery.gaps \in Seq(G!Gaps)
    BY <1>2 DEF RecoveryTypes
  <2>2. QED
    BY <1>1, <2>1, RestSpanned
<1> HIDE DEF first, rest
<1>5. /\ recovery'.at = "recover" /\ recovery'.gaps = rest /\ recovery'.total = recovery.total
      /\ RecoveryTypes'
  <2>1. /\ recovery \in [at : {"off", "scan", "recover"}, gaps : Seq(G!Gaps),
                          total : Nat, failures : Nat]
        /\ recovery.failures + 1 \in Nat
    BY <1>2 DEF RecoveryTypes
  <2>2. /\ recovery' \in [at : {"off", "scan", "recover"}, gaps : Seq(G!Gaps),
                           total : Nat, failures : Nat]
        /\ recovery'.at = recovery.at /\ recovery'.gaps = rest /\ recovery'.total = recovery.total
    BY <1>3, <1>4, <2>1
  <2>3. tried' \subseteq Nat /\ recorded' \in BOOLEAN
    BY <1>1, <1>2, <1>4 DEF RecoveryTypes
  <2>4. QED
    BY <1>1, <2>2, <2>3 DEF RecoveryTypes
<1>6. NothingDropped'
  <2>1. Named' = Named /\ scan'["idem"].at = "done"
    BY <1>1, <1>2 DEF NothingDropped, Named
  <2>2. tried' \union Spanned(rest, Len(rest)) = Named
    BY <1>1, <1>2, <1>4 DEF NothingDropped
  <2>3. QED
    BY <1>2, <1>5, <2>1, <2>2 DEF NothingDropped
<1>7. QED
  BY <1>1, <1>2, <1>5, <1>6 DEF RecoverInv

LEMMA RecoverStep == GapInv /\ RecoverInv /\ [G!Next]_gapVars => RecoverInv'
<1> SUFFICES ASSUME GapInv, RecoverInv, [G!Next]_gapVars PROVE RecoverInv'
  OBVIOUS
<1>0. /\ recorded \in BOOLEAN /\ recovery.at \in {"off", "scan", "recover"}
      /\ scan \in [G!Kinds -> Scans] /\ "db" \in G!Kinds /\ "idem" \in G!Kinds /\ "lag" \in G!Kinds
  BY DEF RecoverInv, RecoveryTypes, GapInv, GapTypes, G!Kinds
<1>1. CASE UNCHANGED gapVars
  BY <1>0, <1>1, ScansAlone DEF gapVars
<1>2. ASSUME NEW s \in G!Ledgers, G!Store(s) \/ G!FileTransactions(s) PROVE RecoverInv'
  BY <1>0, <1>2, ScansAlone DEF G!Store, G!FileTransactions
<1>3. CASE G!FileLedger
  BY <1>0, <1>3, ScansAlone DEF G!FileLedger
<1>4. CASE G!Merge
  BY <1>4, MergeStep
<1>5. CASE G!RecoverGap
  BY <1>5, RecoverGapStep
<1>6. CASE G!Recovered
  <2>1. /\ recovery.at = "recover" /\ recovery.gaps = <<>> /\ recovery' = [recovery EXCEPT !.at = "off"]
        /\ UNCHANGED <<recorded, scan, tried>>
    BY <1>6 DEF G!Recovered
  <2>2. /\ recovery'.at = "off" /\ recovery'.gaps = recovery.gaps /\ recovery'.total = recovery.total
        /\ RecoveryTypes'
    BY <2>1 DEF RecoverInv, RecoveryTypes
  <2>3. scan["db"].at = "done" /\ NothingDropped
    BY <2>1 DEF RecoverInv
  <2>4. NothingDropped'
    BY <2>1, <2>2, <2>3 DEF NothingDropped, Named
  <2>5. QED
    BY <2>1, <2>2, <2>3, <2>4 DEF RecoverInv, NothingDropped
<1>7. ASSUME NEW k \in G!Kinds, G!ReadRange(k) \/ G!ReadRows(k) PROVE RecoverInv'
  <2>1. /\ scan[k].at \in {"range", "rows"} /\ UNCHANGED <<recovery, tried, recorded>>
        /\ \A j \in G!Kinds : j # k => scan'[j] = scan[j]
    BY <1>0, <1>7 DEF G!ReadRange, G!ReadRows
  <2>2. CASE k = "lag"
    BY <1>0, <2>1, <2>2, ScansAlone
  <2>3. CASE k # "lag"
    <3>1. recovery.at = "scan"
      BY <1>0, <2>1, <2>3 DEF RecoverInv, NothingDropped, G!Kinds
    <3>2. QED
      BY <2>1, <3>1, WhileScanning
  <2>4. QED
    BY <2>2, <2>3
<1>8. CASE G!CountLag \/ \E newest \in G!Ledgers : G!DetectLag(newest)
  <2>1. /\ UNCHANGED <<recovery, tried, recorded>>
        /\ scan'["db"] = scan["db"] /\ scan'["idem"] = scan["idem"]
    BY <1>0, <1>8 DEF G!CountLag, G!DetectLag
  <2>2. QED
    BY <1>0, <2>1, ScansAlone
<1>9. ASSUME NEW k \in G!Kinds, G!ScanFails(k) PROVE RecoverInv'
  <2>1. CASE k = "lag"
    <3>1. /\ UNCHANGED <<recovery, tried, recorded>>
          /\ scan'["db"] = scan["db"] /\ scan'["idem"] = scan["idem"]
      BY <1>0, <1>9, <2>1 DEF G!ScanFails
    <3>2. QED
      BY <1>0, <3>1, ScansAlone
  <2>2. CASE k # "lag"
    <3>1. /\ recovery' = [at |-> "off", gaps |-> <<>>, total |-> 0, failures |-> 0]
          /\ UNCHANGED <<tried, recorded>>
          /\ scan'["db"].at = "off" /\ scan'["idem"].at = "off"
      BY <1>0, <1>9, <2>2 DEF G!ScanFails, G!NoRecovery, G!NoScan
    <3>2. QED
      BY <3>1 DEF RecoverInv, RecoveryTypes
  <2>3. QED
    BY <2>1, <2>2
<1>10. CASE G!Recover
  <2>1. /\ recovery' = [at |-> "scan", gaps |-> <<>>, total |-> 0, failures |-> 0]
        /\ tried' = {} /\ UNCHANGED recorded
    BY <1>10 DEF G!Recover, G!NoRecovery
  <2>2. QED
    BY <2>1 DEF RecoverInv, RecoveryTypes
<1>11. QED
  BY <1>1, <1>2, <1>3, <1>4, <1>5, <1>6, <1>7, <1>8, <1>9, <1>10 DEF G!Next

\* What the runs check of the gap detector.
LEMMA GapsFollow == GapInv /\ RecoverInv => G!TypeOK /\ G!HolesFound /\ G!EveryGapTried
<1> SUFFICES ASSUME GapInv, RecoverInv PROVE G!TypeOK /\ G!HolesFound /\ G!EveryGapTried
  OBVIOUS
<1>1. G!TypeOK
  <2>1. Scans \subseteq [at : {"off", "range", "count", "rows", "done"},
                         lo : Nat, hi : Int, gaps : SUBSET G!Gaps]
    BY DEF Scans, Reports
  <2>2. scan \in [G!Kinds -> [at : {"off", "range", "count", "rows", "done"},
                              lo : Nat, hi : Int, gaps : SUBSET G!Gaps]]
    BY <2>1 DEF GapInv, GapTypes
  <2>3. QED
    BY <2>2 DEF GapInv, GapTypes, RecoverInv, RecoveryTypes, G!TypeOK
<1>2. G!HolesFound
  BY DEF GapInv, NamesHoles, G!HolesFound
<1>3. G!EveryGapTried
  <2>1. SUFFICES ASSUME recovery.at = "off", scan["db"].at = "done"
                 PROVE  tried = Named /\ recovery.total = Cardinality(Named)
    BY ScanCardinality DEF G!EveryGapTried, Named
  <2>2. NothingDropped /\ Spanned(<<>>, Len(<<>>)) = {} /\ recovery.gaps = <<>>
    <3>1. Spanned(<<>>, 0) = {}
      BY DEF Spanned
    <3>2. Len(<<>>) = 0
      OBVIOUS
    <3>3. QED
      BY <2>1, <3>1, <3>2 DEF RecoverInv
  <2>3. QED
    BY <2>2 DEF NothingDropped
<1>4. QED
  BY <1>1, <1>2, <1>3

-----------------------------------------------------------------------------

(* The schema migrations.                                                  *)

SchemaTypes ==
    /\ applied \in 0..Len(Major)
    /\ versions \in Seq(M!Releases) /\ M!IsInjective(versions)
    /\ proc \in [Processes ->
          [at : {"down", "migrate", "record", "verify", "running"},
           rel : M!Releases, tool : BOOLEAN, counted : BOOLEAN]]
    /\ short \in BOOLEAN

\* A process that passed the check is of the major version of what is applied,
\* however many migrations others have applied since; once it has migrated,
\* its own migrations are there.
ProcessFits(p) ==
    /\ proc[p].at # "down" =>
          applied >= 1 /\ Major[proc[p].rel] = Major[applied]
    /\ proc[p].at \in {"record", "verify", "running"} => proc[p].rel <= applied

VersionFits ==
    /\ M!CurrentVersion <= applied
    /\ M!CurrentVersion # 0 => Major[M!CurrentVersion] = Major[applied]

SchemaInv == SchemaTypes /\ (~short => VersionFits /\ \A p \in Processes : ProcessFits(p))

LEMMA ReleaseNumbers ==
    /\ Major \in Seq(Nat) /\ Len(Major) \in Nat /\ Len(Major) >= 1
    /\ M!Releases = 1..Len(Major) /\ 1 \in M!Releases
    /\ \A r \in M!Releases : r \in Nat /\ r >= 1 /\ r <= Len(Major) /\ Major[r] \in Nat
<1>1. Len(Major) \in Nat /\ Len(Major) >= 1
  BY ReleaseAssumption, LenProperties, EmptySeq
<1>2. QED
  BY <1>1, ReleaseAssumption, ElementOfSeq DEF M!Releases

\* A release that records itself again moves to the end of the table.
LEMMA RecordedType ==
    ASSUME NEW T, NEW s \in Seq(T), M!IsInjective(s), NEW e \in T
    PROVE  LET t == Append(M!RemoveFirst(s, e), e) IN
           /\ t \in Seq(T) /\ M!IsInjective(t)
           /\ t # <<>> /\ M!Last(t) = e
<1> DEFINE I == {i \in 1..Len(s) : s[i] = e}
           t == M!RemoveFirst(s, e)
<1>0. Len(s) \in Nat /\ DOMAIN s = 1..Len(s) /\ \A j \in 1..Len(s) : s[j] \in T
  BY LenProperties, ElementOfSeq
<1>1. /\ t \in Seq(T)
      /\ \A j, k \in 1..Len(t) : t[j] = t[k] => j = k
      /\ \A j \in 1..Len(t) : t[j] # e
  <2>1. CASE \E i \in 1..Len(s) : s[i] = e
    <3>1. I # {} /\ I \subseteq Int /\ \A i \in I : i >= 1
      BY <1>0, <2>1
    <3>2. PICK m \in I : \A i \in I : m <= i
      <4> HIDE DEF I
      <4>1. 1 \in Int
        OBVIOUS
      <4>2. QED
        BY <3>1, <4>1, LeastExists, Zenon
    <3>3. M!Min(I) \in I
      <4> HIDE DEF I
      <4>1. QED
        BY <3>2 DEF M!Min
    <3>4. M!SelectInSeq(s, LAMBDA v : v = e) = M!Min(I)
      BY <3>1 DEF M!SelectInSeq
    <3>5. PICK i \in 1..Len(s) : s[i] = e /\ t = M!RemoveAt(s, i)
      BY <2>1, <3>3, <3>4 DEF M!RemoveFirst
    <3> DEFINE u == SubSeq(s, 1, i - 1)
               v == SubSeq(s, i + 1, Len(s))
    <3>6. /\ u \in Seq(T) /\ Len(u) = i - 1 /\ \A j \in 1..(i - 1) : u[j] = s[j]
      BY <1>0, SubSeqProperties
    <3>7. /\ v \in Seq(T) /\ Len(v) = Len(s) - i
          /\ \A j \in 1..(Len(s) - i) : v[j] = s[i + j]
      <4>1. i + 1 \in 1..(Len(s) + 1) /\ Len(s) \in i..Len(s)
        BY <1>0
      <4>2. v \in Seq(T) /\ Len(v) = IF i + 1 <= Len(s) THEN Len(s) - (i + 1) + 1 ELSE 0
        BY <1>0, <4>1, SubSeqProperties
      <4>3. \A j \in 1..(Len(s) - i) : v[j] = s[i + 1 + j - 1]
        BY <1>0, <4>1, SubSeqProperties
      <4>4. \A j \in 1..(Len(s) - i) : i + 1 + j - 1 = i + j
        BY <1>0
      <4> HIDE DEF v
      <4>5. Len(v) = Len(s) - i
        <5>0. Len(s) \in Int /\ i \in Int /\ i <= Len(s)
          BY <1>0
        <5>1. i + 1 <= Len(s) => Len(s) - (i + 1) + 1 = Len(s) - i
          BY <5>0
        <5>2. ~(i + 1 <= Len(s)) => Len(s) - i = 0
          BY <5>0
        <5>3. QED
          BY <4>2, <5>1, <5>2, Zenon
      <4>6. ASSUME NEW j \in 1..(Len(s) - i) PROVE v[j] = s[i + j]
        BY <4>3, <4>4
      <4>7. QED
        BY <4>2, <4>5, <4>6
    <3>8. /\ t = u \o v /\ t \in Seq(T) /\ Len(t) = Len(s) - 1
      <4>1. t = u \o v
        BY <3>5 DEF M!RemoveAt
      <4> HIDE DEF t, u, v
      <4>2. t \in Seq(T) /\ Len(t) = Len(u) + Len(v)
        BY <3>6, <3>7, <4>1, ConcatProperties
      <4>3. Len(t) = Len(s) - 1
        BY <1>0, <3>6, <3>7, <4>2
      <4>4. QED
        BY <4>1, <4>2, <4>3
    <3>9. \A j \in 1..Len(t) : t[j] = IF j < i THEN s[j] ELSE s[j + 1]
      <4> SUFFICES ASSUME NEW j \in 1..Len(t) PROVE t[j] = IF j < i THEN s[j] ELSE s[j + 1]
        OBVIOUS
      <4>0. t[j] = IF j <= Len(u) THEN u[j] ELSE v[j - Len(u)]
        <5> HIDE DEF u, v, t
        <5>1. j \in 1..(Len(u) + Len(v))
          BY <1>0, <3>6, <3>7, <3>8
        <5>2. QED
          BY <3>6, <3>7, <3>8, <5>1, ConcatProperties
      <4> HIDE DEF u, v, t
      <4>1. CASE j < i
        BY <3>6, <4>0, <4>1
      <4>2. CASE ~(j < i)
        <5>1. j - Len(u) \in 1..(Len(s) - i) /\ ~(j <= Len(u)) /\ i + (j - Len(u)) = j + 1
          BY <1>0, <3>6, <3>8, <4>2
        <5>2. t[j] = s[i + (j - Len(u))]
          BY <3>7, <4>0, <5>1
        <5>3. QED
          BY <4>2, <5>1, <5>2
      <4>3. QED
        BY <4>1, <4>2
    <3> HIDE DEF t
    <3>10. \A j, k \in 1..Len(s) : s[j] = s[k] => j = k
      BY <1>0 DEF M!IsInjective
    <3>11. ASSUME NEW j \in 1..Len(t)
           PROVE  /\ j \in 1..Len(s) /\ j + 1 \in 1..Len(s)
                  /\ j < i \/ j >= i
      <4>1. Len(t) = Len(s) - 1
        BY <3>8
      <4>2. j \in 1..(Len(s) - 1)
        BY <4>1
      <4>3. QED
        BY <1>0, <4>2
    <3>12. ASSUME NEW j \in 1..Len(t) PROVE t[j] # e
      <4>1. (j < i => j # i) /\ (j >= i => j + 1 # i) /\ (j >= i => ~(j < i))
        OBVIOUS
      <4>2. QED
        BY <3>5, <3>9, <3>10, <3>11, <4>1
    <3>13. ASSUME NEW j \in 1..Len(t), NEW k \in 1..Len(t), t[j] = t[k] PROVE j = k
      <4>1. CASE j < i /\ k < i
        BY <3>9, <3>10, <3>11, <3>13, <4>1
      <4>2. CASE j < i /\ ~(k < i)
        <5>1. s[j] = s[k + 1]
          BY <3>9, <3>13, <4>2
        <5>2. j = k + 1
          BY <3>10, <3>11, <5>1
        <5>3. QED
          BY <4>2, <5>2
      <4>3. CASE ~(j < i) /\ k < i
        <5>1. s[j + 1] = s[k]
          BY <3>9, <3>13, <4>3
        <5>2. j + 1 = k
          BY <3>10, <3>11, <5>1
        <5>3. QED
          BY <4>3, <5>2
      <4>4. CASE ~(j < i) /\ ~(k < i)
        <5>1. s[j + 1] = s[k + 1]
          BY <3>9, <3>13, <4>4
        <5>2. j + 1 = k + 1
          BY <3>10, <3>11, <5>1
        <5>3. QED
          BY <5>2
      <4>5. QED
        BY <4>1, <4>2, <4>3, <4>4
    <3>14. QED
      BY <3>8, <3>12, <3>13
  <2>2. CASE ~ \E i \in 1..Len(s) : s[i] = e
    <3>1. t = s
      BY <2>2 DEF M!RemoveFirst
    <3> HIDE DEF t
    <3>2. QED
      BY <1>0, <2>2, <3>1 DEF M!IsInjective
  <2>3. QED
    BY <2>1, <2>2
<1> HIDE DEF t
<1> DEFINE w == Append(t, e)
<1>2. /\ w \in Seq(T) /\ Len(w) = Len(t) + 1 /\ w[Len(t) + 1] = e
      /\ \A j \in 1..Len(t) : w[j] = t[j]
  BY <1>1, AppendProperties
<1>3. Len(t) \in Nat /\ DOMAIN w = 1..(Len(t) + 1) /\ w # <<>>
  <2>1. Len(t) \in Nat
    BY <1>1, LenProperties
  <2>2. DOMAIN w = 1..Len(w)
    BY <1>2, LenProperties
  <2>3. Len(w) # 0
    BY <1>2, <2>1
  <2> HIDE DEF w
  <2>4. w # <<>>
    BY <1>2, <2>3, EmptySeq
  <2>5. QED
    BY <1>2, <2>1, <2>2, <2>4
<1> HIDE DEF w
<1>4. M!IsInjective(w)
  <2>1. SUFFICES ASSUME NEW j \in 1..(Len(t) + 1), NEW k \in 1..(Len(t) + 1), w[j] = w[k]
                 PROVE  j = k
    BY <1>3 DEF M!IsInjective
  <2>2. (j \in 1..Len(t) \/ j = Len(t) + 1) /\ (k \in 1..Len(t) \/ k = Len(t) + 1)
    BY <1>3
  <2>3. QED
    BY <1>1, <1>2, <2>1, <2>2
<1>5. M!Last(w) = e
  BY <1>2, <1>3 DEF M!Last
<1>6. QED
  BY <1>2, <1>3, <1>4, <1>5 DEF w, t

LEMMA CurrentIs ==
    ASSUME SchemaTypes
    PROVE  /\ M!CurrentVersion \in 0..Len(Major)
           /\ M!CurrentVersion # 0 => M!CurrentVersion \in M!Releases
<1>1. CASE versions = <<>>
  BY <1>1, ReleaseNumbers DEF M!CurrentVersion
<1>2. CASE versions # <<>>
  <2>1. Len(versions) \in 1..Len(versions)
    BY <1>2, LenProperties, EmptySeq DEF SchemaTypes
  <2>2. versions[Len(versions)] \in M!Releases
    BY <2>1, ElementOfSeq DEF SchemaTypes
  <2>3. QED
    BY <1>2, <2>2, ReleaseNumbers DEF M!CurrentVersion, M!Last
<1>3. QED
  BY <1>1, <1>2

\* What a process is after a step of its own.
Lives == [at : {"down", "migrate", "record", "verify", "running"},
          rel : M!Releases, tool : BOOLEAN, counted : BOOLEAN]

LEMMA MovesWithin ==
    ASSUME SchemaTypes, NEW p \in Processes,
           NEW at \in {"migrate", "record", "verify", "running"},
           M!Stop(p) \/ M!Step(p, at)
    PROVE  /\ proc' \in [Processes -> Lives]
           /\ \A q \in Processes : q # p => proc'[q] = proc[q]
           /\ \/ proc'[p].at = "down"
              \/ proc'[p].at = at /\ proc'[p].rel = proc[p].rel
<1>1. M!Down \in Lives /\ M!Down.at = "down"
  BY ReleaseNumbers DEF M!Down, Lives
<1>2. proc \in [Processes -> Lives]
  BY DEF SchemaTypes, Lives
<1>3. [proc[p] EXCEPT !.at = at] \in Lives
  BY <1>2 DEF Lives
<1>4. CASE M!Stop(p)
  BY <1>1, <1>2, <1>4 DEF M!Stop
<1>5. CASE M!Step(p, at)
  <2>1. proc' = [proc EXCEPT ![p] = [proc[p] EXCEPT !.at = at]]
    BY <1>2, <1>5 DEF M!Step
  <2>2. proc'[p] = [proc[p] EXCEPT !.at = at] /\ \A q \in Processes : q # p => proc'[q] = proc[q]
    BY <1>2, <2>1
  <2>3. proc'[p].at = at /\ proc'[p].rel = proc[p].rel
    BY <1>2, <2>2 DEF Lives
  <2>4. QED
    BY <1>2, <1>3, <2>1, <2>2, <2>3
<1>6. QED
  BY <1>4, <1>5

LEMMA InitSchema == M!Init => SchemaInv
<1> SUFFICES ASSUME M!Init PROVE SchemaInv
  OBVIOUS
<1>1. PICK first \in {0, 1} :
         applied = first /\ versions = IF first = 0 THEN <<>> ELSE <<1>>
  BY DEF M!Init
<1>2. SchemaTypes
  <2>1. applied \in 0..Len(Major)
    BY <1>1, ReleaseNumbers
  <2>2. versions \in Seq(M!Releases) /\ M!IsInjective(versions)
    <3>1. CASE first = 0
      BY <1>1, <3>1 DEF M!IsInjective
    <3>2. CASE first = 1
      BY <1>1, <3>2, ReleaseNumbers DEF M!IsInjective
    <3>3. QED
      BY <3>1, <3>2
  <2>3. QED
    BY <2>1, <2>2, ReleaseNumbers DEF M!Init, M!Down, SchemaTypes
<1>3. M!CurrentVersion = applied
  BY <1>1 DEF M!CurrentVersion, M!Last
<1>4. QED
  BY <1>2, <1>3 DEF SchemaInv, VersionFits, ProcessFits, M!Init, M!Down

\* A process takes a step within its life, or ends.
LEMMA MovesOn ==
    ASSUME SchemaInv, UNCHANGED <<applied, versions, short>>,
           NEW p \in Processes,
           \/ M!Stop(p)
           \/ M!Step(p, "verify") /\ proc[p].at \in {"record", "verify", "running"}
           \/ M!Step(p, "running") /\ proc[p].at \in {"record", "verify", "running"}
    PROVE  SchemaInv'
<1>0. M!CurrentVersion' = M!CurrentVersion /\ M!Releases' = M!Releases
  BY DEF M!CurrentVersion, M!Releases
<1>a. /\ proc' \in [Processes -> Lives]
      /\ \A q \in Processes : q # p => proc'[q] = proc[q]
      /\ \/ proc'[p].at = "down"
         \/ proc'[p].rel = proc[p].rel /\ proc[p].at \in {"record", "verify", "running"}
  <2>1. SchemaTypes
    BY DEF SchemaInv
  <2>2. CASE M!Stop(p)
    BY <2>1, <2>2, MovesWithin DEF M!Stop, M!Down
  <2>3. ASSUME NEW at \in {"verify", "running"}, M!Step(p, at),
               proc[p].at \in {"record", "verify", "running"}
        PROVE  /\ proc' \in [Processes -> Lives]
               /\ \A q \in Processes : q # p => proc'[q] = proc[q]
               /\ proc'[p].at = "down" \/ proc'[p].rel = proc[p].rel
    BY <2>1, <2>3, MovesWithin
  <2>4. QED
    BY <2>2, <2>3
<1>1. SchemaTypes'
  BY <1>0, <1>a DEF SchemaInv, SchemaTypes, M!IsInjective, Lives
<1>2. ASSUME ~short, NEW q \in Processes PROVE ProcessFits(q)'
  <2>1. proc[q] \in [at : {"down", "migrate", "record", "verify", "running"},
                     rel : M!Releases, tool : BOOLEAN, counted : BOOLEAN]
    BY DEF SchemaInv, SchemaTypes
  <2>2. /\ proc[q].at # "down" => applied >= 1 /\ Major[proc[q].rel] = Major[applied]
        /\ proc[q].at \in {"record", "verify", "running"} => proc[q].rel <= applied
    BY <1>2 DEF SchemaInv, ProcessFits
  <2>3. \/ proc'[q] = proc[q]
        \/ proc'[q].at = "down"
        \/ /\ proc'[q].rel = proc[q].rel
           /\ proc[q].at \in {"record", "verify", "running"}
    BY <1>a
  <2>4. QED
    BY <2>2, <2>3 DEF ProcessFits
<1>3. QED
  BY <1>0, <1>1, <1>2 DEF SchemaInv, VersionFits

LEMMA CheckStep ==
    ASSUME SchemaInv, NEW p \in Processes, M!CheckBefore(p) PROVE SchemaInv'
<1>1. PICK r \in M!Releases, tool \in BOOLEAN, ct \in BOOLEAN :
         /\ M!Compatible(r)
         /\ proc' = [proc EXCEPT ![p] =
               [at |-> "migrate", rel |-> r, tool |-> tool, counted |-> ct]]
  BY DEF M!CheckBefore
<1>2. UNCHANGED <<applied, versions, short>>
  BY DEF M!CheckBefore
<1>3. M!CurrentVersion' = M!CurrentVersion
  BY <1>2 DEF M!CurrentVersion
<1>4. SchemaTypes'
  BY <1>1, <1>2 DEF SchemaInv, SchemaTypes, M!IsInjective
<1>5. ASSUME ~short PROVE VersionFits' /\ \A q \in Processes : ProcessFits(q)'
  <2>1. VersionFits /\ \A q \in Processes : ProcessFits(q)
    BY <1>5 DEF SchemaInv
  <2>2. Major[r] = Major[applied] /\ applied >= 1
    <3>1. M!CurrentVersion # 0 /\ Major[M!CurrentVersion] = Major[r]
      BY <1>1 DEF M!Compatible
    <3>2. M!CurrentVersion >= 1 /\ M!CurrentVersion \in Nat
      BY <3>1, CurrentIs, ReleaseNumbers DEF SchemaInv
    <3>3. QED
      BY <2>1, <3>1, <3>2, ReleaseNumbers DEF VersionFits, SchemaInv, SchemaTypes
  <2>3. ASSUME NEW q \in Processes PROVE ProcessFits(q)'
    <3>1. CASE q = p
      <4>1. proc'[q].at = "migrate" /\ proc'[q].rel = r
        BY <1>1, <3>1 DEF SchemaInv, SchemaTypes
      <4>2. QED
        BY <1>2, <2>2, <4>1 DEF ProcessFits
    <3>2. CASE q # p
      <4>1. proc'[q] = proc[q]
        BY <1>1, <3>2 DEF SchemaInv, SchemaTypes
      <4>2. QED
        BY <1>2, <2>1, <4>1 DEF ProcessFits
    <3>3. QED
      BY <3>1, <3>2
  <2>4. QED
    BY <1>2, <1>3, <2>1, <2>3 DEF VersionFits
<1>6. QED
  BY <1>2, <1>4, <1>5 DEF SchemaInv

LEMMA MigrateStep ==
    ASSUME SchemaInv, NEW p \in Processes, M!Migrate(p) PROVE SchemaInv'
<1> DEFINE rel == proc[p].rel
           target == IF proc[p].counted THEN M!Min({applied + 1, rel}) ELSE rel
<1>1. /\ applied' = M!Max({applied, target}) /\ short' = (short \/ applied' < rel)
      /\ proc' = [proc EXCEPT ![p].at = "record"] /\ UNCHANGED versions
      /\ proc[p].at = "migrate"
  BY DEF M!Migrate, M!Step
<1>2. SchemaTypes /\ rel \in M!Releases /\ rel \in 1..Len(Major) /\ applied \in 0..Len(Major)
      /\ Len(Major) \in Nat
  BY ReleaseNumbers DEF SchemaInv, SchemaTypes
<1>3. target \in Nat /\ target <= rel
  <2>1. M!Min({applied + 1, rel}) \in {applied + 1, rel} /\ M!Min({applied + 1, rel}) <= rel
    <3> HIDE DEF rel, target
    <3>1. \E x \in {applied + 1, rel} : \A y \in {applied + 1, rel} : x <= y
      BY <1>2
    <3>2. QED
      BY <3>1 DEF M!Min
  <2> HIDE DEF rel
  <2>2. QED
    BY <1>2, <2>1
<1> HIDE DEF target
<1>4. applied' \in {applied, target} /\ applied' >= applied /\ applied' >= target
  <2>1. \E x \in {applied, target} : \A y \in {applied, target} : x >= y
    BY <1>2, <1>3
  <2>2. QED
    BY <1>1, <2>1 DEF M!Max
<1> HIDE DEF rel
<1>5. applied' \in 0..Len(Major) /\ (applied' >= rel => applied' = applied \/ applied' = rel)
  BY <1>2, <1>3, <1>4
<1>6. SchemaTypes'
  BY <1>1, <1>2, <1>5 DEF SchemaTypes, M!IsInjective
<1>7. M!CurrentVersion' = M!CurrentVersion
  BY <1>1 DEF M!CurrentVersion
<1>8. ASSUME ~short' PROVE VersionFits' /\ \A q \in Processes : ProcessFits(q)'
  <2>1. ~short /\ applied' >= rel
    <3>1. ~short /\ ~(applied' < rel)
      BY <1>1, <1>8, Zenon
    <3>2. QED
      BY <1>2, <1>5, <3>1
  <2>2. VersionFits /\ \A q \in Processes : ProcessFits(q)
    BY <2>1 DEF SchemaInv
  <2>3. applied >= 1 /\ Major[rel] = Major[applied] /\ Major[applied'] = Major[applied]
    BY <1>1, <1>5, <2>1, <2>2 DEF ProcessFits, rel
  <2>4. M!CurrentVersion \in 0..Len(Major)
    BY <1>2, CurrentIs
  <2>5. VersionFits'
    BY <1>2, <1>4, <1>5, <1>7, <2>2, <2>3, <2>4 DEF VersionFits
  <2>6. ASSUME NEW q \in Processes PROVE ProcessFits(q)'
    <3>1. proc'[q].rel = proc[q].rel /\ proc[q].rel \in 1..Len(Major)
      BY <1>1, <1>2 DEF SchemaTypes, M!Releases
    <3>2. q = p \/ proc'[q] = proc[q]
      BY <1>1, <1>2 DEF SchemaTypes
    <3>3. CASE q = p
      BY <1>2, <1>5, <2>1, <2>3, <3>1, <3>3 DEF ProcessFits, rel
    <3>4. CASE proc'[q] = proc[q]
      <4>1. proc'[q].at # "down" => applied >= 1 /\ Major[proc[q].rel] = Major[applied]
        BY <2>2, <3>4 DEF ProcessFits
      <4>2. proc'[q].at \in {"record", "verify", "running"} => proc[q].rel <= applied
        BY <2>2, <3>4 DEF ProcessFits
      <4>3. QED
        BY <1>2, <1>4, <1>5, <2>3, <3>1, <4>1, <4>2 DEF ProcessFits
    <3>5. QED
      BY <3>2, <3>3, <3>4
  <2>7. QED
    BY <2>5, <2>6
<1>9. QED
  BY <1>6, <1>8 DEF SchemaInv

LEMMA RecordStep ==
    ASSUME SchemaInv, NEW p \in Processes, M!RecordVersion(p) PROVE SchemaInv'
<1> DEFINE rel == proc[p].rel
<1>1. /\ proc[p].at = "record" /\ UNCHANGED <<applied, short>>
      /\ versions' = Append(M!RemoveFirst(versions, rel), rel)
      /\ M!Stop(p) \/ M!Step(p, "verify")
  BY DEF M!RecordVersion, M!AfterRecord, M!Recorded
<1>2. rel \in M!Releases
  BY DEF SchemaInv, SchemaTypes
<1>3. /\ versions' \in Seq(M!Releases) /\ M!IsInjective(versions)'
      /\ versions' # <<>> /\ M!Last(versions') = rel
  <2>1. LET t == Append(M!RemoveFirst(versions, rel), rel) IN
        /\ t \in Seq(M!Releases) /\ M!IsInjective(t) /\ t # <<>> /\ M!Last(t) = rel
    <3> HIDE DEF rel
    <3>1. QED
      BY <1>2, RecordedType DEF SchemaInv, SchemaTypes
  <2>2. QED
    BY <1>1, <2>1 DEF M!IsInjective
<1>4. M!CurrentVersion' = rel
  BY <1>3 DEF M!CurrentVersion, M!Last
<1>5. proc' \in [Processes ->
          [at : {"down", "migrate", "record", "verify", "running"},
           rel : M!Releases, tool : BOOLEAN, counted : BOOLEAN]]
  BY <1>1, MovesWithin DEF SchemaInv, Lives
<1>6. SchemaTypes'
  BY <1>1, <1>3, <1>5 DEF SchemaInv, SchemaTypes, M!Releases
<1>7. ASSUME ~short PROVE VersionFits' /\ \A q \in Processes : ProcessFits(q)'
  <2>1. \A q \in Processes : ProcessFits(q)
    BY <1>7 DEF SchemaInv
  <2>2. VersionFits'
    BY <1>1, <1>4, <2>1 DEF VersionFits, ProcessFits
  <2>3. ASSUME NEW q \in Processes PROVE ProcessFits(q)'
    <3>1. \/ proc'[q] = proc[q]
          \/ proc'[q].at = "down"
          \/ proc'[q].rel = proc[q].rel /\ proc[q].at = "record"
      BY <1>1, MovesWithin DEF SchemaInv
    <3>2. QED
      BY <1>1, <2>1, <3>1 DEF ProcessFits
  <2>4. QED
    BY <2>2, <2>3
<1>8. QED
  BY <1>1, <1>6, <1>7 DEF SchemaInv

LEMMA SchemaStep == SchemaInv /\ [M!Next]_schemaVars => SchemaInv'
<1> SUFFICES ASSUME SchemaInv, [M!Next]_schemaVars PROVE SchemaInv'
  OBVIOUS
<1>1. CASE UNCHANGED schemaVars
  BY <1>1 DEF schemaVars, SchemaInv, SchemaTypes, VersionFits, ProcessFits,
               M!CurrentVersion, M!IsInjective, M!Releases
<1>2. CASE M!Rollback
  <2>1. applied' = applied - 1 /\ applied > 0 /\ short' = TRUE /\ UNCHANGED proc
        /\ (versions' = <<>> \/ versions' = versions)
    BY <1>2 DEF M!Rollback
  <2>2. M!IsInjective(versions)' /\ versions' \in Seq(M!Releases)
    <3>1. CASE versions' = <<>>
      BY <3>1 DEF M!IsInjective
    <3>2. CASE versions' = versions
      BY <3>2 DEF SchemaInv, SchemaTypes, M!IsInjective
    <3>3. QED
      BY <2>1, <3>1, <3>2
  <2>3. applied' \in 0..Len(Major)
    BY <2>1, ReleaseNumbers DEF SchemaInv, SchemaTypes
  <2>4. SchemaTypes'
    BY <2>1, <2>2, <2>3 DEF SchemaInv, SchemaTypes, M!Releases
  <2>5. QED
    BY <2>1, <2>4 DEF SchemaInv
<1>3. ASSUME NEW p \in Processes, M!CheckBefore(p) \/ M!Migrate(p) \/ M!RecordVersion(p)
      PROVE  SchemaInv'
  BY <1>3, CheckStep, MigrateStep, RecordStep
<1>4. ASSUME NEW p \in Processes, M!MigrateFails(p) \/ M!RecordFails(p) \/ M!Verify(p) \/ M!Crash(p)
      PROVE  SchemaInv'
  BY <1>4, MovesOn DEF M!MigrateFails, M!RecordFails, M!Verify, M!Crash, M!AfterRecord
<1>5. QED
  BY <1>1, <1>2, <1>3, <1>4 DEF M!Next

LEMMA SchemaFollows == SchemaInv => M!TypeOK /\ M!SchemaFits
BY DEF SchemaInv, SchemaTypes, VersionFits, ProcessFits, M!TypeOK, M!SchemaFits

-----------------------------------------------------------------------------

(* The limiter in front of Horizon.                                        *)

(* The limiter in front of Horizon.                                        *)

\* A request of age a holds up a timer that has WindowMs - a ticks to go.
HeldUp(c) == \E a \in H!Ages : requests[a] < requests[a + 1] /\ WindowMs - a = timer[c]

LimiterInv ==
    /\ requests \in [0..WindowMs -> Nat] /\ timer \in [Consumers -> -1..WindowMs]
    /\ requests[0] = 0
    /\ \A a \in H!Ages : requests[a] <= requests[a + 1]
    /\ requests[WindowMs] <= MaxRequests
    /\ \A c \in Consumers : timer[c] > 0 => HeldUp(c)

LEMMA WindowNumbers ==
    /\ WindowMs \in Nat /\ WindowMs >= 1 /\ MaxRequests \in Nat /\ MaxRequests >= 1
    /\ 0 \in 0..WindowMs /\ WindowMs \in 0..WindowMs
    /\ \A a \in H!Ages : a \in Int /\ 0 <= a /\ a < WindowMs /\ a \in 0..WindowMs
                         /\ a + 1 \in 0..WindowMs
BY HorizonAssumption DEF H!Ages

LEMMA LimiterInit == H!Init => LimiterInv
BY WindowNumbers DEF H!Init, H!NoWait, LimiterInv

\* When the window is not empty, it has an oldest request.
LEMMA OldestIs ==
    ASSUME LimiterInv, requests[WindowMs] > 0
    PROVE  /\ H!Oldest \in H!Ages
           /\ requests[H!Oldest] < requests[H!Oldest + 1]
<1> DEFINE Held == {n \in 0..WindowMs : requests[n] > 0}
           There == {a \in H!Ages : H!OfAge(a) > 0}
<1>1. \A n \in 0..WindowMs : requests[n] \in Int
  BY DEF LimiterInv
<1>2. PICK n \in Held : \A k \in Held : n <= k
  <2>1. Held \subseteq Int /\ Held # {} /\ (\A k \in Held : k >= 0) /\ 0 \in Int
    BY WindowNumbers
  <2> HIDE DEF Held
  <2>2. QED
    BY <2>1, LeastExists, Zenon
<1>3. n \in Int /\ n >= 1 /\ n <= WindowMs
  BY <1>2, WindowNumbers DEF LimiterInv
<1>4. n - 1 \in H!Ages /\ n - 1 \notin Held
  BY <1>2, <1>3, WindowNumbers DEF H!Ages
<1>5. H!OfAge(n - 1) > 0
  <2>1. n - 1 \in 0..WindowMs
    BY <1>3, WindowNumbers
  <2>2. requests[n - 1] \in Nat /\ requests[n] \in Nat
    BY <1>2, <2>1 DEF LimiterInv
  <2>3. requests[n - 1] <= 0 /\ requests[n] > 0
    BY <1>2, <1>4, <2>1, <2>2
  <2>4. H!OfAge(n - 1) = requests[n] - requests[n - 1]
    BY <1>3 DEF H!OfAge
  <2>5. QED
    BY <2>2, <2>3, <2>4
<1>6. H!Oldest \in There
  <2>1. /\ There # {} /\ There \subseteq Int /\ (\A a \in There : a <= WindowMs)
        /\ WindowMs \in Int
    BY <1>4, <1>5, WindowNumbers
  <2>2. H!Oldest = H!Max(There)
    BY DEF H!Oldest
  <2> HIDE DEF There
  <2>3. PICK x \in There : \A y \in There : y <= x
    BY <2>1, GreatestExists, Zenon
  <2>4. \A y \in There : x >= y
    BY <2>1, <2>3
  <2>5. QED
    BY <2>2, <2>4 DEF H!Max
<1>7. H!Oldest \in H!Ages /\ H!OfAge(H!Oldest) > 0
  BY <1>6
<1>8. requests[H!Oldest] \in Int /\ requests[H!Oldest + 1] \in Int
  BY <1>1, <1>7, WindowNumbers
<1>9. QED
  BY <1>7, <1>8 DEF H!OfAge

\* A call that is let through, or sent to wait.
LEMMA ConsumeStep ==
    ASSUME LimiterInv, NEW c \in Consumers, H!Consume(c) PROVE LimiterInv'
<1> USE DEF LimiterInv
<1>1. CASE requests[WindowMs] >= MaxRequests
  <2> DEFINE left == WindowMs - H!Oldest
  <2>1. H!Oldest \in H!Ages /\ requests[H!Oldest] < requests[H!Oldest + 1]
    <3>1. requests[WindowMs] > 0
      BY <1>1, WindowNumbers
    <3>2. QED
      BY <3>1, OldestIs
  <2>2. left \in 1..WindowMs /\ left \in -1..WindowMs
    BY <2>1, WindowNumbers
  <2>3. timer' = [timer EXCEPT ![c] = left] /\ UNCHANGED requests
    BY <1>1 DEF H!Consume, H!InWindow
  <2>4. WindowMs - H!Oldest = left
    OBVIOUS
  <2> HIDE DEF left
  <2>5. HeldUp(c)'
    BY <2>1, <2>3, <2>4 DEF HeldUp
  <2>6. ASSUME NEW d \in Consumers, timer'[d] > 0 PROVE HeldUp(d)'
    BY <2>3, <2>5, <2>6 DEF HeldUp
  <2>7. QED
    BY <2>2, <2>3, <2>6
<1>2. CASE ~(requests[WindowMs] >= MaxRequests)
  <2>1. /\ requests' = [a \in 0..WindowMs |-> IF a = 0 THEN 0 ELSE requests[a] + 1]
        /\ timer' = [timer EXCEPT ![c] = -1]
    BY <1>2 DEF H!Consume, H!InWindow, H!Pass, H!NoWait
  <2>2. \A a \in 0..WindowMs : requests[a] \in Nat
    OBVIOUS
  <2>3. requests' \in [0..WindowMs -> Nat] /\ requests'[0] = 0
    BY <2>1, <2>2, WindowNumbers
  <2>4. timer' \in [Consumers -> -1..WindowMs]
    BY <2>1, WindowNumbers
  <2>5. ASSUME NEW a \in H!Ages
        PROVE  /\ requests'[a] <= requests'[a + 1]
               /\ requests[a] < requests[a + 1] => requests'[a] < requests'[a + 1]
    <3>1. /\ a \in 0..WindowMs /\ a + 1 \in 0..WindowMs /\ a + 1 # 0
          /\ requests[a] <= requests[a + 1]
      BY WindowNumbers
    <3>2. requests[a] \in Nat /\ requests[a + 1] \in Nat
      BY <2>2, <3>1
    <3>3. /\ requests'[a + 1] = requests[a + 1] + 1
          /\ requests'[a] = IF a = 0 THEN 0 ELSE requests[a] + 1
      BY <2>1, <3>1
    <3>4. QED
      BY <3>1, <3>2, <3>3
  <2>6. requests'[WindowMs] <= MaxRequests
    <3>1. requests[WindowMs] \in Nat /\ requests'[WindowMs] = requests[WindowMs] + 1
      BY <2>1, <2>2, WindowNumbers
    <3>2. QED
      BY <1>2, <3>1, WindowNumbers
  <2>7. ASSUME NEW d \in Consumers, timer'[d] > 0 PROVE HeldUp(d)'
    <3>1. timer'[d] = timer[d] /\ timer[d] > 0
      BY <2>1, <2>7
    <3>2. HeldUp(d)
      BY <3>1
    <3>3. QED
      BY <2>5, <3>1, <3>2 DEF HeldUp
  <2>8. QED
    BY <2>3, <2>4, <2>5, <2>6, <2>7
<1>3. QED
  BY <1>1, <1>2

\* Every request grows older, and every wait shorter.
LEMMA LimiterTick == ASSUME LimiterInv, H!Tick PROVE LimiterInv'
<1> USE DEF LimiterInv
<1>1. /\ requests' = [a \in 0..WindowMs |-> IF a = 0 THEN 0 ELSE requests[a - 1]]
      /\ timer' = [c \in Consumers |-> IF timer[c] > 0 THEN timer[c] - 1 ELSE timer[c]]
  BY DEF H!Tick
<1>2. \A a \in 0..WindowMs : requests[a] \in Nat
  OBVIOUS
<1>3. requests' \in [0..WindowMs -> Nat] /\ requests'[0] = 0
  <2>1. \A a \in 0..WindowMs : a # 0 => a - 1 \in 0..WindowMs
    BY WindowNumbers
  <2>2. QED
    BY <1>1, <1>2, <2>1, WindowNumbers
<1>4. timer' \in [Consumers -> -1..WindowMs]
  <2>1. \A c \in Consumers : timer[c] \in -1..WindowMs
    OBVIOUS
  <2>2. \A c \in Consumers : (IF timer[c] > 0 THEN timer[c] - 1 ELSE timer[c]) \in -1..WindowMs
    BY <2>1, WindowNumbers
  <2>3. QED
    BY <1>1, <2>2
<1>5. \A a \in H!Ages : requests'[a + 1] = requests[a]
  BY <1>1, WindowNumbers
<1>6. ASSUME NEW a \in H!Ages PROVE requests'[a] <= requests'[a + 1]
  <2>1. CASE a = 0
    BY <1>2, <1>3, <1>5, <2>1, WindowNumbers
  <2>2. CASE a # 0
    <3>1. a - 1 \in H!Ages /\ (a - 1) + 1 = a
      BY <2>2, WindowNumbers DEF H!Ages
    <3>2. requests'[a] = requests[a - 1] /\ requests[a - 1] <= requests[a]
      BY <1>5, <3>1
    <3>3. QED
      BY <1>5, <3>2
  <2>3. QED
    BY <2>1, <2>2
<1>7. requests'[WindowMs] <= MaxRequests
  <2>1. WindowMs - 1 \in H!Ages /\ (WindowMs - 1) + 1 = WindowMs
    BY WindowNumbers DEF H!Ages
  <2>2. requests'[WindowMs] = requests[WindowMs - 1]
    BY <1>5, <2>1
  <2>3. requests[WindowMs - 1] <= requests[WindowMs]
    BY <2>1
  <2>4. requests[WindowMs - 1] \in Nat /\ requests[WindowMs] \in Nat
    BY <1>2, <2>1, WindowNumbers
  <2>5. QED
    BY <2>2, <2>3, <2>4, WindowNumbers
<1>8. ASSUME NEW c \in Consumers, timer'[c] > 0 PROVE HeldUp(c)'
  <2>1. timer[c] \in -1..WindowMs
    OBVIOUS
  <2>2. timer[c] > 1 /\ timer'[c] = timer[c] - 1
    BY <1>1, <1>8, <2>1
  <2>3. HeldUp(c)
    BY <2>2
  <2>4. PICK a \in H!Ages : requests[a] < requests[a + 1] /\ WindowMs - a = timer[c]
    BY <2>3 DEF HeldUp
  <2>5. a + 1 \in H!Ages /\ WindowMs - (a + 1) = timer'[c]
    BY <2>2, <2>4, WindowNumbers DEF H!Ages
  <2>6. requests'[a + 1] = requests[a] /\ requests'[(a + 1) + 1] = requests[a + 1]
    BY <1>5, <2>5
  <2>7. requests'[a + 1] < requests'[(a + 1) + 1]
    BY <2>4, <2>6
  <2>8. QED
    BY <2>5, <2>7 DEF HeldUp
<1>9. QED
  BY <1>3, <1>4, <1>6, <1>7, <1>8

LEMMA LimiterStep == ASSUME LimiterInv, [H!Next]_limiterVars PROVE LimiterInv'
<1>1. CASE UNCHANGED limiterVars
  BY <1>1 DEF limiterVars, LimiterInv, HeldUp
<1>2. CASE H!Tick
  BY <1>2, LimiterTick
<1>3. ASSUME NEW c \in Consumers, H!Call(c) \/ H!Wake(c) PROVE LimiterInv'
  BY <1>3, ConsumeStep DEF H!Call, H!Wake
<1>4. QED
  BY <1>1, <1>2, <1>3 DEF H!Next

LEMMA LimiterFollows == LimiterInv => H!TypeOK /\ H!SlidingBudget
<1> SUFFICES ASSUME LimiterInv PROVE H!TypeOK /\ H!SlidingBudget
  OBVIOUS
<1>1. H!TypeOK
  BY DEF LimiterInv, H!TypeOK
<1>2. ASSUME NEW a \in H!Ages, requests[a] < requests[a + 1] PROVE H!OfAge(a) > 0
  <2>1. requests[a] \in Int /\ requests[a + 1] \in Int
    BY WindowNumbers DEF LimiterInv
  <2>2. QED
    BY <1>2, <2>1 DEF H!OfAge
<1>3. H!SlidingBudget
  BY <1>2 DEF LimiterInv, HeldUp, H!SlidingBudget, H!InWindow
<1>4. QED
  BY <1>1, <1>3

-----------------------------------------------------------------------------

(* All of them together.                                                   *)

PackageInv ==
    /\ SInv /\ LossInv /\ L!FailedIsQueued /\ IndexerInv
    /\ GapInv /\ RecoverInv /\ SchemaInv /\ LimiterInv

\* A step of the whole is a step or a stutter of every part.
LEMMA EachPartSteps ==
    ASSUME [PackageNext]_vars
    PROVE  /\ [Next]_trackerVars /\ [L!Next]_legacyVars /\ [G!Next]_gapVars
           /\ [M!Next]_schemaVars /\ [H!Next]_limiterVars
<1>1. CASE TrackerOnly /\ Next
  BY <1>1 DEF TrackerOnly
<1>2. CASE IndexerOnly /\ L!Next
  BY <1>2 DEF IndexerOnly
<1>3. CASE GapsOnly /\ G!Next
  BY <1>3 DEF GapsOnly
<1>4. CASE SchemaOnly /\ M!Next
  BY <1>4 DEF SchemaOnly
<1>5. CASE LimiterOnly /\ H!Next
  BY <1>5 DEF LimiterOnly
<1>6. CASE UNCHANGED vars
  BY <1>6 DEF vars
<1>7. QED
  BY <1>1, <1>2, <1>3, <1>4, <1>5, <1>6 DEF PackageNext

LEMMA ScanNumbers == Numbers
BY ScanAssumption, ChainAssumption DEF Numbers

LEMMA PackageBegins == PackageInit => PackageInv
<1> SUFFICES ASSUME PackageInit PROVE PackageInv
  OBVIOUS
<1>1. Init /\ L!Init /\ G!Init /\ M!Init /\ H!Init
  BY DEF PackageInit
<1>2. QED
  BY <1>1, InitStale, InitLoss, InitQueue, IndexerInit, InitGaps, InitRecover, InitSchema,
     LimiterInit DEF PackageInv

LEMMA PackageStep == PackageInv /\ [PackageNext]_vars => PackageInv'
<1> SUFFICES ASSUME PackageInv, [PackageNext]_vars PROVE PackageInv'
  OBVIOUS
<1>1. SInv'
  BY EachPartSteps, InvStep, StaleStep DEF PackageInv, SInv
<1>2. LossInv' /\ L!FailedIsQueued' /\ IndexerInv'
  BY EachPartSteps, LossStep, QueueStep, IndexerStep DEF PackageInv
<1>3. GapInv' /\ RecoverInv'
  BY EachPartSteps, ScanNumbers, GapStep, RecoverStep DEF PackageInv
<1>4. SchemaInv' /\ LimiterInv'
  BY EachPartSteps, SchemaStep, LimiterStep DEF PackageInv
<1>5. QED
  BY <1>1, <1>2, <1>3, <1>4 DEF PackageInv

LEMMA PackageInvariant == PackageSpec => []PackageInv
BY PackageBegins, PackageStep, PTL DEF PackageSpec

(***************************************************************************)
(* The state of every part of packages/indexer keeps its type; above all,  *)
(* no checkpoint claims a ledger that is not behind it, a version has one  *)
(* row, and a report's total is a count.                                   *)
(***************************************************************************)
THEOREM PackageTypesCorrect == PackageSpec => []TypesOK
<1>1. PackageInv => TypesOK
  BY IndexerFollows, GapsFollow, SchemaFollows, LimiterFollows DEF PackageInv, SInv, IInv, TypesOK
<1>2. QED
  BY <1>1, PackageInvariant, PTL

(***************************************************************************)
(* withIdempotency, unmark and cleanup as parts of the package: the work   *)
(* of a key runs once, and a cache is ahead of its table only where a row  *)
(* was deleted behind it.                                                  *)
(***************************************************************************)
THEOREM TrackerHolds == PackageSpec => [](WorkRunsOnce /\ StaleOnlyByOverlap)
<1>1. PackageInv => WorkRunsOnce /\ StaleOnlyByOverlap
  BY DEF PackageInv, SInv, IInv
<1>2. QED
  BY <1>1, PackageInvariant, PTL

(***************************************************************************)
(* processLedger of the legacy indexer: for any chain, batch size and      *)
(* number of starts, a ledger whose processing threw is stored or in the   *)
(* dead letter queue, whatever tasks overlap and whenever the process dies. *)
(***************************************************************************)
THEOREM FailedStaysQueued == PackageSpec => []FailedIsQueued
<1>1. PackageInv => FailedIsQueued
  BY DEF PackageInv, FailedIsQueued
<1>2. QED
  BY <1>1, PackageInvariant, PTL

(***************************************************************************)
(* processTransactionsForLedger: a ledger is stored without its            *)
(* transactions only where a call knew of it, or a mark had outlived a     *)
(* rollback.                                                               *)
(***************************************************************************)
THEOREM LossesExplained == PackageSpec => []LossExplained
<1>1. PackageInv => LossExplained
  BY LossFollows DEF PackageInv, LossExplained
<1>2. QED
  BY <1>1, PackageInvariant, PTL

(***************************************************************************)
(* The scans of GapDetectionService: for any number of ledgers and any     *)
(* lag, a finished scan has named every ledger still missing between its   *)
(* bounds, whatever was stored between its statements.                     *)
(***************************************************************************)
THEOREM HolesAreFound == PackageSpec => []HolesFound
<1>1. PackageInv => HolesFound
  BY GapsFollow DEF PackageInv, HolesFound
<1>2. QED
  BY <1>1, PackageInvariant, PTL

(***************************************************************************)
(* mergeGaps, totalMissing and recoverMissingLedgers: whatever gaps two    *)
(* scans report, sorted and merged they are the same ledgers in ranges     *)
(* apart, the total counts each once, and the recovery has tried each when *)
(* it returns.                                                             *)
(***************************************************************************)
THEOREM EveryGapIsTried == PackageSpec => []EveryGapTried
<1>1. PackageInv => EveryGapTried
  BY GapsFollow DEF PackageInv, EveryGapTried
<1>2. QED
  BY <1>1, PackageInvariant, PTL

(***************************************************************************)
(* runMigrations and setVersion: for any releases and any number of        *)
(* processes that start, crash and overlap, the recorded version promises  *)
(* no migration that is missing and what runs fits what is applied, unless *)
(* an operator left migrations out.                                        *)
(***************************************************************************)
THEOREM SchemaStaysFit == PackageSpec => []SchemaFits
<1>1. PackageInv => SchemaFits
  BY SchemaFollows DEF PackageInv, SchemaFits
<1>2. QED
  BY <1>1, PackageInvariant, PTL

(***************************************************************************)
(* RateLimiter.consume: for any limit, window and number of waiting        *)
(* callers, no stretch as long as the window holds more requests than the  *)
(* limit.                                                                  *)
(***************************************************************************)
THEOREM SlidingBudgetHolds == PackageSpec => []SlidingBudget
<1>1. PackageInv => SlidingBudget
  BY LimiterFollows DEF PackageInv, SlidingBudget
<1>2. QED
  BY <1>1, PackageInvariant, PTL

=============================================================================

--------------------- MODULE IdempotencyTrackerProofs ---------------------
(***************************************************************************)
(* Proofs about the idempotency tracker, for any keys, processes, callers, *)
(* checksums and strategies.                                               *)
(***************************************************************************)
EXTENDS IdempotencyTracker, TLAPS

\* Where a call has a checksum of its own to store, and a single key.
Storing == {"mark", "lock", "select", "work", "commit"}

\* A call that stores is about one key and stores a real checksum.
OneKey ==
    \A c \in Callers : call[c].at \in Storing =>
        /\ call[c].sum \in Checksums
        /\ \E k \in Keys : call[c].keys = {k}

\* The advisory lock: two transactions never hold the lock of one key.
Exclusive ==
    \A c, d \in Callers :
        call[c].at \in InLock /\ call[d].at \in InLock
            /\ call[c].keys \intersect call[d].keys # {} => c = d

\* Work that ran left a row, and who is about to run it found none under the lock.
RunsFound ==
    /\ \A k \in Keys : records[k] = Absent => ran[k] = 0
    /\ \A c \in Callers :
          call[c].at \in {"work", "commit"} /\ call[c].strategy = "SKIP" =>
              \A k \in call[c].keys : ran[k] = 0

IInv == TypeOK /\ OneKey /\ Exclusive /\ RunsFound /\ WorkRunsOnce

-----------------------------------------------------------------------------

LEMMA InitInv == Init => IInv
<1> SUFFICES ASSUME Init PROVE IInv
  OBVIOUS
<1>1. TypeOK
  BY DEF Init, TypeOK, Idle, About, Points
<1>2. \A c \in Callers : call[c].at = "idle"
  BY DEF Init, Idle, About
<1>3. OneKey /\ Exclusive
  BY <1>2 DEF OneKey, Exclusive, Storing, InLock
<1>4. RunsFound /\ WorkRunsOnce
  BY <1>2 DEF Init, RunsFound, WorkRunsOnce
<1>5. QED
  BY <1>1, <1>3, <1>4 DEF IInv

\* Every step of every caller and process keeps the types.
LEMMA TypeStep == TypeOK /\ [Next]_trackerVars => TypeOK'
<1> SUFFICES ASSUME TypeOK, [Next]_trackerVars PROVE TypeOK'
  OBVIOUS
<1> USE TrackerAssumption DEF TypeOK, Points, Idle, About, Go, Done
<1> DEFINE CallType == [Callers -> [at : Points, keys : SUBSET Keys,
                                   sum : Checksums \union {Absent},
                                   strategy : Strategies \union {"SKIP"}]]
<1>a. ASSUME NEW c \in Callers, NEW at \in Points, Go(c, at) PROVE call' \in CallType
  <2> HIDE DEF Points
  <2>1. call' = [call EXCEPT ![c].at = at] /\ call \in CallType
    BY <1>a
  <2>2. [call[c] EXCEPT !.at = at] \in [at : Points, keys : SUBSET Keys,
                                       sum : Checksums \union {Absent},
                                       strategy : Strategies \union {"SKIP"}]
    BY <2>1
  <2>3. QED
    BY <2>1, <2>2
<1>1. CASE UNCHANGED trackerVars
  BY <1>1 DEF trackerVars
<1>2. ASSUME NEW c \in Callers, Start(c) PROVE TypeOK'
  <2>1. CASE Initialize(c)
    <3>1. PICK K \in SUBSET {k \in Keys : records[k] # Absent} :
             call' = [call EXCEPT ![c] = About("warm", K)]
      BY <2>1, Zenon DEF Initialize
    <3>2. call' \in CallType
      BY <3>1
    <3>3. QED
      BY <2>1, <3>2 DEF Initialize
  <2>2. ASSUME NEW K \in SUBSET Keys, NEW at \in {"unmarked", "cleaned"}, Delete(c, K, at)
        PROVE TypeOK'
    <3>1. Holders(c, K) \in [Trackers -> SUBSET Keys]
      BY <2>2 DEF Holders
    <3>2. QED
      BY <2>2, <3>1 DEF Delete
  <2>3. CASE Cleanup(c)
    BY <2>3, <2>2 DEF Cleanup
  <2>4. ASSUME NEW k \in Keys, Unmark(c, k) PROVE TypeOK'
    BY <2>4, <2>2 DEF Unmark
  <2>5. ASSUME NEW k \in Keys, IsProcessed(c, k) PROVE TypeOK'
    BY <2>5 DEF IsProcessed, Calls
  <2>6. ASSUME NEW k \in Keys, NEW sum \in Checksums, MarkProcessed(c, k, sum)
        PROVE TypeOK'
    BY <2>6 DEF MarkProcessed, Calls
  <2>7. ASSUME NEW k \in Keys, NEW sum \in Checksums, NEW s \in Strategies,
               WithIdempotency(c, k, sum, s)
        PROVE TypeOK'
    <3>1. call' = [call EXCEPT ![c] =
                     [at |-> "lock", keys |-> {k}, sum |-> sum, strategy |-> s]]
      BY <2>7 DEF WithIdempotency, Calls
    <3>2. call' \in [Callers -> [at : Points, keys : SUBSET Keys,
                                 sum : Checksums \union {Absent},
                                 strategy : Strategies \union {"SKIP"}]]
      BY <3>1
    <3>3. QED
      BY <2>7, <3>2 DEF WithIdempotency
  <2>8. QED
    BY <1>2, <2>1, <2>3, <2>4, <2>5, <2>6, <2>7 DEF Start
<1>3. ASSUME NEW c \in Callers, Continue(c) PROVE TypeOK'
  <2>1. CASE Warmed(c)
    <3>1. TrackerOf[c] \in Trackers /\ call[c].keys \subseteq Keys
      OBVIOUS
    <3>2. processedCache' \in [Trackers -> SUBSET Keys]
      BY <2>1, <3>1 DEF Warmed, Remember
    <3>3. QED
      BY <2>1, <3>2 DEF Warmed
  <2>2. CASE Exists(c)
    <3>1. call' \in CallType
      <4>1. CASE Go(c, "known")
        BY <4>1, <1>a
      <4>2. CASE Done(c)
        BY <4>2
      <4>3. QED
        BY <2>2, <4>1, <4>2 DEF Exists
    <3>2. QED
      BY <2>2, <3>1 DEF Exists
  <2>3. CASE AddToCache(c)
    <3>1. TrackerOf[c] \in Trackers /\ call[c].keys \subseteq Keys
      OBVIOUS
    <3>2. processedCache' \in [Trackers -> SUBSET Keys]
      BY <2>3, <3>1 DEF AddToCache, Remember
    <3>3. QED
      BY <2>3, <3>2 DEF AddToCache
  <2>4. CASE Upsert(c)
    BY <2>4 DEF Upsert, Upserted
  <2>5. CASE AcquireLock(c)
    BY <2>5 DEF AcquireLock
  <2>6. CASE SelectUnderLock(c)
    <3>1. Go(c, "work") \/ Go(c, "skipped")
      BY <2>6 DEF SelectUnderLock
    <3>2. call' \in CallType
      BY <3>1, <1>a
    <3>3. QED
      BY <2>6, <3>2 DEF SelectUnderLock
  <2>7. CASE Work(c)
    BY <2>7 DEF Work
  <2>8. CASE Commit(c)
    <3>1. call' \in CallType
      BY <2>8, <1>a DEF Commit
    <3>2. records' \in [Keys -> Checksums \union {Absent}] /\ ran' \in [Keys -> Nat]
      BY <2>8 DEF Commit, Upserted
    <3>3. QED
      BY <2>8, <3>1, <3>2 DEF Commit
  <2>9. CASE Evict(c)
    BY <2>9 DEF Evict, Evicted
  <2>10. CASE Cleaned(c)
    BY <2>10 DEF Cleaned, Evicted
  <2>11. CASE Fail(c)
    BY <2>11 DEF Fail
  <2>12. QED
    BY <1>3, <2>1, <2>2, <2>3, <2>4, <2>5, <2>6, <2>7, <2>8, <2>9, <2>10, <2>11
    DEF Continue
<1>4. ASSUME NEW t \in Trackers, ForgetCache(t) PROVE TypeOK'
  BY <1>4 DEF ForgetCache, Evicted
<1>5. ASSUME NEW t \in Trackers, Crash(t) PROVE TypeOK'
  BY <1>5 DEF Crash
<1>6. QED
  BY <1>1, <1>2, <1>3, <1>4, <1>5 DEF Next

\* One action at a time: who may hold a lock, and who has found no row.
LEMMA InvStep == IInv /\ [Next]_trackerVars => IInv'
<1> SUFFICES ASSUME IInv, [Next]_trackerVars PROVE IInv'
  OBVIOUS
<1>0. TypeOK'
  BY TypeStep DEF IInv
<1> DEFINE Rest == OneKey /\ Exclusive /\ RunsFound /\ WorkRunsOnce
<1>1. CASE UNCHANGED trackerVars
  BY <1>0, <1>1 DEF trackerVars, IInv, OneKey, Exclusive, RunsFound, WorkRunsOnce
<1> USE TrackerAssumption, ChecksumAssumption
        DEF IInv, TypeOK, OneKey, Exclusive, RunsFound, WorkRunsOnce, Storing, InLock,
            About, Idle, Go, Done, Calls
<1>2. ASSUME NEW c \in Callers, Start(c) PROVE Rest'
  <2>1. CASE Initialize(c)
    <3>1. PICK K \in SUBSET {k \in Keys : records[k] # Absent} :
             call' = [call EXCEPT ![c] = About("warm", K)]
      BY <2>1, Zenon DEF Initialize
    <3>2. QED
      BY <2>1, <3>1 DEF Initialize
  <2>2. ASSUME NEW K \in SUBSET Keys, NEW at \in {"unmarked", "cleaned"}, Delete(c, K, at)
        PROVE Rest'
    BY <2>2 DEF Delete
  <2>3. CASE Cleanup(c)
    <3>1. PICK K \in SUBSET Keys : Delete(c, K, "cleaned")
      BY <2>3, Zenon DEF Cleanup
    <3> HIDE DEF Rest
    <3>2. QED
      BY <3>1, <2>2, Zenon
  <2>4. ASSUME NEW k \in Keys, Unmark(c, k) PROVE Rest'
    BY <2>4, <2>2 DEF Unmark
  <2>5. ASSUME NEW k \in Keys, IsProcessed(c, k) PROVE Rest'
    BY <2>5 DEF IsProcessed
  <2>6. ASSUME NEW k \in Keys, NEW sum \in Checksums, MarkProcessed(c, k, sum)
        PROVE Rest'
    BY <2>6 DEF MarkProcessed
  <2>7. ASSUME NEW k \in Keys, NEW sum \in Checksums, NEW s \in Strategies,
               WithIdempotency(c, k, sum, s)
        PROVE Rest'
    BY <2>7 DEF WithIdempotency
  <2>8. QED
    BY <1>2, <2>1, <2>3, <2>4, <2>5, <2>6, <2>7 DEF Start
<1>3. ASSUME NEW c \in Callers, Continue(c) PROVE Rest'
  <2>1. CASE Warmed(c)
    BY <2>1 DEF Warmed
  <2>2. CASE Exists(c)
    <3>1. CASE Go(c, "known")
      BY <2>2, <3>1 DEF Exists
    <3>2. CASE Done(c)
      BY <2>2, <3>2 DEF Exists
    <3>3. QED
      BY <2>2, <3>1, <3>2 DEF Exists
  <2>3. CASE AddToCache(c)
    BY <2>3 DEF AddToCache
  <2>4. CASE Upsert(c)
    <3>1. PICK k \in Keys : call[c].keys = {k} /\ call[c].sum \in Checksums
      BY <2>4 DEF Upsert
    <3>2. /\ records' = [records EXCEPT ![k] = IF @ = Absent THEN call[c].sum ELSE @]
          /\ ran' = ran
      BY <2>4, <3>1 DEF Upsert, Upserted
    <3>3. \A j \in Keys : records'[j] = Absent => records[j] = Absent
      BY <3>1, <3>2
    <3>4. call' = [call EXCEPT ![c].at = "marked"]
      BY <2>4 DEF Upsert
    <3>5. QED
      BY <3>2, <3>3, <3>4
  <2>5. CASE AcquireLock(c)
    <3>1. PICK k \in Keys : call[c].keys = {k} /\ call[c].sum \in Checksums
      BY <2>5 DEF AcquireLock
    <3>2. call' = [call EXCEPT ![c].at = "select"] /\ records' = records /\ ran' = ran
      BY <2>5 DEF AcquireLock
    <3>3. \A d \in Callers : call[d].at \in InLock => k \notin call[d].keys
      BY <2>5, <3>1 DEF AcquireLock, Locked
    <3>4. OneKey' /\ RunsFound' /\ WorkRunsOnce'
      BY <2>5, <3>1, <3>2 DEF AcquireLock
    <3>5. Exclusive'
      BY <3>1, <3>2, <3>3
    <3>6. QED
      BY <3>4, <3>5
  <2>6. CASE SelectUnderLock(c)
    BY <2>6 DEF SelectUnderLock, ResolveConflict
  <2>7. CASE Work(c)
    BY <2>7 DEF Work
  <2>8. CASE Commit(c)
    <3>1. PICK k \in Keys : call[c].keys = {k} /\ call[c].sum \in Checksums
      BY <2>8 DEF Commit
    <3>2. /\ records' = [records EXCEPT ![k] = IF @ = Absent THEN call[c].sum ELSE @]
          /\ ran' = IF call[c].strategy = "SKIP" THEN [ran EXCEPT ![k] = @ + 1] ELSE ran
      BY <2>8, <3>1 DEF Commit, Upserted
    <3>3. \A j \in Keys : records'[j] = Absent => records[j] = Absent /\ j # k
      BY <3>1, <3>2
    <3>4. \A j \in Keys : j # k => ran'[j] = ran[j]
      BY <3>2
    <3>5. call' = [call EXCEPT ![c].at = "committed"] /\ call[c].at = "commit"
      BY <2>8 DEF Commit
    <3>6. ran'[k] <= 1
      BY <3>1, <3>2, <3>5
    <3>7. WorkRunsOnce'
      BY <3>4, <3>6
    <3>8. OneKey' /\ Exclusive'
      BY <3>5
    <3>9. \A d \in Callers : d # c /\ call[d].at \in InLock => k \notin call[d].keys
      BY <3>1, <3>5
    <3>10. RunsFound'
      BY <3>3, <3>4, <3>5, <3>9
    <3>11. QED
      BY <3>7, <3>8, <3>10
  <2>9. CASE Evict(c)
    BY <2>9 DEF Evict
  <2>10. CASE Cleaned(c)
    BY <2>10 DEF Cleaned
  <2>11. CASE Fail(c)
    BY <2>11 DEF Fail
  <2>12. QED
    BY <1>3, <2>1, <2>2, <2>3, <2>4, <2>5, <2>6, <2>7, <2>8, <2>9, <2>10, <2>11
    DEF Continue
<1>4. ASSUME NEW t \in Trackers, ForgetCache(t) PROVE Rest'
  BY <1>4 DEF ForgetCache
<1>5. ASSUME NEW t \in Trackers, Crash(t) PROVE Rest'
  BY <1>5 DEF Crash, Of
<1>6. QED
  BY <1>0, <1>1, <1>2, <1>3, <1>4, <1>5 DEF Next

(***************************************************************************)
(* A SKIP caller's work runs at most once for a key until its row is       *)
(* deleted: withIdempotency over any number of processes, calls, failures  *)
(* and crashes.                                                            *)
(***************************************************************************)
THEOREM WorkRunsOnceHolds == Spec => []WorkRunsOnce
<1>1. IInv => WorkRunsOnce
  BY DEF IInv
<1>2. QED
  BY InitInv, InvStep, <1>1, PTL DEF Spec

\* Every variable of the tracker keeps its type.
THEOREM TrackerTypeCorrect == Spec => []TypeOK
<1>1. IInv => TypeOK
  BY DEF IInv
<1>2. QED
  BY InitInv, InvStep, <1>1, PTL DEF Spec

-----------------------------------------------------------------------------

\* A call that will cache its keys has seen their rows, and if they are gone
\* the deletion has taken note of the call.
Sure ==
    /\ \A c \in Callers : call[c].at = "ask" => \E k \in Keys : call[c].keys = {k}
    /\ \A c \in Callers : call[c].at \in {"known", "marked", "committed", "skipped", "warm"} =>
          \A k \in call[c].keys : records[k] # Absent \/ k \in stale[TrackerOf[c]]

SInv == IInv /\ Sure /\ StaleOnlyByOverlap

LEMMA InitStale == Init => SInv
<1> SUFFICES ASSUME Init PROVE SInv
  OBVIOUS
<1>1. \A c \in Callers : call[c].at = "idle"
  BY DEF Init, Idle, About
<1>2. Sure /\ StaleOnlyByOverlap
  BY <1>1 DEF Init, Sure, StaleOnlyByOverlap
<1>3. QED
  BY <1>2, InitInv DEF SInv

LEMMA StaleStep == SInv /\ [Next]_trackerVars => Sure' /\ StaleOnlyByOverlap'
<1> SUFFICES ASSUME SInv, [Next]_trackerVars PROVE Sure' /\ StaleOnlyByOverlap'
  OBVIOUS
<1> DEFINE Rest == Sure /\ StaleOnlyByOverlap
<1>1. CASE UNCHANGED trackerVars
  BY <1>1 DEF trackerVars, SInv, Sure, StaleOnlyByOverlap, Of
<1>o. OneKey /\ TypeOK
  BY DEF SInv, IInv
<1> USE <1>o, TrackerAssumption, ChecksumAssumption
        DEF SInv, TypeOK, OneKey, Sure, StaleOnlyByOverlap, Storing, Of,
            About, Idle, Go, Done, Calls
<1>2. ASSUME NEW c \in Callers, Start(c) PROVE Rest'
  <2>1. CASE Initialize(c)
    <3>1. PICK K \in SUBSET {k \in Keys : records[k] # Absent} :
             call' = [call EXCEPT ![c] = About("warm", K)]
      BY <2>1, Zenon DEF Initialize
    <3>2. /\ call[c].at = "idle"
          /\ UNCHANGED <<records, processedCache, stale>>
      BY <2>1 DEF Initialize
    <3>3. Sure'
      BY <3>1, <3>2
    <3>4. StaleOnlyByOverlap'
      BY <3>1, <3>2
    <3>5. QED
      BY <3>3, <3>4
  <2>2. ASSUME NEW K \in SUBSET Keys, NEW at \in {"unmarked", "cleaned"}, Delete(c, K, at)
        PROVE Rest'
    <3>1. /\ call[c].at = "idle" /\ call' = [call EXCEPT ![c] = About(at, K)]
          /\ processedCache' = processedCache
      BY <2>2 DEF Delete
    <3>2. \A k \in Keys : k \notin K => records'[k] = records[k]
      BY <2>2 DEF Delete
    <3>3. \A t \in Trackers : \A k \in Keys : k \notin K /\ k \in stale[t] => k \in stale'[t]
      BY <2>2 DEF Delete, Holders
    <3>4. \A d \in Callers : \A k \in K :
             d # c /\ call[d].at # "idle" /\ k \in call[d].keys => k \in stale'[TrackerOf[d]]
      BY <2>2 DEF Delete, Holders, Busy
    <3>5. \A t \in Trackers : \A k \in K :
             t # TrackerOf[c] /\ k \in processedCache[t] => k \in stale'[t]
      BY <2>2 DEF Delete, Holders
    <3>6. Sure'
      BY <3>1, <3>2, <3>3, <3>4
    <3>7. StaleOnlyByOverlap'
      BY <3>1, <3>2, <3>3, <3>5
    <3>8. QED
      BY <3>6, <3>7
  <2>3. CASE Cleanup(c)
    <3>1. PICK K \in SUBSET Keys : Delete(c, K, "cleaned")
      BY <2>3, Zenon DEF Cleanup
    <3> HIDE DEF Rest
    <3>2. QED
      BY <3>1, <2>2, Zenon
  <2>4. ASSUME NEW k \in Keys, Unmark(c, k) PROVE Rest'
    <3>1. /\ {k} \in SUBSET Keys /\ "unmarked" \in {"unmarked", "cleaned"}
          /\ Delete(c, {k}, "unmarked")
      BY <2>4 DEF Unmark
    <3> HIDE DEF Rest
    <3>2. QED
      BY <3>1, <2>2, Zenon
  <2>5. ASSUME NEW k \in Keys, IsProcessed(c, k) PROVE Rest'
    <3>1. /\ \A d \in Callers \ {c} : call'[d] = call[d]
          /\ call'[c].at = "ask" /\ call'[c].keys = {k} /\ call[c].at = "idle"
          /\ UNCHANGED <<records, processedCache, stale>>
      BY <2>5 DEF IsProcessed
    <3>2. ASSUME NEW d \in Callers, call'[d].at = "ask" PROVE \E j \in Keys : call'[d].keys = {j}
      <4>1. CASE d = c
        <5>1. call'[d].keys = {k}
          BY <3>1, <4>1
        <5>2. QED
          BY <5>1, Zenon
      <4>2. CASE d # c
        <5>1. call'[d] = call[d]
          BY <3>1, <4>2
        <5>2. call[d].at = "ask"
          BY <3>2, <5>1
        <5>3. Sure
          OBVIOUS
        <5>4. \E j \in Keys : call[d].keys = {j}
          BY <5>2, <5>3, Zenon
        <5>5. QED
          BY <5>1, <5>4, Zenon
      <4>3. QED
        BY <4>1, <4>2
    <3>3. ASSUME NEW d \in Callers,
                 call'[d].at \in {"known", "marked", "committed", "skipped", "warm"}
          PROVE \A j \in call'[d].keys : records'[j] # Absent \/ j \in stale'[TrackerOf[d]]
      <4>1. d # c
        BY <3>1, <3>3
      <4>2. QED
        BY <3>1, <3>3, <4>1
    <3>4. StaleOnlyByOverlap'
      BY <3>1
    <3>5. QED
      BY <3>2, <3>3, <3>4
  <2>9. ASSUME NEW k \in Keys, NEW sum \in Checksums, NEW s \in Strategies \union {"SKIP"},
               NEW at \in {"mark", "lock"}, Calls(c, at, k, sum, s),
               UNCHANGED <<records, processedCache, stale>>
        PROVE Rest'
    <3>1. /\ \A d \in Callers \ {c} : call'[d] = call[d]
          /\ call'[c].at \in {"mark", "lock"}
      BY <2>9
    <3>2. Sure'
      BY <2>9, <3>1
    <3>3. StaleOnlyByOverlap'
      BY <2>9, <3>1
    <3>4. QED
      BY <3>2, <3>3
  <2>6. ASSUME NEW k \in Keys, NEW sum \in Checksums, MarkProcessed(c, k, sum)
        PROVE Rest'
    <3>1. Calls(c, "mark", k, sum, "SKIP") /\ UNCHANGED <<records, processedCache, stale>>
      BY <2>6 DEF MarkProcessed
    <3> HIDE DEF Rest, Calls
    <3>2. QED
      BY <3>1, <2>9, Zenon
  <2>7. ASSUME NEW k \in Keys, NEW sum \in Checksums, NEW s \in Strategies,
               WithIdempotency(c, k, sum, s)
        PROVE Rest'
    <3>1. Calls(c, "lock", k, sum, s) /\ UNCHANGED <<records, processedCache, stale>>
      BY <2>7 DEF WithIdempotency
    <3> HIDE DEF Rest, Calls
    <3>2. QED
      BY <3>1, <2>9, Zenon
  <2>8. QED
    BY <1>2, <2>1, <2>3, <2>4, <2>5, <2>6, <2>7 DEF Start
<1>3. ASSUME NEW c \in Callers, Continue(c) PROVE Rest'
  <2>1. CASE Warmed(c)
    <3>1. processedCache' = [processedCache EXCEPT ![TrackerOf[c]] = @ \union call[c].keys]
      BY <2>1 DEF Warmed, Remember
    <3>2. QED
      BY <2>1, <3>1 DEF Warmed
  <2>2. CASE Exists(c)
    <3>1. CASE Go(c, "known")
      BY <2>2, <3>1 DEF Exists
    <3>2. CASE Done(c)
      BY <2>2, <3>2 DEF Exists
    <3>3. QED
      BY <2>2, <3>1, <3>2 DEF Exists
  <2>3. CASE AddToCache(c)
    <3>1. processedCache' = [processedCache EXCEPT ![TrackerOf[c]] = @ \union call[c].keys]
      BY <2>3 DEF AddToCache, Remember
    <3>2. QED
      BY <2>3, <3>1 DEF AddToCache
  <2>4. CASE Upsert(c)
    <3>1. PICK k \in Keys : call[c].keys = {k} /\ call[c].sum \in Checksums
      BY <2>4 DEF Upsert
    <3>2. records' = [records EXCEPT ![k] = IF @ = Absent THEN call[c].sum ELSE @]
      BY <2>4, <3>1 DEF Upsert, Upserted
    <3>3. /\ \A j \in Keys : records[j] # Absent => records'[j] # Absent
          /\ records'[k] # Absent
      BY <3>1, <3>2
    <3>4. /\ call' = [call EXCEPT ![c].at = "marked"] /\ call[c].at = "mark"
          /\ UNCHANGED <<processedCache, stale>>
      BY <2>4 DEF Upsert
    <3>5. Sure'
      BY <3>1, <3>3, <3>4
    <3>6. StaleOnlyByOverlap'
      BY <3>3, <3>4
    <3>7. QED
      BY <3>5, <3>6
  <2>5. CASE AcquireLock(c)
    <3>1. /\ call' = [call EXCEPT ![c].at = "select"] /\ call[c].at = "lock"
          /\ UNCHANGED <<records, processedCache, stale>>
      BY <2>5 DEF AcquireLock
    <3>2. Sure'
      BY <3>1
    <3>3. StaleOnlyByOverlap'
      BY <3>1
    <3>4. QED
      BY <3>2, <3>3
  <2>6. CASE SelectUnderLock(c)
    <3>1. PICK k \in Keys : call[c].keys = {k}
      BY <2>6 DEF SelectUnderLock
    <3>2. Go(c, "work") \/ (Go(c, "skipped") /\ records[k] # Absent)
      BY <2>6, <3>1 DEF SelectUnderLock, ResolveConflict
    <3>3. QED
      BY <2>6, <3>1, <3>2 DEF SelectUnderLock
  <2>7. CASE Work(c)
    <3>1. /\ call' = [call EXCEPT ![c].at = "commit"] /\ call[c].at = "work"
          /\ UNCHANGED <<records, processedCache, stale>>
      BY <2>7 DEF Work
    <3>2. Sure'
      BY <3>1
    <3>3. StaleOnlyByOverlap'
      BY <3>1
    <3>4. QED
      BY <3>2, <3>3
  <2>8. CASE Commit(c)
    <3>1. PICK k \in Keys : call[c].keys = {k} /\ call[c].sum \in Checksums
      BY <2>8 DEF Commit
    <3>2. records' = [records EXCEPT ![k] = IF @ = Absent THEN call[c].sum ELSE @]
      BY <2>8, <3>1 DEF Commit, Upserted
    <3>3. /\ \A j \in Keys : records[j] # Absent => records'[j] # Absent
          /\ records'[k] # Absent
      BY <3>1, <3>2
    <3>4. /\ call' = [call EXCEPT ![c].at = "committed"] /\ call[c].at = "commit"
          /\ UNCHANGED <<processedCache, stale>>
      BY <2>8 DEF Commit
    <3>5. Sure'
      BY <3>1, <3>3, <3>4
    <3>6. StaleOnlyByOverlap'
      BY <3>3, <3>4
    <3>7. QED
      BY <3>5, <3>6
  <2>9. CASE Evict(c)
    BY <2>9 DEF Evict, Evicted
  <2>10. CASE Cleaned(c)
    BY <2>10 DEF Cleaned, Evicted
  <2>11. CASE Fail(c)
    BY <2>11 DEF Fail
  <2>12. QED
    BY <1>3, <2>1, <2>2, <2>3, <2>4, <2>5, <2>6, <2>7, <2>8, <2>9, <2>10, <2>11
    DEF Continue
<1>4. ASSUME NEW t \in Trackers, ForgetCache(t) PROVE Rest'
  BY <1>4 DEF ForgetCache, Evicted
<1>5. ASSUME NEW t \in Trackers, Crash(t) PROVE Rest'
  BY <1>5 DEF Crash
<1>6. QED
  BY <1>1, <1>2, <1>3, <1>4, <1>5 DEF Next

(***************************************************************************)
(* A process caches a key whose row is gone only when the deletion went on *)
(* behind its back: the caches of the tracker, without invalidation.       *)
(***************************************************************************)
THEOREM StaleOnlyByOverlapHolds == Spec => []StaleOnlyByOverlap
<1>1. SInv /\ [Next]_trackerVars => SInv'
  <2> SUFFICES ASSUME SInv, [Next]_trackerVars PROVE SInv'
    OBVIOUS
  <2>1. IInv'
    BY InvStep DEF SInv
  <2>2. Sure' /\ StaleOnlyByOverlap'
    BY StaleStep
  <2>3. QED
    BY <2>1, <2>2 DEF SInv
<1>2. SInv => StaleOnlyByOverlap
  BY DEF SInv
<1>3. QED
  BY InitStale, <1>1, <1>2, PTL DEF Spec

=============================================================================

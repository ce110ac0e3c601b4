---------------------- MODULE RealtimePublisherProofs ----------------------
(***************************************************************************)
(* What RealtimePublisher guarantees for any ledgers, any number of polls  *)
(* under way and any LIMIT: types, no ledger passed over, and no ledger    *)
(* sent twice while polls take turns.                                      *)
(***************************************************************************)
EXTENDS RealtimePublisher, FiniteSetTheorems, TLAPS

USE TopAssumption, LimitAssumption

\* The rows of an answer are rows of the query's condition, and no row that
\* meets the condition below one of them is left out.
LEMMA FirstRowsClosed ==
    ASSUME NEW S \in SUBSET Ledgers
    PROVE  /\ FirstRows(S) \subseteq S
           /\ \A t \in FirstRows(S), s \in S : s < t => s \in FirstRows(S)
<1>1. FirstRows(S) \subseteq S
  BY DEF FirstRows
<1>2. ASSUME NEW t \in FirstRows(S), NEW s \in S, s < t
      PROVE  s \in FirstRows(S)
  <2> DEFINE below(x) == {u \in S : u < x}
  <2>1. IsFiniteSet(S)
    <3>1. IsFiniteSet(1..Top)
      BY FS_Interval
    <3> QED BY <3>1, FS_Subset DEF Ledgers
  <2>2. IsFiniteSet(below(t))
    BY <2>1, FS_Subset
  <2>3. below(s) \subseteq below(t)
    <3>1. S \subseteq Int /\ t \in S
      BY <1>1, <1>2 DEF Ledgers
    <3>2. \A u \in S : u < s => u < t
      BY <3>1, <1>2
    <3> QED BY <3>2
  <2>4. IsFiniteSet(below(s)) /\ Cardinality(below(s)) <= Cardinality(below(t))
    BY <2>2, <2>3, FS_Subset
  <2>5. Cardinality(below(t)) \in Nat /\ Cardinality(below(s)) \in Nat
    BY <2>2, <2>4, FS_CardinalityType
  <2>6. Cardinality(below(t)) < Limit
    BY <1>2 DEF FirstRows
  <2> QED BY <2>4, <2>5, <2>6 DEF FirstRows
<1> QED BY <1>1, <1>2

LEMMA TypeStep == TypeOK /\ [Next]_vars => TypeOK'
<1> SUFFICES ASSUME TypeOK, [Next]_vars PROVE TypeOK'
  OBVIOUS
<1> USE DEF TypeOK
<1>1. CASE Start
  BY <1>1 DEF Start, feedVars
<1>2. CASE Seed
  BY <1>2 DEF Seed, Arm, Highest, EmptySeed
<1>3. CASE SeedFails
  BY <1>3 DEF SeedFails, Arm
<1>4. CASE Stop
  BY <1>4 DEF Stop, feedVars
<1>5. ASSUME NEW p \in Polls, PollStep(p) PROVE TypeOK'
  <2>1. CASE Tick(p)
    BY <2>1 DEF Tick, lifeVars, feedVars
  <2>2. CASE Read(p)
    <3>1. FirstRows(Above(poll[p].from)) \in SUBSET Ledgers
      BY DEF FirstRows, Above
    <3> QED BY <2>2, <3>1 DEF Read, lifeVars, feedVars
  <2>3. CASE Publish(p)
    <3>1. poll[p].rows \in SUBSET Ledgers
      OBVIOUS
    <3> QED BY <2>3, <3>1 DEF Publish, AdvancesTo, Highest, lifeVars, Idle
  <2>4. CASE Fail(p)
    BY <2>4 DEF Fail, lifeVars, feedVars, Idle
  <2> QED BY <1>5, <2>1, <2>2, <2>3, <2>4 DEF PollStep
<1>6. ASSUME NEW s \in Ledgers, Store(s) PROVE TypeOK'
  BY <1>6 DEF Store, lifeVars, feedVars
<1>7. CASE UNCHANGED vars
  BY <1>7 DEF vars
<1> QED BY <1>1, <1>2, <1>3, <1>4, <1>5, <1>6, <1>7 DEF Next

LEMMA TypeInit == Init => TypeOK
<1> SUFFICES ASSUME Init PROVE TypeOK
  OBVIOUS
<1>1. Idle \in [at : {"idle", "sent", "read"}, from : Ledgers \union {NoRow},
                rows : SUBSET Ledgers]
  BY DEF Idle
<1>2. poll \in [Polls -> [at : {"idle", "sent", "read"}, from : Ledgers \union {NoRow},
                          rows : SUBSET Ledgers]]
  BY <1>1 DEF Init
<1> QED BY <1>2 DEF Init, TypeOK

\* Types of the publisher and its polls, always.
THEOREM TypeCorrect == Spec => []TypeOK
BY TypeInit, TypeStep, PTL DEF Spec

-----------------------------------------------------------------------------

\* A step that leaves the feed, the table and the polls alone.
LEMMA FeedQuiet ==
    ASSUME FeedInv, boot' = boot, timer' = timer \/ ~timer',
           UNCHANGED <<stored, late, mark, seed, poll, published>>
    PROVE  FeedInv'
BY DEF FeedInv, NothingPassedOver, Owed, Covered

LEMMA FeedStore ==
    ASSUME TypeOK, FeedInv, NEW s0 \in Ledgers, Store(s0)
    PROVE  FeedInv'
<1> USE DEF TypeOK, NoRow, Ledgers
<1>1. /\ stored' = stored \union {s0} /\ s0 \notin stored
      /\ late' = IF \E t \in stored : t > s0 THEN late \union {s0} ELSE late
      /\ UNCHANGED <<boot, timer, mark, poll, published, seed>>
  BY DEF Store, lifeVars, feedVars
<1>2. \A s \in Owed' : s \in Owed \/ (s = s0 /\ \A t \in stored : t < s0)
  BY <1>1 DEF Owed
<1>3. NothingPassedOver'
  <2>1. mark \in Ledgers \union {NoRow} /\ published \subseteq stored
    BY DEF FeedInv
  <2>2. ASSUME NEW s \in Owed', s <= mark \/ (\E t \in published : s <= t)
        PROVE  s \in published
    <3>1. CASE s = s0 /\ \A t \in stored : t < s0
      <4>1. mark < s0 /\ \A t \in published : t < s0
        BY <3>1, <2>1 DEF FeedInv
      <4> QED BY <4>1, <3>1, <2>1, <2>2
    <3>2. CASE s \in Owed
      BY <3>2, <2>2 DEF FeedInv, NothingPassedOver
    <3> QED BY <1>2, <2>2, <3>1, <3>2
  <2> QED BY <2>2, <1>1 DEF NothingPassedOver
<1>4. \A m \in stored \union {NoRow} : Covered(m) => Covered(m)'
  BY <1>1, <1>2 DEF Covered
<1>5. ASSUME NEW p \in Polls, poll'[p].at = "read", NEW t \in poll'[p].rows
      PROVE  /\ t > poll'[p].from
             /\ \A s \in Owed' : poll'[p].from < s /\ s < t => s \in poll'[p].rows
  <2>1. t \in stored /\ t \in Ledgers
    BY <1>1, <1>5 DEF FeedInv
  <2> QED BY <1>1, <1>2, <1>5, <2>1 DEF FeedInv
<1>6. \A p \in Polls : poll'[p].at # "idle" =>
         /\ poll'[p].from \in stored' \union {NoRow} /\ poll'[p].from >= seed'
         /\ Covered(poll[p].from)'
         /\ poll'[p].rows \subseteq stored'
  BY <1>1, <1>4 DEF FeedInv
<1> QED BY <1>1, <1>3, <1>5, <1>6 DEF FeedInv

LEMMA FeedStep == TypeOK /\ FeedInv /\ [Next]_vars => FeedInv'
<1> SUFFICES ASSUME TypeOK, FeedInv, [Next]_vars PROVE FeedInv'
  OBVIOUS
<1> USE DEF TypeOK
<1>1. CASE Start
  <2>1. boot = "off" /\ boot' # "armed"
    BY <1>1 DEF Start
  <2> QED BY <1>1, <2>1 DEF Start, feedVars, FeedInv, NothingPassedOver, Owed, Covered
<1>2. CASE Seed
  <2>1. /\ boot = "seeding" /\ boot' = "armed" /\ seed' = mark'
        /\ UNCHANGED <<stored, late, poll, published>>
    BY <1>2 DEF Seed, Arm
  <2>2. mark' \in stored \union {NoRow}
    BY <1>2, <2>1 DEF Seed, Highest, EmptySeed, FeedInv
  <2>3. published = {} /\ \A p \in Polls : poll[p].at = "idle"
    BY <2>1 DEF FeedInv, Idle
  <2>4. mark' >= seed'
    BY <2>1, <2>2 DEF Ledgers, NoRow
  <2>5. NothingPassedOver'
    BY <2>1, <2>2, <2>3 DEF NothingPassedOver, Owed, Ledgers, NoRow
  <2> QED BY <2>1, <2>2, <2>3, <2>4, <2>5 DEF FeedInv
<1>3. CASE SeedFails
  BY <1>3 DEF SeedFails, Arm, FeedInv, NothingPassedOver, Owed, Covered
<1>4. CASE Stop
  BY <1>4, FeedQuiet DEF Stop, feedVars
<1>5. ASSUME NEW p \in Polls, PollStep(p) PROVE FeedInv'
  <2>1. CASE Tick(p)
    <3>1. /\ poll' = [poll EXCEPT ![p] = [at |-> "sent", from |-> mark, rows |-> {}]]
          /\ UNCHANGED <<stored, boot, mark, published, seed, late>> /\ timer
      BY <2>1 DEF Tick, lifeVars, feedVars
    <3>2. Covered(mark)
      BY DEF FeedInv, NothingPassedOver, Covered
    <3> QED BY <3>1, <3>2 DEF FeedInv, NothingPassedOver, Owed, Covered
  <2>2. CASE Read(p)
    <3> DEFINE from == poll[p].from
               rows == FirstRows(Above(from))
    <3>1. /\ poll' = [poll EXCEPT ![p].at = "read", ![p].rows = rows]
          /\ poll[p].at = "sent"
          /\ UNCHANGED <<stored, boot, timer, mark, published, seed, late>>
      BY <2>2 DEF Read, lifeVars, feedVars
    <3>2. Above(from) \in SUBSET Ledgers
      BY DEF Above
    <3>3. rows \subseteq Above(from)
      BY <3>2, FirstRowsClosed
    <3>4. \A t \in rows, s \in Above(from) : s < t => s \in rows
      BY <3>2, FirstRowsClosed
    <3>5. rows \subseteq stored /\ \A t \in rows : t > from
      BY <3>3 DEF Above
    <3>6. \A t \in rows : \A s \in Owed : from < s /\ s < t => s \in rows
      BY <3>4 DEF Owed, Above, Ledgers, NoRow
    <3>7. poll'[p] = [at |-> "read", from |-> from, rows |-> rows]
          /\ \A q \in Polls : q # p => poll'[q] = poll[q]
      BY <3>1
    <3>8. Owed' = Owed /\ NothingPassedOver' /\ boot = "armed"
      BY <3>1 DEF FeedInv, NothingPassedOver, Owed, Idle
    <3>9. \A q \in Polls : poll'[q].at # "idle" => poll[q].at # "idle" /\ poll'[q].from = poll[q].from
      BY <3>1, <3>7
    <3>10. \A q \in Polls : poll'[q].at # "idle" =>
             /\ poll'[q].from \in stored' \union {NoRow} /\ poll'[q].from >= seed'
             /\ poll'[q].rows \subseteq stored'
      BY <3>1, <3>5, <3>7, <3>9 DEF FeedInv
    <3>11. \A q \in Polls : poll'[q].at # "idle" => Covered(poll[q].from)'
      BY <3>1, <3>8, <3>9 DEF FeedInv, Covered
    <3>12. \A q \in Polls : poll'[q].at = "read" => \A t \in poll'[q].rows :
             /\ t > poll'[q].from
             /\ \A s \in Owed' : poll'[q].from < s /\ s < t => s \in poll'[q].rows
      <4> TAKE q \in Polls
      <4>1. CASE q = p
        BY <4>1, <3>5, <3>6, <3>7, <3>8
      <4>2. CASE q # p
        BY <4>2, <3>7, <3>8 DEF FeedInv
      <4> QED BY <4>1, <4>2
    <3> QED BY <3>1, <3>8, <3>10, <3>11, <3>12 DEF FeedInv
  <2>3. CASE Publish(p)
    <3> DEFINE rows == poll[p].rows
    <3>1. /\ poll[p].at = "read" /\ poll' = [poll EXCEPT ![p] = Idle]
          /\ published' = published \union rows
          /\ \/ rows = {} /\ mark' = mark
             \/ mark' \in rows
          /\ UNCHANGED <<stored, boot, timer, seed, late>>
      BY <2>3 DEF Publish, AdvancesTo, Highest, lifeVars
    <3>2. /\ rows \subseteq stored /\ poll[p].from >= seed /\ Covered(poll[p].from)
          /\ \A t \in rows :
               /\ t > poll[p].from
               /\ \A s \in Owed : poll[p].from < s /\ s < t => s \in rows
      BY <3>1 DEF FeedInv
    <3>3. Owed' = Owed /\ Owed \subseteq Ledgers
      BY <3>1 DEF Owed
    <3>4. \A t \in rows : \A s \in Owed : s <= t => s \in published'
      <4> TAKE t \in rows
      <4> TAKE s \in Owed
      <4>1. s \in Nat /\ t \in Nat /\ poll[p].from \in Nat
        BY <3>3 DEF Ledgers, NoRow
      <4>2. CASE s <= poll[p].from
        BY <4>2, <3>1, <3>2 DEF Covered
      <4>3. CASE poll[p].from < s /\ s < t
        BY <4>3, <3>1, <3>2
      <4>4. CASE s = t
        BY <4>4, <3>1
      <4> QED BY <4>1, <4>2, <4>3, <4>4
    <3>5. NothingPassedOver'
      BY <3>1, <3>3, <3>4 DEF FeedInv, NothingPassedOver
    <3>6. \A m : Covered(m) => Covered(m)'
      BY <3>1, <3>3 DEF Covered
    <3>7. mark' \in stored \union {NoRow} /\ mark' >= seed
      BY <3>1, <3>2 DEF FeedInv, Ledgers, NoRow
    <3>8. boot = "armed"
      BY <3>1 DEF FeedInv, Idle
    <3>9. \A q \in Polls : poll'[q].at # "idle" => q # p /\ poll'[q] = poll[q]
      BY <3>1 DEF Idle
    <3>10. published' \subseteq stored
      BY <3>1, <3>2 DEF FeedInv
    <3>11. \A q \in Polls : poll'[q].at # "idle" => Covered(poll[q].from)'
      BY <3>6, <3>9 DEF FeedInv
    <3>12. \A q \in Polls : poll'[q].at # "idle" =>
             /\ poll'[q].from \in stored' \union {NoRow} /\ poll'[q].from >= seed'
             /\ poll'[q].rows \subseteq stored'
      BY <3>1, <3>9 DEF FeedInv
    <3>13. \A q \in Polls : poll'[q].at = "read" => \A t \in poll'[q].rows :
             /\ t > poll'[q].from
             /\ \A s \in Owed' : poll'[q].from < s /\ s < t => s \in poll'[q].rows
      BY <3>3, <3>9 DEF FeedInv
    <3> QED BY <3>1, <3>5, <3>7, <3>8, <3>10, <3>11, <3>12, <3>13 DEF FeedInv
  <2>4. CASE Fail(p)
    BY <2>4 DEF Fail, lifeVars, feedVars, Idle, FeedInv, NothingPassedOver, Owed, Covered
  <2> QED BY <1>5, <2>1, <2>2, <2>3, <2>4 DEF PollStep
<1>6. ASSUME NEW s \in Ledgers, Store(s) PROVE FeedInv'
  BY <1>6, FeedStore
<1>7. CASE UNCHANGED vars
  BY <1>7, FeedQuiet DEF vars
<1> QED BY <1>1, <1>2, <1>3, <1>4, <1>5, <1>6, <1>7 DEF Next

LEMMA FeedInit == Init => FeedInv
BY DEF Init, FeedInv, NothingPassedOver, Owed, Idle, NoRow

\* No ledger stored in order is skipped or sent before a lower one, however
\* polls overlap, are answered or fail.
THEOREM NoLedgerPassedOver == Spec => []NothingPassedOver
<1>1. FeedInv => NothingPassedOver
  BY DEF FeedInv
<1> QED BY <1>1, FeedInit, FeedStep, TypeCorrect, PTL DEF Spec

-----------------------------------------------------------------------------

LEMMA TurnStep == TypeOK /\ FeedInv /\ TurnInv /\ [Next]_vars => TurnInv'
<1> SUFFICES ASSUME TypeOK, FeedInv, TurnInv, [Next]_vars PROVE TurnInv'
  OBVIOUS
<1> USE DEF TypeOK
<1>1. CASE Start
  BY <1>1 DEF Start, feedVars, TurnInv, TwiceOnlyByOverlap
<1>2. CASE Seed
  <2>1. boot # "armed" /\ UNCHANGED <<poll, published, again, overlapped>>
    BY <1>2 DEF Seed, Arm
  <2>2. published = {} /\ \A p \in Polls : poll[p].at = "idle"
    BY <2>1 DEF FeedInv, Idle
  <2> QED BY <2>1, <2>2 DEF TurnInv, TwiceOnlyByOverlap
<1>3. CASE SeedFails
  BY <1>3 DEF SeedFails, Arm, TurnInv, TwiceOnlyByOverlap
<1>4. CASE Stop
  BY <1>4 DEF Stop, feedVars, TurnInv, TwiceOnlyByOverlap
<1>5. ASSUME NEW p \in Polls, PollStep(p) PROVE TurnInv'
  <2>1. CASE Tick(p)
    <3>1. /\ poll' = [poll EXCEPT ![p] = [at |-> "sent", from |-> mark, rows |-> {}]]
          /\ overlapped' = (overlapped \/ \E q \in Polls : poll[q].at # "idle")
          /\ UNCHANGED <<mark, published, again>>
      BY <2>1 DEF Tick, feedVars
    <3>2. ~overlapped' => \A q \in Polls : poll[q].at = "idle"
      BY <3>1
    <3> QED BY <3>1, <3>2 DEF TurnInv, TwiceOnlyByOverlap
  <2>2. CASE Read(p)
    <3> DEFINE rows == FirstRows(Above(poll[p].from))
    <3>1. /\ poll' = [poll EXCEPT ![p].at = "read", ![p].rows = rows]
          /\ poll[p].at = "sent"
          /\ UNCHANGED <<mark, published, again, overlapped>>
      BY <2>2 DEF Read, feedVars
    <3>2. \A t \in rows : t > poll[p].from
      BY FirstRowsClosed DEF Above
    <3> HIDE DEF rows
    <3> QED BY <3>1, <3>2 DEF TurnInv, TwiceOnlyByOverlap
  <2>3. CASE Publish(p)
    <3> DEFINE rows == poll[p].rows
    <3>1. /\ poll[p].at = "read" /\ poll' = [poll EXCEPT ![p] = Idle]
          /\ published' = published \union rows
          /\ again' = again \union (published \intersect rows)
          /\ \/ rows = {} /\ mark' = mark
             \/ mark' \in rows /\ \A t \in rows : t <= mark'
          /\ overlapped' = overlapped
      BY <2>3 DEF Publish, AdvancesTo, Highest
    <3>2. CASE overlapped
      BY <3>1, <3>2 DEF TurnInv, TwiceOnlyByOverlap
    <3>3. CASE ~overlapped
      <4>1. \A t \in rows : t > mark
        BY <3>1, <3>3 DEF TurnInv
      <4>2. \A s \in published : s <= mark
        BY <3>3 DEF TurnInv
      <4>3. mark \in Int /\ rows \subseteq Int /\ published \subseteq Int
        BY DEF Ledgers, NoRow
      <4>4. published \intersect rows = {}
        BY <4>1, <4>2, <4>3
      <4>5. again' = {}
        BY <3>1, <3>3, <4>4 DEF TurnInv, TwiceOnlyByOverlap
      <4>6. \A s \in published' : s <= mark'
        BY <3>1, <4>1, <4>2, <4>3
      <4>7. \A q \in Polls : poll'[q].at = "idle"
        BY <3>1, <3>3 DEF TurnInv, Idle
      <4> QED BY <3>1, <4>5, <4>6, <4>7 DEF TurnInv, TwiceOnlyByOverlap
    <3> QED BY <3>2, <3>3
  <2>4. CASE Fail(p)
    BY <2>4 DEF Fail, feedVars, Idle, TurnInv, TwiceOnlyByOverlap
  <2> QED BY <1>5, <2>1, <2>2, <2>3, <2>4 DEF PollStep
<1>6. ASSUME NEW s \in Ledgers, Store(s) PROVE TurnInv'
  BY <1>6 DEF Store, feedVars, TurnInv, TwiceOnlyByOverlap
<1>7. CASE UNCHANGED vars
  BY <1>7 DEF vars, TurnInv, TwiceOnlyByOverlap
<1> QED BY <1>1, <1>2, <1>3, <1>4, <1>5, <1>6, <1>7 DEF Next

LEMMA TurnInit == Init => TurnInv
BY DEF Init, TurnInv, TwiceOnlyByOverlap, Idle

\* While polls take turns no ledger is sent twice, whatever fails.
THEOREM SentOnceInTurn == Spec => []TwiceOnlyByOverlap
<1>1. TurnInv => TwiceOnlyByOverlap
  BY DEF TurnInv
<1> QED BY <1>1, TurnInit, TurnStep, FeedInit, FeedStep, TypeCorrect, PTL DEF Spec
=============================================================================

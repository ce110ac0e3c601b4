-------------------------- MODULE RetryQueueProofs --------------------------
(***************************************************************************)
(* Theorems about RetryQueue, for any set of ledgers, any number of        *)
(* overlapping passes and any number of retries.                           *)
(***************************************************************************)
EXTENDS RetryQueue, TLAPS

USE RetriesAssumption, LiveAssumption

-----------------------------------------------------------------------------
(* Lemmas about the operators of the module *)

\* Dropping entries keeps the attempts of the others.
LEMMA WithoutEntries ==
    ASSUME NEW S, queue \in Attempts
    PROVE  /\ Without(S) \in Attempts
           /\ \A s \in Ledgers \ S : Without(S)[s] = queue[s]
BY DEF Without, Attempts

\* A pass that is rejected keeps the types, drops the call, and takes the
\* queue along only if the process dies.
LEMMA RejectTypes ==
    ASSUME TypeOK, NEW p \in Passes, Reject(p)
    PROVE  /\ alive' \in BOOLEAN /\ queue' \in Attempts /\ due' \in SUBSET Ledgers
           /\ isProcessing' \in BOOLEAN /\ scheduled' \in BOOLEAN
           /\ pass' \in [Passes -> [at : {"idle", "next", "retry", "remove"},
                                    todo : SUBSET Ledgers, cur : SUBSET Ledgers,
                                    initial : BOOLEAN]]
           /\ call' = None
           /\ alive' => alive /\ queue' = queue
<1> USE DEF TypeOK, Attempts
<1>1. CASE pass[p].initial
  <2>1. /\ pass' = [pass EXCEPT ![p] = NoPass] /\ call' = None
        /\ alive' = alive /\ queue' = queue /\ due' = due
        /\ isProcessing' = isProcessing /\ scheduled' = scheduled
    BY <1>1 DEF Reject
  <2>2. NoPass \in [at : {"idle", "next", "retry", "remove"}, todo : SUBSET Ledgers,
                    cur : SUBSET Ledgers, initial : BOOLEAN]
    BY DEF NoPass
  <2> QED
    BY <2>1, <2>2
<1>2. CASE ~pass[p].initial
  <2>1. /\ pass' = [q \in Passes |-> NoPass] /\ call' = None
        /\ alive' = FALSE /\ queue' = Empty /\ due' = {}
        /\ isProcessing' = FALSE /\ scheduled' = FALSE
    BY <1>2 DEF Reject, Stopped
  <2>2. NoPass \in [at : {"idle", "next", "retry", "remove"}, todo : SUBSET Ledgers,
                    cur : SUBSET Ledgers, initial : BOOLEAN]
    BY DEF NoPass
  <2> QED
    BY <2>1, <2>2 DEF Empty
<1> QED
  BY <1>1, <1>2

-----------------------------------------------------------------------------
(* Type correctness *)

\* The inductive step of TypeOK.
LEMMA TypeStep == TypeOK /\ [Next]_vars => TypeOK'
<1> SUFFICES ASSUME TypeOK, [Next]_vars PROVE TypeOK'
  OBVIOUS
<1> USE DEF TypeOK, Attempts, diskVars, jobVars, history
<1>n. None \in [at : {"none", "push", "log", "remove"}, by : Callers, seq : SUBSET Ledgers]
  BY DEF None, Callers
<1>1. ASSUME NEW s \in Ledgers, Push(s) PROVE TypeOK'
  BY <1>1 DEF Push, Counted, Calling, Callers
<1>2. ASSUME NEW s \in Ledgers, Remove(s) PROVE TypeOK'
  BY <1>2, WithoutEntries DEF Remove, Drop, Settle, Calling, Callers
<1>3. ASSUME NEW s \in Ledgers, BackoffElapses(s) PROVE TypeOK'
  BY <1>3 DEF BackoffElapses
<1>4. CASE Clear
  BY <1>4, WithoutEntries DEF Clear, Drop, Settle, Calling, Callers
<1>5. CASE GiveUp
  BY <1>5, WithoutEntries DEF GiveUp, Settle, Calling
<1>6. CASE PersistState
  <2>1. pass' \in [Passes -> [at : {"idle", "next", "retry", "remove"},
                              todo : SUBSET Ledgers, cur : SUBSET Ledgers,
                              initial : BOOLEAN]]
    BY <1>6 DEF PersistState, Return
  <2>2. /\ owed' \in SUBSET Ledgers /\ unread' \in SUBSET Ledgers
        /\ state' = queue /\ call' = None
    BY <1>6 DEF PersistState, Return
  <2> QED
    BY <1>6, <1>n, <2>1, <2>2 DEF PersistState
<1>7. CASE WriteFails
  <2>1. CASE call.by = "live" /\ call' = None /\ UNCHANGED <<alive, queue, due, jobVars>>
    BY <1>7, <1>n, <2>1 DEF WriteFails
  <2>2. ASSUME NEW p \in Passes, Reject(p) PROVE TypeOK'
    BY <1>7, <1>n, <2>2, RejectTypes DEF WriteFails
  <2> QED
    BY <1>7, <2>1, <2>2 DEF WriteFails
<1>8. ASSUME NEW p \in Passes, Start(p) PROVE TypeOK'
  BY <1>8 DEF Start, Begin, Ready
<1>9. ASSUME NEW p \in Passes, Tick(p) PROVE TypeOK'
  BY <1>9 DEF Tick, Begin, Ready
<1>10. ASSUME NEW p \in Passes, PassStep(p) PROVE TypeOK'
  <2>1. ASSUME NEW s \in Ledgers, Retry(p, s) PROVE TypeOK'
    <3>1. pass' = [pass EXCEPT ![p] = [pass[p] EXCEPT !.at = "retry", !.cur = {s},
                                                      !.todo = pass[p].todo \ {s}]]
      BY <2>1 DEF Retry
    <3> QED
      BY <2>1, <3>1 DEF Retry
  <2>2. CASE EndPass(p)
    BY <2>2 DEF EndPass, NoPass
  <2>3. CASE RetrySucceeds(p)
    <3>1. CASE Drop(pass[p].cur, p) /\ pass' = [pass EXCEPT ![p].at = "remove"]
      <4>1. /\ queue' \in Attempts /\ owed' \in SUBSET Ledgers /\ unread' \in SUBSET Ledgers
            /\ call' = [at |-> "remove", by |-> p, seq |-> pass[p].cur]
        BY <3>1, WithoutEntries DEF Drop, Settle, Calling
      <4>2. call' \in [at : {"none", "push", "log", "remove"}, by : Callers,
                       seq : SUBSET Ledgers]
        BY <4>1 DEF Callers
      <4> QED
        BY <2>3, <3>1, <4>1, <4>2 DEF RetrySucceeds
    <3>2. CASE pass' = [pass EXCEPT ![p].at = "next"] /\ UNCHANGED <<queue, history, call>>
      BY <2>3, <3>2 DEF RetrySucceeds
    <3> QED
      BY <2>3, <3>1, <3>2 DEF RetrySucceeds
  <2>4. CASE RetryFails(p)
    BY <2>4 DEF RetryFails
  <2>5. CASE RetryThrows(p)
    BY <2>5, <1>n, RejectTypes DEF RetryThrows
  <2> QED
    BY <1>10, <2>1, <2>2, <2>3, <2>4, <2>5 DEF PassStep
<1>11. CASE Stop
  BY <1>11 DEF Stop
<1>12. CASE Crash
  BY <1>12, <1>n DEF Crash, Stopped, NoPass, Empty
<1>13. CASE Restart
  <2>1. Empty \in Attempts
    BY DEF Empty
  <2> QED
    BY <1>13, <2>1 DEF Restart, Loaded, LoadFails
<1>14. CASE UNCHANGED vars
  BY <1>14 DEF vars
<1> QED
  BY <1>1, <1>2, <1>3, <1>4, <1>5, <1>6, <1>7, <1>8, <1>9, <1>10, <1>11, <1>12,
     <1>13, <1>14 DEF Next

\* The initial states are well typed.
LEMMA TypeInit == Init => TypeOK
<1> SUFFICES ASSUME Init PROVE TypeOK
  OBVIOUS
<1>1. /\ None \in [at : {"none", "push", "log", "remove"}, by : Callers, seq : SUBSET Ledgers]
      /\ NoPass \in [at : {"idle", "next", "retry", "remove"}, todo : SUBSET Ledgers,
                     cur : SUBSET Ledgers, initial : BOOLEAN]
  BY DEF None, NoPass, Callers
<1>2. Empty \in Attempts
  BY DEF Empty, Attempts
<1> QED
  BY <1>1, <1>2 DEF Init, TypeOK

\* The files, the queue and the recovery job keep their types.
THEOREM TypeCorrect == Spec => []TypeOK
<1> QED
  BY TypeInit, TypeStep, PTL DEF Spec

-----------------------------------------------------------------------------
(* No accepted failure is forgotten *)

\* Memory and file start out empty.
LEMMA QueueInit == Init => QueueInv
BY DEF Init, QueueInv, NothingForgotten, None, Empty

\* The inductive step of QueueInv.  The steps of the recovery job that do not
\* call the queue leave its variables alone.
LEMMA QueueStep == TypeOK /\ QueueInv /\ [Next]_vars => QueueInv'
<1> SUFFICES ASSUME TypeOK, QueueInv, [Next]_vars PROVE QueueInv'
  OBVIOUS
<1> USE DEF QueueInv, NothingForgotten
<1> DEFINE queueVars == <<state, alive, queue, call, owed, unread>>
<1>t. /\ state \in [Ledgers -> Nat] /\ queue \in [Ledgers -> Nat]
      /\ owed \in SUBSET Ledgers /\ unread \in SUBSET Ledgers
      /\ call.seq \in SUBSET Ledgers
  BY DEF TypeOK, Attempts
<1>u. ASSUME UNCHANGED queueVars PROVE QueueInv'
  BY <1>u
<1>d. ASSUME NEW S \in SUBSET Ledgers, NEW by, Free, Drop(S, by),
             UNCHANGED <<state, alive>>
      PROVE  QueueInv'
  BY <1>d, <1>t DEF Free, Drop, Settle, Calling, Without, None
<1>r. ASSUME NEW p \in Passes, Reject(p), UNCHANGED <<state, owed, unread>>
      PROVE  QueueInv'
  BY <1>r, <1>t, RejectTypes DEF None
<1>1. ASSUME NEW s \in Ledgers, Push(s) PROVE QueueInv'
  <2>1. \A q \in Ledgers : queue'[q] >= queue[q]
    BY <1>1, <1>t DEF Push, Counted
  <2>2. queue'[s] > 0
    BY <1>1, <1>t DEF Push, Counted
  <2>3. alive /\ alive' /\ UNCHANGED <<state, owed, unread>>
    BY <1>1 DEF Push, Free, diskVars, history
  <2>4. call'.at \in {"log", "push"} /\ call'.by = "live" /\ call'.seq = {s}
    BY <1>1 DEF Push, Calling
  <2>5. queue' \in [Ledgers -> Nat]
    BY <1>1, <1>t DEF Push, Counted
  <2> QED
    BY <1>t, <2>1, <2>2, <2>3, <2>4, <2>5
<1>2. ASSUME NEW s \in Ledgers, Remove(s) PROVE QueueInv'
  BY <1>2, <1>d DEF Remove, diskVars, history
<1>3. ASSUME NEW s \in Ledgers, BackoffElapses(s) PROVE QueueInv'
  BY <1>3, <1>u DEF BackoffElapses, diskVars, history
<1>4. CASE Clear
  BY <1>4, <1>d DEF Clear, diskVars, history
<1>5. CASE GiveUp
  <2>1. /\ \A s \in owed' \ unread' : s \in owed \ unread /\ Without(call.seq)[s] = queue[s]
        /\ queue' = Without(call.seq)
    BY <1>5, <1>t, WithoutEntries DEF GiveUp, Settle, Attempts
  <2>2. UNCHANGED <<state, alive>> /\ call'.at = "remove" /\ alive
    BY <1>5 DEF GiveUp, Calling, None
  <2> QED
    BY <1>t, <2>1, <2>2
<1>6. CASE PersistState
  <2>1. state' = queue /\ call' = None /\ UNCHANGED <<queue, alive>> /\ alive
    BY <1>6 DEF PersistState, Return, None
  <2>2. owed' \subseteq Ledgers /\ \A s \in owed' \ unread' : queue[s] > 0
    <3>1. unread' = {s \in unread : queue[s] = 0}
      BY <1>6 DEF PersistState
    <3>2. ASSUME NEW s \in owed' \ unread', queue[s] = 0 PROVE FALSE
      <4>1. s \notin unread /\ s \in Ledgers
        BY <1>6, <1>t, <3>1, <3>2 DEF PersistState
      <4>2. s \in owed \/ (call.at = "push" /\ s \in call.seq)
        BY <1>6, <3>2 DEF PersistState
      <4> QED
        BY <1>t, <2>1, <3>2, <4>1, <4>2
    <3> QED
      BY <1>6, <1>t, <3>2 DEF PersistState
  <2> QED
    BY <1>t, <2>1, <2>2 DEF None
<1>7. CASE WriteFails
  <2>1. CASE call' = None /\ UNCHANGED <<alive, queue>>
    BY <1>7, <1>t, <2>1 DEF WriteFails, None, diskVars, history
  <2>2. ASSUME NEW p \in Passes, Reject(p) PROVE QueueInv'
    BY <1>7, <1>r, <2>2 DEF WriteFails, diskVars, history
  <2> QED
    BY <1>7, <2>1, <2>2 DEF WriteFails
<1>8. ASSUME NEW p \in Passes, Start(p) PROVE QueueInv'
  BY <1>8, <1>u DEF Start, diskVars, history
<1>9. ASSUME NEW p \in Passes, Tick(p) PROVE QueueInv'
  BY <1>9, <1>u DEF Tick, diskVars, history
<1>10. ASSUME NEW p \in Passes, PassStep(p) PROVE QueueInv'
  <2>1. ASSUME NEW s \in Ledgers, Retry(p, s) PROVE QueueInv'
    BY <2>1, <1>u DEF Retry, diskVars, history
  <2>2. CASE EndPass(p)
    BY <2>2, <1>u DEF EndPass, diskVars, history
  <2>3. CASE RetrySucceeds(p)
    <3>1. pass[p].cur \in SUBSET Ledgers
      BY DEF TypeOK
    <3>2. CASE Drop(pass[p].cur, p)
      BY <2>3, <3>1, <3>2, <1>d DEF RetrySucceeds, diskVars, history
    <3>3. CASE UNCHANGED <<queue, history, call>>
      BY <2>3, <3>3, <1>u DEF RetrySucceeds, diskVars, history
    <3> QED
      BY <2>3, <3>2, <3>3 DEF RetrySucceeds
  <2>4. CASE RetryFails(p)
    BY <2>4, <1>u DEF RetryFails, diskVars, history
  <2>5. CASE RetryThrows(p)
    BY <2>5, <1>r DEF RetryThrows, diskVars, history
  <2> QED
    BY <1>10, <2>1, <2>2, <2>3, <2>4, <2>5 DEF PassStep
<1>11. CASE Stop
  BY <1>11, <1>u DEF Stop, diskVars, history
<1>12. CASE Crash
  BY <1>12, <1>t DEF Crash, Stopped, diskVars, history, None
<1>13. CASE Restart
  BY <1>13, <1>t DEF Restart, Loaded, LoadFails, diskVars, None
<1>14. CASE UNCHANGED vars
  BY <1>14, <1>u DEF vars
<1> QED
  BY <1>1, <1>2, <1>3, <1>4, <1>5, <1>6, <1>7, <1>8, <1>9, <1>10, <1>11, <1>12,
     <1>13, <1>14 DEF Next

\* Whatever crashes and whatever write fails, an accepted failure stays in
\* the state file, and in the memory of the process that reads it; only the
\* failures in a file that could not be read are excepted.
THEOREM NoFailureForgotten == Spec => []NothingForgotten
<1>1. QueueInv => NothingForgotten
  BY DEF QueueInv
<1> QED
  BY <1>1, TypeInit, TypeStep, QueueInit, QueueStep, PTL DEF Spec

\* Only persistState writes the state file, and memory is never behind it.
LEMMA AttemptsStep ==
    TypeOK /\ QueueInv /\ [Next]_vars =>
        \A s \in (owed \intersect owed') \ unread : state'[s] >= state[s]
<1> SUFFICES ASSUME TypeOK, QueueInv, [Next]_vars, NEW s \in (owed \intersect owed') \ unread
             PROVE state'[s] >= state[s]
  OBVIOUS
<1>t. state \in [Ledgers -> Nat] /\ queue \in [Ledgers -> Nat] /\ s \in Ledgers
  BY DEF TypeOK, Attempts
<1>1. CASE PersistState
  <2>1. alive /\ state' = queue
    BY <1>1 DEF PersistState, QueueInv, None
  <2> QED
    BY <1>t, <2>1 DEF QueueInv
<1>2. CASE UNCHANGED state
  BY <1>t, <1>2
<1>3. PersistState \/ UNCHANGED state
  BY DEF Next, vars, diskVars, history, Push, Remove, BackoffElapses, Clear, GiveUp, WriteFails,
         Start, Tick, PassStep, Retry, EndPass, RetrySucceeds, RetryFails, RetryThrows,
         Stop, Crash, Restart
<1> QED
  BY <1>1, <1>2, <1>3

\* No crash, failed write or concurrent pass takes counted attempts back; only
\* a start that could not read the state file loses count.
THEOREM AttemptsNeverTakenBack == Spec => AttemptsSurvive
<1> QED
  BY TypeInit, TypeStep, QueueInit, QueueStep, AttemptsStep, PTL DEF Spec, AttemptsSurvive
=============================================================================

------------------------ MODULE TaskConductor_proofs ------------------------
(***************************************************************************)
(* Machine-checked proofs about TaskConductor, for every set of jobs and   *)
(* sessions, every priority, queue size, number of arms and of lives.      *)
(***************************************************************************)
EXTENDS ConductorService, TLAPS, SequenceTheorems, FiniteSetTheorems

-----------------------------------------------------------------------------
(* The session table                                                       *)

\* Removing a key from the session table leaves a sequence of sessions.
LEMMA WithoutType ==
  ASSUME NEW o \in Seq(Sessions), NEW s \in Sessions
  PROVE  Without(o, s) \in Seq(Sessions)
<1>1. CASE s \notin Keys(o)
  BY <1>1 DEF Without
<1>2. CASE s \in Keys(o)
  <2> DEFINE i == CHOOSE n \in DOMAIN o : o[n] = s
  <2>1. i \in 1..Len(o)
    BY <1>2 DEF Keys
  <2>2. Without(o, s) = SubSeq(o, 1, i - 1) \o SubSeq(o, i + 1, Len(o))
    BY <1>2 DEF Without
  <2> HIDE DEF i
  <2>3. \A n \in 1..Len(o) : o[n] \in Sessions
    OBVIOUS
  <2>4. SubSeq(o, 1, i - 1) \in Seq(Sessions)
    BY <2>1, <2>3, SubSeqProperties
  <2>5. SubSeq(o, i + 1, Len(o)) \in Seq(Sessions)
    BY <2>1, <2>3, SubSeqProperties
  <2>6. QED
    BY <2>2, <2>4, <2>5, ConcatProperties
<1>3. QED
  BY <1>1, <1>2

\* _session keeps the table well formed, with or without an eviction.
LEMMA TouchType ==
  ASSUME TypeOK, NEW s \in Sessions
  PROVE  /\ TouchedOrder(s) \in Seq(Sessions)
         /\ TouchedTurn(s) \in [Sessions -> Nat]
<1> USE BoundAssumption
<1>1. CASE Evicts(s)
  <2>1. order \in Seq(Sessions) /\ order # <<>>
    BY <1>1 DEF TypeOK, Evicts
  <2>2. Tail(order) \in Seq(Sessions)
    BY <2>1
  <2>3. TouchedOrder(s) = Append(Tail(order), s)
    BY <1>1 DEF TouchedOrder
  <2>4. TouchedTurn(s) = [turn EXCEPT ![Head(order)] = 0]
    BY <1>1 DEF TouchedTurn
  <2>5. QED
    BY <2>2, <2>3, <2>4 DEF TypeOK
<1>2. CASE ~Evicts(s)
  <2>1. Without(order, s) \in Seq(Sessions)
    BY WithoutType DEF TypeOK
  <2>2. TouchedOrder(s) = Append(Without(order, s), s) /\ TouchedTurn(s) = turn
    BY <1>2 DEF TouchedOrder, TouchedTurn
  <2>3. QED
    BY <2>1, <2>2 DEF TypeOK
<1>3. QED
  BY <1>1, <1>2

-----------------------------------------------------------------------------
(* Type correctness                                                        *)

\* The end of the process and the actions that contain it keep the types.
LEMMA ProcessEndsType ==
  ASSUME TypeOK, ProcessEnds, snap' \in Snapshot, kept' \subseteq Jobs
  PROVE  TypeOK'
BY BoundAssumption DEF TypeOK, ProcessEnds, ArmPc, FutureVal

\* The dump of the session table and the queue is a well-formed snapshot.
LEMMA DumpType == TypeOK => Dump \in Snapshot /\ EmptySnapshot \in Snapshot
BY DEF TypeOK, Dump, EmptySnapshot, Snapshot

\* Every variable keeps its type through every step.
LEMMA TypeStep == TypeOK /\ [Next]_vars => TypeOK'
<1> SUFFICES ASSUME TypeOK, [Next]_vars PROVE TypeOK'
  OBVIOUS
<1> USE JobAssumption, BoundAssumption
<1>1. ASSUME NEW j \in BrainJobs, SubmitBrain(j) PROVE TypeOK'
  BY <1>1 DEF TypeOK, SubmitBrain, Number, Enter, FutureVal, armVars,
              sessionVars, ledgerVars
<1>2. ASSUME NEW j \in BrainJobs, PutUnblocks(j) PROVE TypeOK'
  BY <1>2 DEF TypeOK, PutUnblocks, Enter, armVars, sessionVars, ledgerVars
<1>3. ASSUME NEW j \in BrainJobs, CallerCancels(j) PROVE TypeOK'
  BY <1>3 DEF TypeOK, CallerCancels, FutureVal, armVars, sessionVars,
              ledgerVars, history
<1>4. ASSUME NEW j \in Jobs, TrySubmitMessage(j) PROVE TypeOK'
  BY <1>4 DEF TypeOK, TrySubmitMessage, Number, Enter, armVars, sessionVars,
              ledgerVars
<1>5. ASSUME NEW j \in Jobs, WorkerGet(j) PROVE TypeOK'
  BY <1>5 DEF TypeOK, WorkerGet, armVars, sessionVars, ledgerVars, history
<1>6. ASSUME NEW j \in Jobs, WorkerSpawn(j) PROVE TypeOK'
  BY <1>6 DEF TypeOK, WorkerSpawn, ArmPc, sessionVars, ledgerVars, history
<1>7. CASE WorkerExit
  BY <1>7 DEF TypeOK, WorkerExit, queueVars, armVars, sessionVars, ledgerVars,
              history
<1>8. ASSUME NEW j \in Jobs, ArmAcquire(j) PROVE TypeOK'
  BY <1>8 DEF TypeOK, ArmAcquire, ArmPc, queueVars, sessionVars, ledgerVars
<1>9. ASSUME NEW j \in Jobs, ArmPrepare(j) PROVE TypeOK'
  <2>1. SessionOf[j] \in Sessions
    OBVIOUS
  <2>2. order' \in Seq(Sessions) /\ turn' \in [Sessions -> Nat]
    BY <1>9, <2>1, TouchType DEF ArmPrepare
  <2>3. QED
    BY <1>9, <2>2 DEF TypeOK, ArmPrepare, ArmPc, queueVars, ledgerVars, history
<1>10. ASSUME NEW j \in Jobs, ArmResponds(j) PROVE TypeOK'
  <2>1. SessionOf[j] \in Sessions
    OBVIOUS
  <2>2. order' \in Seq(Sessions) /\ turn' \in [Sessions -> Nat]
    BY <1>10, <2>1, TouchType DEF ArmResponds, TurnAfter
  <2>3. [job |-> j, ok |-> TRUE, turn |-> turn'[SessionOf[j]]] \in Row
    BY <2>1, <2>2 DEF Row
  <2>4. rows' \in Seq(Row)
    BY <1>10, <2>3 DEF ArmResponds, TypeOK
  <2>5. QED
    BY <1>10, <2>2, <2>4 DEF TypeOK, ArmResponds, ArmPc, queueVars, history
<1>11. ASSUME NEW j \in Jobs, ArmFails(j) PROVE TypeOK'
  <2>1. SessionOf[j] \in Sessions
    OBVIOUS
  <2>2. order' \in Seq(Sessions) /\ turn' \in [Sessions -> Nat]
    BY <1>11, <2>1, TouchType DEF ArmFails
  <2>3. [job |-> j, ok |-> FALSE, turn |-> turn'[SessionOf[j]]] \in Row
    BY <2>1, <2>2 DEF Row
  <2>4. rows' \in Seq(Row)
    BY <1>11, <2>3 DEF ArmFails, TypeOK
  <2>5. QED
    BY <1>11, <2>2, <2>4 DEF TypeOK, ArmFails, ArmPc, queueVars, history
<1>12. ASSUME NEW j \in Jobs, ArmFinish(j) PROVE TypeOK'
  <2>1. future' \in [Jobs -> FutureVal] /\ permits' \in Nat
    BY <1>12 DEF TypeOK, ArmFinish, Settle, PermitsAfter, FutureVal
  <2>2. QED
    BY <1>12, <2>1 DEF TypeOK, ArmFinish, ArmPc, queueVars, sessionVars, ledgerVars
<1>13. CASE WriteBatch
  <2>1. PICK n \in 1..BatchSize :
          /\ n <= Len(rows)
          /\ ledger' = ledger \o SubSeq(rows, 1, n)
          /\ rows' = SubSeq(rows, n + 1, Len(rows))
    BY <1>13 DEF WriteBatch
  <2>2. SubSeq(rows, 1, n) \in Seq(Row) /\ SubSeq(rows, n + 1, Len(rows)) \in Seq(Row)
    BY <2>1 DEF TypeOK
  <2>3. ledger' \in Seq(Row)
    BY <2>1, <2>2, ConcatProperties DEF TypeOK
  <2>4. QED
    BY <1>13, <2>1, <2>2, <2>3 DEF TypeOK, WriteBatch, queueVars, armVars,
                                   sessionVars, history
<1>14. CASE Start \/ StartUnread
  <2>1. PICK data \in Snapshot : Starts(data)
    BY <1>14, DumpType DEF Start, StartUnread, TypeOK
  <2>2. QED
    BY <1>14, <2>1 DEF TypeOK, Starts, Snapshot, armVars, ledgerVars
<1>15. CASE SaveSnapshot
  <2>1. snap' \in Snapshot
    BY <1>15, DumpType DEF SaveSnapshot, SaveRaises, TypeOK
  <2>2. QED
    BY <1>15, <2>1 DEF TypeOK, SaveSnapshot, queueVars, armVars, sessionVars, ledgerVars,
                       history
<1>16. CASE Close
  BY <1>16 DEF TypeOK, Close, queueVars, armVars, sessionVars, ledgerVars, history
<1>17. CASE CloseFinish
  BY <1>17, DumpType, ProcessEndsType DEF CloseFinish, SaveRaises, TypeOK
<1>18. CASE Kill
  BY <1>18, ProcessEndsType DEF Kill, TypeOK
<1>19. CASE KillDuringSave
  BY <1>19, DumpType, ProcessEndsType DEF KillDuringSave
<1>20. CASE UNCHANGED vars
  BY <1>20 DEF TypeOK, vars, queueVars, armVars, sessionVars, ledgerVars, history
<1>21. QED
  BY <1>1, <1>2, <1>3, <1>4, <1>5, <1>6, <1>7, <1>8, <1>9, <1>10, <1>11, <1>12,
     <1>13, <1>14, <1>15, <1>16, <1>17, <1>18, <1>19, <1>20
     DEF Next, Callers, Worker, Arm, Process

\* TypeOK holds in every reachable state.
THEOREM TypeCorrect == Spec => []TypeOK
<1>1. Init => TypeOK
  BY JobAssumption, BoundAssumption DEF Init, TypeOK, EmptySnapshot, Snapshot,
     ArmPc, FutureVal
<1>2. QED
  BY <1>1, TypeStep, PTL DEF Spec

-----------------------------------------------------------------------------
(* The semaphore's queue                                                   *)

\* The arm at the head of the queue waits, and no other entry names it.
LEMMA HeadWaits ==
  ASSUME TypeOK, WaitersWait, waiters # <<>>
  PROVE  /\ Head(waiters) \in Jobs /\ pc[Head(waiters)] = "waiting"
         /\ Tail(waiters) \in Seq(Jobs)
         /\ \A i \in DOMAIN Tail(waiters) :
              /\ i \in Nat /\ i + 1 \in DOMAIN waiters
              /\ Tail(waiters)[i] = waiters[i + 1]
              /\ Tail(waiters)[i] # Head(waiters)
<1>1. waiters \in Seq(Jobs) /\ Len(waiters) >= 1
  BY DEF TypeOK
<1>2. Head(waiters) = waiters[1] /\ 1 \in DOMAIN waiters
  BY <1>1
<1>3. /\ Tail(waiters) \in Seq(Jobs)
      /\ Len(Tail(waiters)) = Len(waiters) - 1
      /\ \A i \in 1..Len(Tail(waiters)) : Tail(waiters)[i] = waiters[i + 1]
  BY <1>1, HeadTailProperties
<1>4. ASSUME NEW i \in DOMAIN Tail(waiters)
      PROVE  /\ i \in Nat /\ i + 1 \in DOMAIN waiters
             /\ Tail(waiters)[i] = waiters[i + 1]
             /\ i + 1 # 1
  BY <1>1, <1>3
<1>5. \A i \in DOMAIN Tail(waiters) : Tail(waiters)[i] # Head(waiters)
  BY <1>2, <1>4 DEF WaitersWait
<1>6. QED
  BY <1>1, <1>2, <1>3, <1>4, <1>5 DEF WaitersWait

-----------------------------------------------------------------------------
(* The places a job can be in                                              *)

\* Every step keeps each unfinished job in exactly one place, and a worker that
\* is gone holds none.
LEMMA PlacesStep == IInv /\ [Next]_vars => Places'
<1> SUFFICES ASSUME IInv, [Next]_vars PROVE Places'
  OBVIOUS
<1> USE JobAssumption, BoundAssumption DEF IInv, TypeOK, Places, DownIsEmpty, OwedJobsCarried, WorkerHoldsOne,
          KnownJobs, Arms
<1>1. ASSUME NEW j \in BrainJobs, SubmitBrain(j) PROVE Places'
  BY <1>1 DEF SubmitBrain, Number, Enter, armVars, sessionVars, ledgerVars
<1>2. ASSUME NEW j \in BrainJobs, PutUnblocks(j) PROVE Places'
  BY <1>2 DEF PutUnblocks, Enter, armVars, sessionVars, ledgerVars
<1>3. ASSUME NEW j \in BrainJobs, CallerCancels(j) PROVE Places'
  BY <1>3 DEF CallerCancels, armVars, sessionVars, ledgerVars, history
<1>4. ASSUME NEW j \in Jobs, TrySubmitMessage(j) PROVE Places'
  BY <1>4 DEF TrySubmitMessage, Number, Enter, armVars, sessionVars, ledgerVars
<1>5. ASSUME NEW j \in Jobs, WorkerGet(j) PROVE Places'
  BY <1>5 DEF WorkerGet, Frontmost, armVars, sessionVars, ledgerVars, history
<1>6. ASSUME NEW j \in Jobs, WorkerSpawn(j) PROVE Places'
  BY <1>6 DEF WorkerSpawn, sessionVars, ledgerVars, history
<1>7. CASE WorkerExit
  BY <1>7 DEF WorkerExit, queueVars, armVars, sessionVars, ledgerVars, history
<1>8. ASSUME NEW j \in Jobs, ArmAcquire(j) PROVE Places'
  <2>1. pc[j] = "waiting"
    BY <1>8, HeadWaits DEF ArmAcquire
  <2>2. QED
    BY <1>8, <2>1 DEF ArmAcquire, queueVars, sessionVars, ledgerVars
<1>9. ASSUME NEW j \in Jobs, ArmPrepare(j) PROVE Places'
  BY <1>9 DEF ArmPrepare, queueVars, ledgerVars, history
<1>10. ASSUME NEW j \in Jobs, ArmResponds(j) PROVE Places'
  BY <1>10 DEF ArmResponds, queueVars, history
<1>11. ASSUME NEW j \in Jobs, ArmFails(j) PROVE Places'
  BY <1>11 DEF ArmFails, queueVars, history
<1>12. ASSUME NEW j \in Jobs, ArmFinish(j) PROVE Places'
  BY <1>12 DEF ArmFinish, Settle, PermitsAfter, queueVars, sessionVars, ledgerVars
<1>13. CASE WriteBatch
  BY <1>13 DEF WriteBatch, queueVars, armVars, sessionVars, history
<1>14. CASE Start \/ StartUnread
  BY <1>14 DEF Start, StartUnread, Starts, EmptySnapshot, armVars, ledgerVars
<1>15. CASE SaveSnapshot
  BY <1>15 DEF SaveSnapshot, queueVars, armVars, sessionVars, ledgerVars, history
<1>16. CASE Close
  BY <1>16 DEF Close, queueVars, armVars, sessionVars, ledgerVars, history
<1>17. CASE CloseFinish
  BY <1>17 DEF CloseFinish, SaveRaises, EmptySnapshot, Dump, ProcessEnds, Gathered
<1>18. CASE Kill
  BY <1>18 DEF Kill, ProcessEnds
<1>19. CASE KillDuringSave
  BY <1>19 DEF KillDuringSave, ProcessEnds, EmptySnapshot
<1>20. CASE UNCHANGED vars
  BY <1>20 DEF vars, queueVars, armVars, sessionVars, ledgerVars, history
<1>21. QED
  BY <1>1, <1>2, <1>3, <1>4, <1>5, <1>6, <1>7, <1>8, <1>9, <1>10, <1>11, <1>12, <1>13, <1>14, <1>15, <1>16, <1>17, <1>18, <1>19, <1>20
     DEF Next, Callers, Worker, Arm, Process

\* Only submitted jobs ever enter the process or the snapshot.
LEMMA KnownStep == IInv /\ [Next]_vars => KnownJobs'
<1> SUFFICES ASSUME IInv, [Next]_vars PROVE KnownJobs'
  OBVIOUS
<1> USE JobAssumption, BoundAssumption DEF IInv, TypeOK, Places, DownIsEmpty, OwedJobsCarried,
         KnownJobs, Arms
<1>1. ASSUME NEW j \in BrainJobs, SubmitBrain(j) PROVE KnownJobs'
  <2>1. j \notin owed \cup putting /\ submitted' = submitted \cup {j}
    BY <1>1 DEF SubmitBrain, Number
  <2>2. \/ owed' = owed \cup {j} /\ putting' = putting
        \/ owed' = owed /\ putting' = putting \cup {j}
    BY <1>1 DEF SubmitBrain, Enter
  <2>3. snap' = snap /\ runs' = runs
    BY <1>1 DEF SubmitBrain
  <2>4. \A k \in Jobs \ {j} : future'[k] = future[k]
    BY <1>1 DEF SubmitBrain
  <2>5. (owed \cup putting \cup snap.jobs \subseteq submitted)'
    BY <2>1, <2>2, <2>3
  <2>6. (putting \cap owed = {})'
    <3>1. putting \cap owed = {}
      OBVIOUS
    <3> HIDE DEF IInv
    <3>2. QED
      BY <2>1, <2>2, <3>1
  <2>7. (\A k \in Jobs \ submitted : future[k] = "none" /\ runs[k] = 0)'
    BY <2>1, <2>3, <2>4
  <2>8. QED
    BY <2>5, <2>6, <2>7
<1>2. ASSUME NEW j \in BrainJobs, PutUnblocks(j) PROVE KnownJobs'
  BY <1>2 DEF PutUnblocks, Enter, armVars, sessionVars, ledgerVars
<1>3. ASSUME NEW j \in BrainJobs, CallerCancels(j) PROVE KnownJobs'
  BY <1>3 DEF CallerCancels, armVars, sessionVars, ledgerVars, history
<1>4. ASSUME NEW j \in Jobs, TrySubmitMessage(j) PROVE KnownJobs'
  BY <1>4 DEF TrySubmitMessage, Number, Enter, armVars, sessionVars, ledgerVars
<1>5. ASSUME NEW j \in Jobs, WorkerGet(j) PROVE KnownJobs'
  BY <1>5 DEF WorkerGet, Frontmost, armVars, sessionVars, ledgerVars, history
<1>6. ASSUME NEW j \in Jobs, WorkerSpawn(j) PROVE KnownJobs'
  BY <1>6 DEF WorkerSpawn, sessionVars, ledgerVars, history
<1>7. CASE WorkerExit
  BY <1>7 DEF WorkerExit, queueVars, armVars, sessionVars, ledgerVars, history
<1>8. ASSUME NEW j \in Jobs, ArmAcquire(j) PROVE KnownJobs'
  <2>1. pc[j] = "waiting"
    BY <1>8, HeadWaits DEF ArmAcquire
  <2>2. j \in submitted
    BY <2>1
  <2>3. QED
    BY <1>8, <2>2 DEF ArmAcquire, queueVars, sessionVars, ledgerVars
<1>9. ASSUME NEW j \in Jobs, ArmPrepare(j) PROVE KnownJobs'
  BY <1>9 DEF ArmPrepare, queueVars, ledgerVars, history
<1>10. ASSUME NEW j \in Jobs, ArmResponds(j) PROVE KnownJobs'
  BY <1>10 DEF ArmResponds, queueVars, history
<1>11. ASSUME NEW j \in Jobs, ArmFails(j) PROVE KnownJobs'
  BY <1>11 DEF ArmFails, queueVars, history
<1>12. ASSUME NEW j \in Jobs, ArmFinish(j) PROVE KnownJobs'
  BY <1>12 DEF ArmFinish, Settle, PermitsAfter, queueVars, sessionVars, ledgerVars
<1>13. CASE WriteBatch
  BY <1>13 DEF WriteBatch, queueVars, armVars, sessionVars, history
<1>14. CASE Start \/ StartUnread
  BY <1>14 DEF Start, StartUnread, Starts, EmptySnapshot, armVars, ledgerVars
<1>15. CASE SaveSnapshot
  <2>1. snap'.jobs \subseteq queue \cup snap.jobs
    BY <1>15 DEF SaveSnapshot, SaveRaises, EmptySnapshot, Dump
  <2>2. QED
    BY <1>15, <2>1 DEF SaveSnapshot, queueVars, armVars, sessionVars, ledgerVars, history
<1>16. CASE Close
  BY <1>16 DEF Close, queueVars, armVars, sessionVars, ledgerVars, history
<1>17. CASE CloseFinish
  BY <1>17 DEF CloseFinish, SaveRaises, EmptySnapshot, Dump, ProcessEnds, Gathered
<1>18. CASE Kill
  BY <1>18 DEF Kill, ProcessEnds
<1>19. CASE KillDuringSave
  BY <1>19 DEF KillDuringSave, ProcessEnds, EmptySnapshot
<1>20. CASE UNCHANGED vars
  BY <1>20 DEF vars, queueVars, armVars, sessionVars, ledgerVars, history
<1>21. QED
  BY <1>1, <1>2, <1>3, <1>4, <1>5, <1>6, <1>7, <1>8, <1>9, <1>10, <1>11, <1>12, <1>13, <1>14, <1>15, <1>16, <1>17, <1>18, <1>19, <1>20
     DEF Next, Callers, Worker, Arm, Process

\* A job that has yet to run in this life has not run in it before, so no step
\* takes it past one run per life.
LEMMA RunsStep == IInv /\ [Next]_vars => RunCounts'
<1> SUFFICES ASSUME IInv, [Next]_vars PROVE RunCounts'
  OBVIOUS
<1> USE JobAssumption, BoundAssumption DEF IInv, TypeOK, Places, DownIsEmpty, OwedJobsCarried,
         KnownJobs, RunCounts, RunsToCome, OneRunPerLife, WaitersWait, Arms
<1>1. ASSUME NEW j \in BrainJobs, SubmitBrain(j) PROVE RunCounts'
  BY <1>1 DEF SubmitBrain, Number, Enter, armVars, sessionVars, ledgerVars
<1>2. ASSUME NEW j \in BrainJobs, PutUnblocks(j) PROVE RunCounts'
  BY <1>2 DEF PutUnblocks, Enter, armVars, sessionVars, ledgerVars
<1>3. ASSUME NEW j \in BrainJobs, CallerCancels(j) PROVE RunCounts'
  BY <1>3 DEF CallerCancels, armVars, sessionVars, ledgerVars, history
<1>4. ASSUME NEW j \in Jobs, TrySubmitMessage(j) PROVE RunCounts'
  BY <1>4 DEF TrySubmitMessage, Number, Enter, armVars, sessionVars, ledgerVars
<1>5. ASSUME NEW j \in Jobs, WorkerGet(j) PROVE RunCounts'
  BY <1>5 DEF WorkerGet, Frontmost, armVars, sessionVars, ledgerVars, history
<1>6. ASSUME NEW j \in Jobs, WorkerSpawn(j) PROVE RunCounts'
  BY <1>6 DEF WorkerSpawn, sessionVars, ledgerVars, history
<1>7. CASE WorkerExit
  BY <1>7 DEF WorkerExit, queueVars, armVars, sessionVars, ledgerVars, history
<1>8. ASSUME NEW j \in Jobs, ArmAcquire(j) PROVE RunCounts'
  <2>1. pc[j] = "waiting"
    BY <1>8 DEF ArmAcquire
  <2>2. runs[j] < lives /\ j \notin putting \cup queue \cup hand
    BY <2>1
  <2>3. /\ UNCHANGED <<mode, lives, queue, putting, hand>>
        /\ \A k \in Jobs : pc'[k] = "waiting" => pc[k] = "waiting" /\ k # j
    BY <1>8 DEF ArmAcquire, queueVars
  <2>4. \A k \in Jobs : runs'[k] = IF k = j THEN runs[j] + 1 ELSE runs[k]
    BY <1>8 DEF ArmAcquire
  <2>5. /\ \A k \in Jobs : runs[k] \in Nat /\ runs[k] <= lives
        /\ putting \cup queue \cup hand \subseteq Jobs /\ lives \in Nat /\ RunsToCome
    OBVIOUS
  <2> HIDE DEF IInv, TypeOK, Places, DownIsEmpty, OwedJobsCarried, KnownJobs, WaitersWait, Arms
  <2>6. \A k \in Jobs : runs'[k] <= lives
    BY <2>2, <2>4, <2>5
  <2>7. \A k \in putting \cup queue \cup hand : runs'[k] < lives
    BY <2>2, <2>4, <2>5
  <2> QED
    BY <2>3, <2>4, <2>5, <2>6, <2>7
<1>9. ASSUME NEW j \in Jobs, ArmPrepare(j) PROVE RunCounts'
  BY <1>9 DEF ArmPrepare, queueVars, ledgerVars, history
<1>10. ASSUME NEW j \in Jobs, ArmResponds(j) PROVE RunCounts'
  BY <1>10 DEF ArmResponds, queueVars, history
<1>11. ASSUME NEW j \in Jobs, ArmFails(j) PROVE RunCounts'
  BY <1>11 DEF ArmFails, queueVars, history
<1>12. ASSUME NEW j \in Jobs, ArmFinish(j) PROVE RunCounts'
  BY <1>12 DEF ArmFinish, Settle, PermitsAfter, queueVars, sessionVars, ledgerVars
<1>13. CASE WriteBatch
  BY <1>13 DEF WriteBatch, queueVars, armVars, sessionVars, history
<1>14. CASE Start \/ StartUnread
  BY <1>14 DEF Start, StartUnread, Starts, EmptySnapshot, armVars, ledgerVars
<1>15. CASE SaveSnapshot
  BY <1>15 DEF SaveSnapshot, queueVars, armVars, sessionVars, ledgerVars, history
<1>16. CASE Close
  BY <1>16 DEF Close, queueVars, armVars, sessionVars, ledgerVars, history
<1>17. CASE CloseFinish
  BY <1>17 DEF CloseFinish, SaveRaises, EmptySnapshot, Dump, ProcessEnds, Gathered
<1>18. CASE Kill
  BY <1>18 DEF Kill, ProcessEnds
<1>19. CASE KillDuringSave
  BY <1>19 DEF KillDuringSave, ProcessEnds, EmptySnapshot
<1>20. CASE UNCHANGED vars
  BY <1>20 DEF vars, queueVars, armVars, sessionVars, ledgerVars, history
<1>21. QED
  BY <1>1, <1>2, <1>3, <1>4, <1>5, <1>6, <1>7, <1>8, <1>9, <1>10, <1>11, <1>12, <1>13, <1>14, <1>15, <1>16, <1>17, <1>18, <1>19, <1>20
     DEF Next, Callers, Worker, Arm, Process

\* No step leaves a waiting caller without its job.
LEMMA CallersStep == IInv /\ [Next]_vars => WaitingCallerHasJob'
<1> SUFFICES ASSUME IInv, [Next]_vars PROVE WaitingCallerHasJob'
  OBVIOUS
<1> USE JobAssumption, BoundAssumption DEF IInv, TypeOK, Places, DownIsEmpty, OwedJobsCarried,
         WaitingCallerHasJob, KnownJobs, Arms
<1>1. ASSUME NEW j \in BrainJobs, SubmitBrain(j) PROVE WaitingCallerHasJob'
  BY <1>1 DEF SubmitBrain, Number, Enter, armVars, sessionVars, ledgerVars
<1>2. ASSUME NEW j \in BrainJobs, PutUnblocks(j) PROVE WaitingCallerHasJob'
  BY <1>2 DEF PutUnblocks, Enter, armVars, sessionVars, ledgerVars
<1>3. ASSUME NEW j \in BrainJobs, CallerCancels(j) PROVE WaitingCallerHasJob'
  BY <1>3 DEF CallerCancels, armVars, sessionVars, ledgerVars, history
<1>4. ASSUME NEW j \in Jobs, TrySubmitMessage(j) PROVE WaitingCallerHasJob'
  BY <1>4 DEF TrySubmitMessage, Number, Enter, armVars, sessionVars, ledgerVars
<1>5. ASSUME NEW j \in Jobs, WorkerGet(j) PROVE WaitingCallerHasJob'
  BY <1>5 DEF WorkerGet, Frontmost, armVars, sessionVars, ledgerVars, history
<1>6. ASSUME NEW j \in Jobs, WorkerSpawn(j) PROVE WaitingCallerHasJob'
  BY <1>6 DEF WorkerSpawn, sessionVars, ledgerVars, history
<1>7. CASE WorkerExit
  BY <1>7 DEF WorkerExit, queueVars, armVars, sessionVars, ledgerVars, history
<1>8. ASSUME NEW j \in Jobs, ArmAcquire(j) PROVE WaitingCallerHasJob'
  BY <1>8 DEF ArmAcquire, queueVars, sessionVars, ledgerVars
<1>9. ASSUME NEW j \in Jobs, ArmPrepare(j) PROVE WaitingCallerHasJob'
  BY <1>9 DEF ArmPrepare, queueVars, ledgerVars, history
<1>10. ASSUME NEW j \in Jobs, ArmResponds(j) PROVE WaitingCallerHasJob'
  BY <1>10 DEF ArmResponds, queueVars, history
<1>11. ASSUME NEW j \in Jobs, ArmFails(j) PROVE WaitingCallerHasJob'
  BY <1>11 DEF ArmFails, queueVars, history
<1>12. ASSUME NEW j \in Jobs, ArmFinish(j) PROVE WaitingCallerHasJob'
  BY <1>12 DEF ArmFinish, Settle, PermitsAfter, queueVars, sessionVars, ledgerVars
<1>13. CASE WriteBatch
  BY <1>13 DEF WriteBatch, queueVars, armVars, sessionVars, history
<1>14. CASE Start \/ StartUnread
  BY <1>14 DEF Start, StartUnread, Starts, EmptySnapshot, armVars, ledgerVars
<1>15. CASE SaveSnapshot
  BY <1>15 DEF SaveSnapshot, queueVars, armVars, sessionVars, ledgerVars, history
<1>16. CASE Close
  BY <1>16 DEF Close, queueVars, armVars, sessionVars, ledgerVars, history
<1>17. CASE CloseFinish
  BY <1>17 DEF CloseFinish, SaveRaises, EmptySnapshot, Dump, ProcessEnds, Gathered
<1>18. CASE Kill
  BY <1>18 DEF Kill, ProcessEnds
<1>19. CASE KillDuringSave
  BY <1>19 DEF KillDuringSave, ProcessEnds, EmptySnapshot
<1>20. CASE UNCHANGED vars
  BY <1>20 DEF vars, queueVars, armVars, sessionVars, ledgerVars, history
<1>21. QED
  BY <1>1, <1>2, <1>3, <1>4, <1>5, <1>6, <1>7, <1>8, <1>9, <1>10, <1>11, <1>12, <1>13, <1>14, <1>15, <1>16, <1>17, <1>18, <1>19, <1>20
     DEF Next, Callers, Worker, Arm, Process

\* The queue of the semaphore keeps naming waiting arms, each of them once.
LEMMA WaitersStep == IInv /\ [Next]_vars => WaitersWait'
<1> SUFFICES ASSUME IInv, [Next]_vars PROVE WaitersWait'
  OBVIOUS
<1> USE JobAssumption, BoundAssumption DEF IInv, TypeOK, Places, WaitersWait, OwedJobsCarried, Arms
<1>1. ASSUME NEW j \in BrainJobs, SubmitBrain(j) PROVE WaitersWait'
  BY <1>1 DEF SubmitBrain, Number, Enter, armVars, sessionVars, ledgerVars
<1>2. ASSUME NEW j \in BrainJobs, PutUnblocks(j) PROVE WaitersWait'
  BY <1>2 DEF PutUnblocks, Enter, armVars, sessionVars, ledgerVars
<1>3. ASSUME NEW j \in BrainJobs, CallerCancels(j) PROVE WaitersWait'
  BY <1>3 DEF CallerCancels, armVars, sessionVars, ledgerVars, history
<1>4. ASSUME NEW j \in Jobs, TrySubmitMessage(j) PROVE WaitersWait'
  BY <1>4 DEF TrySubmitMessage, Number, Enter, armVars, sessionVars, ledgerVars
<1>5. ASSUME NEW j \in Jobs, WorkerGet(j) PROVE WaitersWait'
  BY <1>5 DEF WorkerGet, Frontmost, armVars, sessionVars, ledgerVars, history
<1>6. ASSUME NEW j \in Jobs, WorkerSpawn(j) PROVE WaitersWait'
  <2>1. waiters' = Append(waiters, j) /\ pc' = [pc EXCEPT ![j] = "waiting"]
    BY <1>6 DEF WorkerSpawn
  <2>2. pc[j] = "none"
    BY <1>6 DEF WorkerSpawn
  <2>3. \A i \in DOMAIN waiters : waiters[i] \in Jobs /\ waiters[i] # j
    BY <2>2
  <2>4. /\ Len(waiters') = Len(waiters) + 1 /\ waiters' \in Seq(Jobs)
        /\ waiters'[Len(waiters) + 1] = j
        /\ \A i \in 1..Len(waiters) : waiters'[i] = waiters[i]
    BY <2>1, AppendProperties
  <2>5. DOMAIN waiters' = 1..Len(waiters) + 1 /\ DOMAIN waiters = 1..Len(waiters)
        /\ Len(waiters) \in Nat
    BY <2>4
  <2>6. ASSUME NEW i \in DOMAIN waiters' PROVE pc'[waiters'[i]] = "waiting"
    <3>1. CASE i = Len(waiters) + 1
      BY <2>1, <2>4, <3>1
    <3>2. CASE i \in 1..Len(waiters)
      BY <2>1, <2>3, <2>4, <2>5, <3>2
    <3>3. QED
      BY <2>5, <2>6, <3>1, <3>2
  <2>7. ASSUME NEW i \in DOMAIN waiters', NEW k \in DOMAIN waiters',
               waiters'[i] = waiters'[k]
        PROVE  i = k
    <3>1. \A m, n \in DOMAIN waiters : waiters[m] = waiters[n] => m = n
      OBVIOUS
    <3> HIDE DEF IInv
    <3>2. QED
      BY <2>3, <2>4, <2>5, <2>7, <3>1
  <2>8. QED
    BY <2>6, <2>7
<1>7. CASE WorkerExit
  BY <1>7 DEF WorkerExit, queueVars, armVars, sessionVars, ledgerVars, history
<1>8. ASSUME NEW j \in Jobs, ArmAcquire(j) PROVE WaitersWait'
  <2>1. waiters' = Tail(waiters) /\ pc' = [pc EXCEPT ![j] = "started"]
        /\ waiters # <<>> /\ j = Head(waiters)
    BY <1>8 DEF ArmAcquire
  <2>2. \A i \in DOMAIN waiters' :
          /\ i \in Nat /\ i + 1 \in DOMAIN waiters
          /\ waiters'[i] = waiters[i + 1]
          /\ waiters'[i] # j
    BY <2>1, HeadWaits
  <2>3. ASSUME NEW i \in DOMAIN waiters' PROVE pc'[waiters'[i]] = "waiting"
    BY <2>1, <2>2, <2>3
  <2>4. ASSUME NEW i \in DOMAIN waiters', NEW k \in DOMAIN waiters',
               waiters'[i] = waiters'[k]
        PROVE  i = k
    <3>1. waiters[i + 1] = waiters[k + 1] /\ i \in Nat /\ k \in Nat
          /\ i + 1 \in DOMAIN waiters /\ k + 1 \in DOMAIN waiters
      BY <2>2, <2>4
    <3>2. i + 1 = k + 1
      BY <3>1
    <3>3. QED
      BY <3>1, <3>2
  <2>5. QED
    BY <2>3, <2>4
<1>9. ASSUME NEW j \in Jobs, ArmPrepare(j) PROVE WaitersWait'
  BY <1>9 DEF ArmPrepare, queueVars, ledgerVars, history
<1>10. ASSUME NEW j \in Jobs, ArmResponds(j) PROVE WaitersWait'
  BY <1>10 DEF ArmResponds, queueVars, history
<1>11. ASSUME NEW j \in Jobs, ArmFails(j) PROVE WaitersWait'
  BY <1>11 DEF ArmFails, queueVars, history
<1>12. ASSUME NEW j \in Jobs, ArmFinish(j) PROVE WaitersWait'
  BY <1>12 DEF ArmFinish, Settle, PermitsAfter, queueVars, sessionVars, ledgerVars
<1>13. CASE WriteBatch
  BY <1>13 DEF WriteBatch, queueVars, armVars, sessionVars, history
<1>14. CASE Start \/ StartUnread
  BY <1>14 DEF Start, StartUnread, Starts, EmptySnapshot, armVars, ledgerVars
<1>15. CASE SaveSnapshot
  BY <1>15 DEF SaveSnapshot, queueVars, armVars, sessionVars, ledgerVars, history
<1>16. CASE Close
  BY <1>16 DEF Close, queueVars, armVars, sessionVars, ledgerVars, history
<1>17. CASE CloseFinish
  BY <1>17 DEF CloseFinish, SaveRaises, EmptySnapshot, Dump, ProcessEnds, Gathered
<1>18. CASE Kill
  BY <1>18 DEF Kill, ProcessEnds
<1>19. CASE KillDuringSave
  BY <1>19 DEF KillDuringSave, ProcessEnds, EmptySnapshot
<1>20. CASE UNCHANGED vars
  BY <1>20 DEF vars, queueVars, armVars, sessionVars, ledgerVars, history
<1>21. QED
  BY <1>1, <1>2, <1>3, <1>4, <1>5, <1>6, <1>7, <1>8, <1>9, <1>10, <1>11, <1>12, <1>13, <1>14, <1>15, <1>16, <1>17, <1>18, <1>19, <1>20
     DEF Next, Callers, Worker, Arm, Process

-----------------------------------------------------------------------------
(* The permits of the semaphore                                            *)

\* A dead process runs nothing, and its successor gets a fresh semaphore.
LEMMA ProcessEndsCounts ==
  ASSUME ProcessEnds
  PROVE  SemaphoreState'
<1>1. Running' = {} /\ permits' = MaxArms
  BY DEF ProcessEnds, Running
<1>2. IsFiniteSet({}) /\ Cardinality({}) = 0
  BY FS_EmptySet
<1>3. QED
  BY <1>1, <1>2, BoundAssumption DEF SemaphoreState, PermitsAccounted

\* A permit is taken when an arm begins to run and given back when it ends.
LEMMA PermitsStep == IInv /\ [Next]_vars => SemaphoreState'
<1> SUFFICES ASSUME IInv, [Next]_vars PROVE SemaphoreState'
  OBVIOUS
<1>1. ASSUME NEW j \in BrainJobs, SubmitBrain(j) PROVE SemaphoreState'
  BY <1>1 DEF SubmitBrain, armVars, Running, IInv, SemaphoreState, PermitsAccounted
<1>2. ASSUME NEW j \in BrainJobs, PutUnblocks(j) PROVE SemaphoreState'
  BY <1>2 DEF PutUnblocks, armVars, Running, IInv, SemaphoreState, PermitsAccounted
<1>3. ASSUME NEW j \in BrainJobs, CallerCancels(j) PROVE SemaphoreState'
  BY <1>3 DEF CallerCancels, armVars, Running, IInv, SemaphoreState, PermitsAccounted
<1>4. ASSUME NEW j \in Jobs, TrySubmitMessage(j) PROVE SemaphoreState'
  BY <1>4 DEF TrySubmitMessage, armVars, Running, IInv, SemaphoreState, PermitsAccounted
<1>5. ASSUME NEW j \in Jobs, WorkerGet(j) PROVE SemaphoreState'
  BY <1>5 DEF WorkerGet, armVars, Running, IInv, SemaphoreState, PermitsAccounted
<1>6. ASSUME NEW j \in Jobs, WorkerSpawn(j) PROVE SemaphoreState'
  <2>1. Running' = Running /\ permits' = permits
    BY <1>6 DEF WorkerSpawn, Running, Arms, IInv, Places, OwedJobsCarried, TypeOK
  <2>2. QED
    BY <2>1 DEF IInv, SemaphoreState, PermitsAccounted
<1>7. CASE WorkerExit
  BY <1>7 DEF WorkerExit, armVars, Running, IInv, SemaphoreState, PermitsAccounted
<1>8. ASSUME NEW j \in Jobs, ArmAcquire(j) PROVE SemaphoreState'
  <2>1. pc[j] = "waiting" /\ pc' = [pc EXCEPT ![j] = "started"]
    BY <1>8, HeadWaits DEF ArmAcquire, IInv
  <2>2. permits > 0 /\ permits' = permits - 1 /\ permits \in Nat
    BY <1>8 DEF ArmAcquire, IInv, TypeOK
  <2>3. Running' = Running \cup {j} /\ j \notin Running
    BY <2>1 DEF Running, IInv, TypeOK
  <2>4. Cardinality(Running') = Cardinality(Running) + 1 /\ IsFiniteSet(Running')
    BY <2>3, FS_AddElement DEF IInv, SemaphoreState
  <2>5. Cardinality(Running) \in Nat
    BY FS_CardinalityType DEF IInv, SemaphoreState
  <2>6. QED
    BY <2>2, <2>4, <2>5, BoundAssumption DEF IInv, SemaphoreState, PermitsAccounted
<1>9. ASSUME NEW j \in Jobs, ArmPrepare(j) PROVE SemaphoreState'
  <2>1. Running' = Running /\ permits' = permits
    BY <1>9 DEF ArmPrepare, Running, IInv, TypeOK
  <2>2. QED
    BY <2>1 DEF IInv, SemaphoreState, PermitsAccounted
<1>10. ASSUME NEW j \in Jobs, ArmResponds(j) PROVE SemaphoreState'
  <2>1. Running' = Running /\ permits' = permits
    BY <1>10 DEF ArmResponds, Running, IInv, TypeOK
  <2>2. QED
    BY <2>1 DEF IInv, SemaphoreState, PermitsAccounted
<1>11. ASSUME NEW j \in Jobs, ArmFails(j) PROVE SemaphoreState'
  <2>1. Running' = Running /\ permits' = permits
    BY <1>11 DEF ArmFails, Running, IInv, TypeOK
  <2>2. QED
    BY <2>1 DEF IInv, SemaphoreState, PermitsAccounted
<1>12. ASSUME NEW j \in Jobs, ArmFinish(j) PROVE SemaphoreState'
  <2>1. pc[j] = "summary" /\ pc' = [pc EXCEPT ![j] = "none"]
    BY <1>12 DEF ArmFinish
  <2>2. permits' = permits + 1 /\ permits \in Nat
    BY <1>12 DEF ArmFinish, PermitsAfter, IInv, TypeOK
  <2>3. Running' = Running \ {j} /\ j \in Running
    BY <2>1 DEF Running, IInv, TypeOK
  <2>4. Cardinality(Running') = Cardinality(Running) - 1 /\ IsFiniteSet(Running')
    BY <2>3, FS_RemoveElement DEF IInv, SemaphoreState
  <2>5. Cardinality(Running) \in Nat
    BY FS_CardinalityType DEF IInv, SemaphoreState
  <2>6. QED
    BY <2>2, <2>4, <2>5, BoundAssumption DEF IInv, SemaphoreState, PermitsAccounted
<1>13. CASE WriteBatch
  BY <1>13 DEF WriteBatch, armVars, Running, IInv, SemaphoreState, PermitsAccounted
<1>14. CASE Start \/ StartUnread
  BY <1>14 DEF Start, StartUnread, Starts, EmptySnapshot, armVars, Running, IInv, SemaphoreState, PermitsAccounted
<1>15. CASE SaveSnapshot
  BY <1>15 DEF SaveSnapshot, armVars, Running, IInv, SemaphoreState, PermitsAccounted
<1>16. CASE Close
  BY <1>16 DEF Close, armVars, Running, IInv, SemaphoreState, PermitsAccounted
<1>17. CASE CloseFinish
  BY <1>17, ProcessEndsCounts DEF CloseFinish, SaveRaises, EmptySnapshot
<1>18. CASE Kill
  BY <1>18, ProcessEndsCounts DEF Kill
<1>19. CASE KillDuringSave
  BY <1>19, ProcessEndsCounts DEF KillDuringSave
<1>20. CASE UNCHANGED vars
  BY <1>20 DEF vars, armVars, Running, IInv, SemaphoreState, PermitsAccounted
<1>21. QED
  BY <1>1, <1>2, <1>3, <1>4, <1>5, <1>6, <1>7, <1>8, <1>9, <1>10, <1>11,
     <1>12, <1>13, <1>14, <1>15, <1>16, <1>17, <1>18, <1>19, <1>20
     DEF Next, Callers, Worker, Arm, Process

-----------------------------------------------------------------------------
(* The inductive invariant and its consequences                            *)

\* IInv holds initially.
LEMMA IInvInit == Init => IInv
<1> SUFFICES ASSUME Init PROVE IInv
  OBVIOUS
<1>1. TypeOK
  BY JobAssumption, BoundAssumption DEF Init, TypeOK, EmptySnapshot, Snapshot,
     ArmPc, FutureVal
<1>2. Running = {} /\ IsFiniteSet({}) /\ Cardinality({}) = 0
  BY FS_EmptySet DEF Init, Running
<1>3. QED
  BY <1>1, <1>2, JobAssumption, BoundAssumption
     DEF Init, IInv, Places, DownIsEmpty, OwedJobsCarried, WorkerHoldsOne,
         KnownJobs, WaitersWait, SemaphoreState, PermitsAccounted, RunCounts,
          RunsToCome, OneRunPerLife,
         WaitingCallerHasJob, KeptIsSaved, Arms, EmptySnapshot

\* Only a close that saves what it leaves sets kept, and the file stays as it is
\* until the next start.
LEMMA KeptStep == IInv /\ [Next]_vars => KeptIsSaved'
<1> SUFFICES ASSUME IInv, [Next]_vars PROVE KeptIsSaved'
  OBVIOUS
<1>1. KeptIsSaved
  BY DEF IInv
<1>2. CASE CloseFinish
  <2>1. mode' = "down" /\ (kept' = {} \/ (kept' = owed /\ snap' = Dump))
    BY <1>2 DEF CloseFinish, ProcessEnds
  <2>2. owed = queue
    BY <1>2 DEF CloseFinish, Gathered, IInv, Places, OwedJobsCarried, WorkerHoldsOne
  <2> QED
    BY <2>1, <2>2 DEF KeptIsSaved, Dump
<1>3. CASE Start \/ StartUnread \/ Kill \/ KillDuringSave
  BY <1>3 DEF Start, StartUnread, Starts, Kill, KillDuringSave, KeptIsSaved
<1>4. CASE SaveSnapshot
  BY <1>1, <1>4 DEF SaveSnapshot, KeptIsSaved
<1>5. ASSUME UNCHANGED <<snap, kept>>, mode' = mode \/ mode # "down" PROVE KeptIsSaved'
  BY <1>1, <1>5 DEF KeptIsSaved
<1> QED
  BY <1>2, <1>3, <1>4, <1>5
     DEF Next, Callers, Worker, Arm, Process, SubmitBrain, PutUnblocks, CallerCancels,
         TrySubmitMessage, WorkerGet, WorkerSpawn, WorkerExit, ArmAcquire, ArmPrepare,
         ArmResponds, ArmFails, ArmFinish, WriteBatch, Close, vars

\* IInv is preserved by every step.
LEMMA IInvStep == IInv /\ [Next]_vars => IInv'
<1>1. IInv => TypeOK
  BY DEF IInv
<1>2. QED
  BY <1>1, TypeStep, PlacesStep, KnownStep, WaitersStep, PermitsStep, RunsStep,
     CallersStep, KeptStep DEF IInv

\* IInv holds in every reachable state.
THEOREM Invariance == Spec => []IInv
BY IInvInit, IInvStep, PTL DEF Spec

\* The semaphore never loses or gains a permit.
THEOREM SemaphoreSound == Spec => []PermitsAccounted
<1>1. IInv => PermitsAccounted
  BY DEF IInv, Places, SemaphoreState, RunCounts
<1>2. QED
  BY <1>1, Invariance, PTL

\* An accepted job is always in exactly one place until it is finished.
THEOREM JobsConserved == Spec => []OwedJobsCarried
<1>1. IInv => OwedJobsCarried
  BY DEF IInv, Places, SemaphoreState, RunCounts
<1>2. QED
  BY <1>1, Invariance, PTL

\* No caller waits for a job that is nowhere.
THEOREM NoOrphanedCaller == Spec => []WaitingCallerHasJob
<1>1. IInv => WaitingCallerHasJob
  BY DEF IInv, Places, SemaphoreState, RunCounts
<1>2. QED
  BY <1>1, Invariance, PTL

\* A job runs at most once in each life of the process.
THEOREM RunsBounded == Spec => []OneRunPerLife
<1>1. IInv => OneRunPerLife
  BY DEF IInv, Places, SemaphoreState, RunCounts
<1>2. QED
  BY <1>1, Invariance, PTL

\* What an orderly close did not finish and has saved without an exception comes
\* back with the next start, if the file can be read then.
THEOREM CloseLosesNothing == Spec => CloseKeepsJobs
<1>1. IInv /\ Start => kept \subseteq owed'
  BY DEF IInv, KeptIsSaved, Start, Starts
<1>2. IInv /\ [Next]_vars => [Start => kept \subseteq owed']_vars
  BY <1>1
<1>3. QED
  BY <1>2, Invariance, PTL DEF Spec, CloseKeepsJobs

\* What a caller was told is final.
THEOREM AnswersFinal == Spec => AnswerIsFinal
<1> DEFINE Final == \A j \in Jobs : future[j] \in Settled => future'[j] = future[j]
<1>1. ASSUME IInv, Next PROVE Final
  <2> USE <1>1 DEF IInv, TypeOK, KnownJobs, Settled, FutureVal
  <2>1. ASSUME NEW j \in BrainJobs, SubmitBrain(j) PROVE Final
    BY <2>1, JobAssumption DEF SubmitBrain, Number
  <2>2. ASSUME NEW j \in BrainJobs, CallerCancels(j) PROVE Final
    BY <2>2, JobAssumption DEF CallerCancels
  <2>3. ASSUME NEW j \in Jobs, ArmFinish(j) PROVE Final
    BY <2>3 DEF ArmFinish, Settle
  <2>4. CASE ProcessEnds
    BY <2>4 DEF ProcessEnds
  <2>5. CASE UNCHANGED future
    BY <2>5
  <2>6. QED
    BY <1>1, <2>1, <2>2, <2>3, <2>4, <2>5
       DEF Next, Callers, Worker, Arm, Process, PutUnblocks, TrySubmitMessage,
           WorkerGet, WorkerSpawn, WorkerExit, ArmAcquire, ArmPrepare,
           ArmResponds, ArmFails, WriteBatch, Start, StartUnread, Starts, SaveSnapshot, Close,
           CloseFinish, Kill, KillDuringSave
<1>2. IInv /\ [Next]_vars => [Final]_vars
  BY <1>1
<1>3. QED
  BY <1>2, Invariance, PTL DEF Spec, AnswerIsFinal

\* Nobody is answered before the ledger holds the outcome.
THEOREM AnswersRecorded == Spec => AnswerAfterLedger
<1> DEFINE Recorded ==
      \A j \in BrainJobs :
        future[j] = "pending" /\ future'[j] \in {"result", "error"}
        => \E r \in Keys(ledger) : r.job = j /\ r.ok = (future'[j] = "result")
<1>1. ASSUME IInv, Next PROVE Recorded
  <2> USE <1>1 DEF IInv, TypeOK, KnownJobs, FutureVal
  <2>1. ASSUME NEW j \in BrainJobs, SubmitBrain(j) PROVE Recorded
    BY <2>1, JobAssumption DEF SubmitBrain, Number
  <2>2. ASSUME NEW j \in BrainJobs, CallerCancels(j) PROVE Recorded
    BY <2>2, JobAssumption DEF CallerCancels
  <2>3. ASSUME NEW j \in Jobs, ArmFinish(j) PROVE Recorded
    <3>1. PICK ok \in BOOLEAN :
            /\ SummaryWritten(j, ok)
            /\ future' = Settle(future, j, IF ok THEN "result" ELSE "error")
      BY <2>3 DEF ArmFinish
    <3>2. PICK r \in Keys(ledger) : r.job = j /\ r.ok = ok
      BY <3>1 DEF SummaryWritten
    <3>3. \A k \in Jobs \ {j} : future'[k] = future[k]
      BY <3>1 DEF Settle
    <3>4. future[j] = "pending" => ok = (future'[j] = "result")
      BY <3>1 DEF Settle
    <3>5. QED
      BY <3>2, <3>3, <3>4, JobAssumption
  <2>4. CASE ProcessEnds
    BY <2>4, JobAssumption DEF ProcessEnds
  <2>5. CASE UNCHANGED future
    BY <2>5
  <2>6. QED
    BY <1>1, <2>1, <2>2, <2>3, <2>4, <2>5
       DEF Next, Callers, Worker, Arm, Process, PutUnblocks, TrySubmitMessage,
           WorkerGet, WorkerSpawn, WorkerExit, ArmAcquire, ArmPrepare,
           ArmResponds, ArmFails, WriteBatch, Start, StartUnread, Starts, SaveSnapshot, Close,
           CloseFinish, Kill, KillDuringSave
<1>2. IInv /\ [Next]_vars => [Recorded]_vars
  BY <1>1
<1>3. QED
  BY <1>2, Invariance, PTL DEF Spec, AnswerAfterLedger

-----------------------------------------------------------------------------
(* Summaries: sets of rows, and how the steps change them                  *)

\* The elements of two sequences in a row, and of one with one more.
LEMMA KeysOfConcat ==
  ASSUME NEW S, NEW p \in Seq(S), NEW q \in Seq(S)
  PROVE  Keys(p \o q) = Keys(p) \cup Keys(q)
<1>1. /\ Len(p \o q) = Len(p) + Len(q) /\ Len(p) \in Nat /\ Len(q) \in Nat
      /\ DOMAIN (p \o q) = 1..Len(p) + Len(q)
      /\ \A i \in 1..Len(p) : (p \o q)[i] = p[i]
      /\ \A i \in 1..Len(q) : (p \o q)[Len(p) + i] = q[i]
  OBVIOUS
<1>2. Keys(p) \cup Keys(q) \subseteq Keys(p \o q)
  <2>1. ASSUME NEW i \in DOMAIN p PROVE p[i] \in Keys(p \o q)
    <3>1. i \in DOMAIN (p \o q) /\ (p \o q)[i] = p[i]
      BY <1>1
    <3> QED
      BY <3>1 DEF Keys
  <2>2. ASSUME NEW i \in DOMAIN q PROVE q[i] \in Keys(p \o q)
    <3>1. Len(p) + i \in DOMAIN (p \o q) /\ (p \o q)[Len(p) + i] = q[i]
      BY <1>1
    <3> QED
      BY <3>1 DEF Keys
  <2> QED
    BY <2>1, <2>2 DEF Keys
<1>3. ASSUME NEW i \in DOMAIN (p \o q) PROVE (p \o q)[i] \in Keys(p) \cup Keys(q)
  <2>1. CASE i <= Len(p)
    BY <1>1, <2>1 DEF Keys
  <2>2. CASE i > Len(p)
    <3>1. i - Len(p) \in 1..Len(q) /\ (p \o q)[i] = q[i - Len(p)]
      BY <1>1, <2>2
    <3> QED
      BY <3>1 DEF Keys
  <2> QED
    BY <1>1, <2>1, <2>2
<1> QED
  BY <1>2, <1>3 DEF Keys

\* The elements of a sequence with one more.
LEMMA KeysOfAppend ==
  ASSUME NEW S, NEW p \in Seq(S), NEW e \in S
  PROVE  Keys(Append(p, e)) = Keys(p) \cup {e}
<1>1. /\ Len(Append(p, e)) = Len(p) + 1 /\ Len(p) \in Nat
      /\ DOMAIN Append(p, e) = 1..Len(p) + 1
      /\ \A i \in 1..Len(p) : Append(p, e)[i] = p[i]
      /\ Append(p, e)[Len(p) + 1] = e
  OBVIOUS
<1> QED
  BY <1>1 DEF Keys

\* Writing some of the waiting rows moves them to the ledger.
LEMMA BatchMoves ==
  ASSUME TypeOK, WriteBatch
  PROVE  /\ Keys(rows') \cup Keys(ledger') = Keys(rows) \cup Keys(ledger)
         /\ Keys(ledger) \subseteq Keys(ledger')
<1>1. PICK n \in 1..BatchSize :
        /\ n <= Len(rows)
        /\ ledger' = ledger \o SubSeq(rows, 1, n)
        /\ rows' = SubSeq(rows, n + 1, Len(rows))
  BY DEF WriteBatch
<1> DEFINE front == SubSeq(rows, 1, n)
           rest  == SubSeq(rows, n + 1, Len(rows))
<1>2. n \in Nat /\ n >= 1 /\ rows \in Seq(Row) /\ ledger \in Seq(Row)
  BY BoundAssumption DEF TypeOK
<1>3. /\ front \in Seq(Row) /\ Len(front) = n
      /\ \A i \in 1..n : front[i] = rows[i]
  BY <1>1, <1>2
<1>4. /\ rest \in Seq(Row) /\ Len(rest) = Len(rows) - n
      /\ \A i \in 1..Len(rest) : n + i \in DOMAIN rows /\ rest[i] = rows[n + i]
      /\ \A i \in n + 1..Len(rows) : i - n \in DOMAIN rest /\ rest[i - n] = rows[i]
  <2>1. rest \in Seq(Row) /\ Len(rest) = Len(rows) - n
    BY <1>1, <1>2, SubSeqProperties
  <2>2. \A i \in 1..Len(rest) : rest[i] = rows[(n + 1) + i - 1]
    BY <1>1, <1>2, <2>1, SubSeqProperties
  <2>3. \A i \in 1..Len(rest) : n + i \in DOMAIN rows /\ rest[i] = rows[n + i]
    BY <1>1, <1>2, <2>1, <2>2
  <2>4. ASSUME NEW i \in n + 1..Len(rows)
        PROVE  i - n \in DOMAIN rest /\ rest[i - n] = rows[i]
    BY <1>1, <1>2, <2>1, <2>3
  <2> HIDE DEF rest
  <2> QED
    BY <2>1, <2>3, <2>4
<1> HIDE DEF front, rest
<1>5. Keys(front) \cup Keys(rest) = Keys(rows)
  <2>1. Keys(front) \cup Keys(rest) \subseteq Keys(rows)
    <3>1. \A i \in DOMAIN front : i \in DOMAIN rows /\ front[i] = rows[i]
      BY <1>1, <1>2, <1>3
    <3>2. \A i \in DOMAIN rest : n + i \in DOMAIN rows /\ rest[i] = rows[n + i]
      BY <1>4
    <3> QED
      BY <3>1, <3>2 DEF Keys
  <2>2. ASSUME NEW i \in DOMAIN rows PROVE rows[i] \in Keys(front) \cup Keys(rest)
    <3>1. CASE i <= n
      BY <1>2, <1>3, <3>1 DEF Keys
    <3>2. CASE i > n
      <4>1. i - n \in DOMAIN rest /\ rest[i - n] = rows[i]
        BY <1>1, <1>2, <1>4, <3>2
      <4> QED
        BY <4>1 DEF Keys
    <3> QED
      BY <1>2, <3>1, <3>2
  <2> QED
    BY <2>1, <2>2 DEF Keys
<1>6. Keys(ledger \o front) = Keys(ledger) \cup Keys(front)
  BY <1>2, <1>3, KeysOfConcat
<1> QED
  BY <1>1, <1>5, <1>6 DEF front, rest

\* A summary is a row of some job.
LEMMA SummariesAreRows == TypeOK => Summaries \subseteq Row /\ \A r \in Row : r.job \in Jobs
<1> SUFFICES ASSUME TypeOK PROVE Summaries \subseteq Row
  BY DEF Row
<1>1. \A i \in DOMAIN rows : rows[i] \in Row
  BY DEF TypeOK
<1>2. \A i \in DOMAIN ledger : ledger[i] \in Row
  BY DEF TypeOK
<1> QED
  BY <1>1, <1>2 DEF Summaries, Keys

\* A step that adds no summary and leaves jobs with one where they are.
LEMMA OutcomesStay ==
  ASSUME OneOutcome, Summaries' \subseteq Summaries, submitted \subseteq submitted',
         \A r \in Summaries : r.job \notin putting' /\ (r.job \in owed' => pc'[r.job] = "summary")
  PROVE  OneOutcome'
BY DEF OneOutcome

\* An arm that ends its run adds the first summary of its job.
LEMMA OutcomeAdded ==
  ASSUME IInv, OneOutcome, NEW j \in Jobs, pc[j] \in {"started", "prepared"},
         NEW e \in Row, e.job = j,
         rows' = Append(rows, e), pc' = [pc EXCEPT ![j] = "summary"],
         UNCHANGED <<ledger, submitted, putting, owed>>
  PROVE  OneOutcome'
<1>1. rows \in Seq(Row) /\ ledger \in Seq(Row)
  BY DEF IInv, TypeOK
<1>2. Summaries' = Summaries \cup {e}
  BY <1>1, KeysOfAppend DEF Summaries
<1>3. j \in owed /\ j \in submitted \ putting
  BY DEF IInv, Places, OwedJobsCarried, Arms, KnownJobs
<1>4. \A r \in Summaries : r.job # j
  BY <1>3 DEF OneOutcome
<1>5. /\ \A k \in Jobs \ {j} : pc'[k] = pc[k]
      /\ pc'[j] = "summary"
  BY DEF IInv, TypeOK
<1>6. \A r \in Summaries : r.job \in Jobs
  BY SummariesAreRows DEF IInv
<1> QED
  BY <1>2, <1>3, <1>4, <1>5, <1>6 DEF OneOutcome

\* Every step leaves a job that has its outcome out of the queue.
LEMMA OneOutcomeStep == IInv /\ OneOutcome /\ [Next]_vars => OneOutcome'
<1> SUFFICES ASSUME IInv, OneOutcome, [Next]_vars PROVE OneOutcome'
  OBVIOUS
<1> USE JobAssumption
<1>1. /\ TypeOK
      /\ rows \in Seq(Row) /\ ledger \in Seq(Row) /\ pc \in [Jobs -> ArmPc]
      /\ owed \cap putting = {} /\ owed \cup putting \subseteq submitted
      /\ owed = queue \cup hand \cup Arms
      /\ queue \cap hand = {} /\ queue \cap Arms = {} /\ hand \cap Arms = {}
  BY DEF IInv, TypeOK, Places, OwedJobsCarried, KnownJobs
<1>2. \A r \in Summaries : r.job \in Jobs /\ r.job \in submitted \ putting
                           /\ (r.job \in owed => pc[r.job] = "summary")
  BY <1>1, SummariesAreRows DEF OneOutcome
<1>3. ASSUME UNCHANGED <<rows, ledger>> PROVE Summaries' = Summaries
  BY <1>3 DEF Summaries
<1>4. ASSUME NEW j \in Jobs, SubmitBrain(j) \/ TrySubmitMessage(j) PROVE OneOutcome'
  <2>1. /\ j \notin submitted /\ submitted' = submitted \cup {j}
        /\ owed' \subseteq owed \cup {j} /\ putting' \subseteq putting \cup {j}
        /\ UNCHANGED <<rows, ledger, pc>>
    BY <1>4 DEF SubmitBrain, TrySubmitMessage, Number, Enter, armVars, ledgerVars
  <2> QED
    BY <1>2, <1>3, <2>1, OutcomesStay
<1>5. ASSUME NEW j \in Jobs, PutUnblocks(j) PROVE OneOutcome'
  BY <1>2, <1>3, <1>5, OutcomesStay DEF PutUnblocks, Enter, armVars, ledgerVars
<1>6. ASSUME NEW j \in Jobs, CallerCancels(j) PROVE OneOutcome'
  BY <1>2, <1>3, <1>6, OutcomesStay DEF CallerCancels, armVars, ledgerVars, history
<1>7. ASSUME NEW j \in Jobs, pc[j] # "summary", j \in owed,
             \A k \in Jobs \ {j} : pc'[k] = pc[k],
             UNCHANGED <<rows, ledger, submitted, putting, owed>>
      PROVE  OneOutcome'
  BY <1>2, <1>3, <1>7, OutcomesStay
<1>8. ASSUME NEW j \in Jobs, WorkerSpawn(j) \/ ArmAcquire(j) \/ ArmPrepare(j)
      PROVE  OneOutcome'
  <2>1. CASE WorkerSpawn(j)
    <3>1. j \in hand /\ j \notin Arms /\ j \in owed
      BY <1>1, <2>1 DEF WorkerSpawn
    <3> QED
      BY <1>1, <1>7, <2>1, <3>1 DEF WorkerSpawn, Arms, ledgerVars, history
  <2>2. CASE ArmAcquire(j)
    <3>1. pc[j] = "waiting"
      BY <1>1, <2>2, HeadWaits DEF ArmAcquire, IInv
    <3> QED
      BY <1>1, <1>7, <2>2, <3>1 DEF ArmAcquire, Arms, ledgerVars, queueVars
  <2>3. CASE ArmPrepare(j)
    BY <1>1, <1>7, <2>3 DEF ArmPrepare, Arms, ledgerVars, queueVars, history
  <2> QED
    BY <1>8, <2>1, <2>2, <2>3
<1>9. ASSUME NEW j \in Jobs, ArmResponds(j) PROVE OneOutcome'
  <2> DEFINE e == [job |-> j, ok |-> TRUE, turn |-> turn'[SessionOf[j]]]
  <2>1. turn' \in [Sessions -> Nat]
    BY TypeStep DEF IInv, TypeOK
  <2>2. e \in Row /\ e.job = j
    BY <2>1 DEF Row
  <2> QED
    BY <1>9, <2>2, OutcomeAdded DEF ArmResponds, queueVars, history
<1>10. ASSUME NEW j \in Jobs, ArmFails(j) PROVE OneOutcome'
  <2> DEFINE e == [job |-> j, ok |-> FALSE, turn |-> turn'[SessionOf[j]]]
  <2>1. turn' \in [Sessions -> Nat]
    BY TypeStep DEF IInv, TypeOK
  <2>2. e \in Row /\ e.job = j
    BY <2>1 DEF Row
  <2> QED
    BY <1>10, <2>2, OutcomeAdded DEF ArmFails, queueVars, history
<1>11. ASSUME NEW j \in Jobs, ArmFinish(j) PROVE OneOutcome'
  <2>1. /\ \A k \in Jobs \ {j} : pc'[k] = pc[k]
        /\ owed' = owed \ {j} /\ UNCHANGED <<rows, ledger, putting, submitted>>
    BY <1>1, <1>11 DEF ArmFinish, ledgerVars, queueVars
  <2> QED
    BY <1>2, <1>3, <2>1, OutcomesStay
<1>12. CASE WriteBatch
  <2>1. Summaries' = Summaries
    BY <1>1, <1>12, BatchMoves DEF Summaries
  <2> QED
    BY <1>2, <1>12, <2>1, OutcomesStay DEF WriteBatch, queueVars, armVars, history
<1>13. CASE Start \/ StartUnread
  <2>1. Summaries' = {}
    BY <1>13 DEF Start, StartUnread, Starts, EmptySnapshot, Summaries, Keys, IInv, Places, DownIsEmpty, ledgerVars
  <2> QED
    BY <2>1 DEF OneOutcome
<1>14. CASE ProcessEnds
  <2>1. Summaries' = {}
    BY <1>14 DEF ProcessEnds, Summaries, Keys
  <2> QED
    BY <2>1 DEF OneOutcome
<1>15. CASE \/ (\E j \in Jobs : WorkerGet(j)) \/ WorkerExit \/ SaveSnapshot \/ Close
            \/ UNCHANGED vars
  <2>1. UNCHANGED <<rows, ledger, submitted, putting, owed, pc>>
    BY <1>15 DEF WorkerGet, WorkerExit, SaveSnapshot, Close, vars, queueVars, armVars,
                 ledgerVars, history
  <2> QED
    BY <1>2, <1>3, <2>1, OutcomesStay
<1> QED
  BY <1>4, <1>5, <1>6, <1>8, <1>9, <1>10, <1>11, <1>12, <1>13, <1>14, <1>15
     DEF Next, Callers, Worker, Arm, Process, CloseFinish, Kill, KillDuringSave

\* Nobody but the caller that blocks in it has a put, or a future.
LEMMA PutsAwaitedStep == IInv /\ PutsAwaited /\ [Next]_vars => PutsAwaited'
<1> SUFFICES ASSUME IInv, PutsAwaited, [Next]_vars PROVE PutsAwaited'
  OBVIOUS
<1> USE JobAssumption
<1>1. /\ TypeOK
      /\ future \in [Jobs -> FutureVal] /\ putting \subseteq BrainJobs
      /\ owed \cap putting = {} /\ owed \cup putting \subseteq submitted
      /\ Arms \subseteq owed
  BY DEF IInv, TypeOK, Places, OwedJobsCarried, KnownJobs
<1>2. ASSUME NEW j \in BrainJobs, SubmitBrain(j) \/ PutUnblocks(j) \/ CallerCancels(j)
      PROVE  PutsAwaited'
  <2>1. CASE SubmitBrain(j)
    BY <1>1, <2>1 DEF SubmitBrain, PutsAwaited
  <2>2. CASE PutUnblocks(j)
    BY <2>2 DEF PutUnblocks, PutsAwaited
  <2>3. CASE CallerCancels(j)
    BY <1>1, <2>3 DEF CallerCancels, PutsAwaited
  <2> QED
    BY <1>2, <2>1, <2>2, <2>3
<1>3. ASSUME NEW j \in Jobs, ArmFinish(j) PROVE PutsAwaited'
  <2>1. j \in Arms /\ j \notin putting
    BY <1>1, <1>3 DEF ArmFinish, Arms
  <2>2. putting' = putting
    BY <1>3 DEF ArmFinish, queueVars
  <2>3. \A k \in Jobs : future'[k] = future[k] \/ (k = j /\ future[j] = "pending")
    BY <1>1, <1>3 DEF ArmFinish, Settle
  <2> QED
    BY <1>1, <2>1, <2>2, <2>3 DEF PutsAwaited
<1>4. CASE ProcessEnds
  BY <1>4 DEF ProcessEnds, PutsAwaited
<1>5. CASE UNCHANGED <<putting, future>>
  BY <1>5 DEF PutsAwaited
<1>6. ASSUME NEW j \in Jobs,
             \/ TrySubmitMessage(j) \/ WorkerGet(j) \/ WorkerSpawn(j) \/ ArmAcquire(j)
             \/ ArmPrepare(j) \/ ArmResponds(j) \/ ArmFails(j)
      PROVE  UNCHANGED <<putting, future>>
  BY <1>6 DEF TrySubmitMessage, WorkerGet, WorkerSpawn, ArmAcquire, ArmPrepare,
     ArmResponds, ArmFails, queueVars
<1>7. CASE WorkerExit \/ WriteBatch \/ Start \/ StartUnread \/ SaveSnapshot \/ Close \/ UNCHANGED vars
  BY <1>5, <1>7 DEF WorkerExit, WriteBatch, Start, StartUnread, Starts, SaveSnapshot, Close, vars, queueVars
<1> QED
  BY <1>2, <1>3, <1>4, <1>5, <1>6, <1>7
     DEF Next, Callers, Worker, Arm, Process, CloseFinish, Kill, KillDuringSave

-----------------------------------------------------------------------------
(* The job service: the stage of each job                                  *)

\* What the service says of a job, by the place the conductor has it in.
PlacesSay ==
  \A j \in Jobs :
    /\ Stages[j] = StageOf(j)
    /\ j \in queue \cup hand \/ pc[j] = "waiting" => Stages[j] = "accepted"
    /\ pc[j] \in {"started", "prepared"} => Stages[j] = "serving"
    /\ pc[j] = "summary" =>
         Stages[j] = IF SummaryWritten(j, TRUE) THEN "succeeded"
                     ELSE IF SummaryWritten(j, FALSE) THEN "failed" ELSE "serving"
    /\ j \notin owed => Stages[j] = "idle"
    /\ Stages[j] = "idle" => j \notin owed

\* The stage follows from the place, and idle means not owed.
LEMMA StagesSay == IInv => PlacesSay
<1> SUFFICES ASSUME IInv, NEW j \in Jobs
             PROVE  /\ Stages[j] = StageOf(j)
                    /\ j \in queue \cup hand \/ pc[j] = "waiting" => StageOf(j) = "accepted"
                    /\ pc[j] \in {"started", "prepared"} => StageOf(j) = "serving"
                    /\ pc[j] = "summary" =>
                         StageOf(j) = IF SummaryWritten(j, TRUE) THEN "succeeded"
                                     ELSE IF SummaryWritten(j, FALSE) THEN "failed" ELSE "serving"
                    /\ j \notin owed => StageOf(j) = "idle"
                    /\ StageOf(j) = "idle" => j \notin owed
  BY Zenon DEF PlacesSay, Stages
<1>1. Stages[j] = StageOf(j)
  BY DEF Stages
<1>2. /\ owed = queue \cup hand \cup Arms /\ pc[j] \in ArmPc
      /\ j \in Arms <=> pc[j] # "none"
      /\ queue \cap Arms = {} /\ hand \cap Arms = {}
  BY DEF IInv, TypeOK, Places, OwedJobsCarried, Arms
<1>3. CASE j \in queue \cup hand \/ pc[j] = "waiting"
  BY <1>1, <1>2, <1>3 DEF StageOf, ArmPc
<1>4. CASE pc[j] \in {"started", "prepared"}
  BY <1>1, <1>2, <1>4 DEF StageOf, ArmPc
<1>5. CASE pc[j] = "summary"
  BY <1>1, <1>2, <1>5 DEF StageOf, ArmPc
<1>6. CASE pc[j] = "none" /\ j \notin queue \cup hand
  BY <1>1, <1>2, <1>6 DEF StageOf, ArmPc
<1> QED
  BY <1>2, <1>3, <1>4, <1>5, <1>6 DEF ArmPc

\* The same of the next state.
LEMMA StagesSayNext == (IInv => PlacesSay)'
BY StagesSay, PTL

-----------------------------------------------------------------------------
(* The job service: the invariant, and every step as one of the service    *)

\* At first there are no summaries, puts and futures.
LEMMA ServiceInvInit == Init => ServiceInv
<1> SUFFICES ASSUME Init PROVE ServiceInv
  OBVIOUS
<1>1. Summaries = {}
  BY DEF Init, Summaries, Keys
<1> QED
  BY <1>1, IInvInit, JobAssumption DEF Init, ServiceInv, OneOutcome, PutsAwaited

\* Together with the outcomes and the puts the invariant is inductive.
THEOREM ServiceInvariance == Spec => []ServiceInv
<1>1. ServiceInv /\ [Next]_vars => ServiceInv'
  BY IInvStep, OneOutcomeStep, PutsAwaitedStep DEF ServiceInv
<1> QED
  BY <1>1, ServiceInvInit, PTL DEF Spec

\* A job whose place does not change keeps its stage.
LEMMA StageKept ==
  ASSUME NEW k \in Jobs, UNCHANGED ledger, pc'[k] = pc[k],
         k \in queue' \cup hand' <=> k \in queue \cup hand
  PROVE  Stages'[k] = Stages[k]
BY DEF Stages, StageOf, SummaryWritten

\* What it takes for one job's stage to change.
LEMMA StageMoves ==
  ASSUME NEW j \in Jobs, NEW s, Stages'[j] = s,
         \A k \in Jobs \ {j} : Stages'[k] = Stages[k]
  PROVE  Stages' = [Stages EXCEPT ![j] = s]
<1>1. Stages = [k \in Jobs |-> Stages[k]] /\ Stages' = [k \in Jobs |-> Stages'[k]]
  BY DEF Stages
<1> QED
  BY <1>1

\* What it takes for none to change.
LEMMA StagesStay ==
  ASSUME \A k \in Jobs : Stages'[k] = Stages[k] PROVE Stages' = Stages
<1>1. Stages = [k \in Jobs |-> Stages[k]] /\ Stages' = [k \in Jobs |-> Stages'[k]]
  BY DEF Stages
<1> QED
  BY <1>1

\* The jobs that hold a server are those inside the semaphore.
LEMMA HeldRun == IInv => Service!Held = Running
<1> SUFFICES ASSUME IInv, NEW j \in Jobs
             PROVE  Stages[j] \in {"serving", "succeeded", "failed"} <=>
                    pc[j] \in {"started", "prepared", "summary"}
  BY DEF Service!Held, Running
<1>1. PlacesSay /\ pc[j] \in ArmPc /\ owed = queue \cup hand \cup Arms
  BY StagesSay DEF IInv, TypeOK, Places, OwedJobsCarried
<1>2. pc[j] = "none" => j \in queue \cup hand \/ j \notin owed
  BY <1>1 DEF Arms
<1> QED
  BY <1>1, <1>2 DEF PlacesSay, ArmPc

\* A step that moves no job and writes nothing is invisible to the service.
LEMMA StageStutter ==
  ASSUME UNCHANGED <<ledger, pc, future>>, queue' \cup hand' = queue \cup hand
  PROVE  UNCHANGED <<Stages, future>>
BY StageKept, StagesStay

\* An arm that has served its job keeps the server until the row is written.
LEMMA SummaryStutter ==
  ASSUME IInv, IInv', OneOutcome, NEW j \in Jobs,
         pc[j] \in {"started", "prepared"}, pc'[j] = "summary",
         \A k \in Jobs \ {j} : pc'[k] = pc[k],
         UNCHANGED <<ledger, queue, hand, future>>
  PROVE  UNCHANGED <<Stages, future>>
<1>1. \A k \in Jobs \ {j} : Stages'[k] = Stages[k]
  BY StageKept
<1>2. PlacesSay /\ PlacesSay'
  BY StagesSay, StagesSayNext
<1>3. \A r \in Keys(ledger) : r.job # j
  <2>1. j \in owed
    BY DEF IInv, Places, OwedJobsCarried, Arms
  <2> QED
    BY <2>1 DEF OneOutcome, Summaries
<1>4. Stages[j] = "serving" /\ Stages'[j] = "serving"
  BY <1>2, <1>3 DEF PlacesSay, SummaryWritten
<1> QED
  BY <1>1, <1>4, StagesStay

\* A submission is the service's, accepted at once, later or never.
LEMMA SubmissionMaps ==
  ASSUME IInv, IInv', NEW j \in Jobs, SubmitBrain(j) \/ TrySubmitMessage(j)
  PROVE  Service!Submit(j)
<1>1. PlacesSay /\ PlacesSay'
  BY StagesSay, StagesSayNext
<1>2. /\ j \notin submitted /\ owed \subseteq submitted
      /\ future[j] = "none" /\ future \in [Jobs -> FutureVal]
  BY DEF SubmitBrain, TrySubmitMessage, Number, IInv, TypeOK, KnownJobs
<1>3. /\ UNCHANGED <<ledger, pc, hand>>
      /\ queue' \subseteq queue \cup {j} /\ queue \subseteq queue'
      /\ queue' = queue => owed' = owed
      /\ \E r \in {"none", "pending"} : future' = [future EXCEPT ![j] = r]
  <2>1. future = [future EXCEPT ![j] = "none"]
    BY <1>2
  <2>2. UNCHANGED <<ledger, pc, hand>>
    BY DEF SubmitBrain, TrySubmitMessage, armVars, ledgerVars
  <2>3. \/ queue' = queue \cup {j} /\ owed' = owed \cup {j}
        \/ queue' = queue /\ owed' = owed
    BY DEF SubmitBrain, TrySubmitMessage, Enter
  <2>4. \/ future' = [future EXCEPT ![j] = "pending"]
        \/ future' = [future EXCEPT ![j] = "none"]
    BY <2>1 DEF SubmitBrain, TrySubmitMessage
  <2>5. j \in queue => j \in owed
    BY DEF IInv, Places, OwedJobsCarried
  <2>6. queue' = queue => owed' = owed
    BY <2>3, <2>5
  <2> QED
    BY <2>2, <2>3, <2>4, <2>6
<1>4. Stages[j] = "idle"
  BY <1>1, <1>2 DEF PlacesSay
<1>5. \A k \in Jobs \ {j} : Stages'[k] = Stages[k]
  BY <1>3, StageKept
<1>6. Stages'[j] \in {"idle", "accepted"}
  BY <1>1, <1>2, <1>3 DEF PlacesSay
<1>7. Stages' = [Stages EXCEPT ![j] = Stages'[j]]
  BY <1>5, StageMoves
<1> QED
  BY <1>2, <1>3, <1>4, <1>6, <1>7 DEF Service!Submit

\* A put that gets its slot is an acceptance by the service.
LEMMA UnblockMaps ==
  ASSUME IInv, IInv', PutsAwaited, NEW j \in Jobs, PutUnblocks(j)
  PROVE  Service!Accept(j)
<1>1. PlacesSay /\ PlacesSay'
  BY StagesSay, StagesSayNext
<1>2. /\ j \in putting /\ j \notin owed /\ future[j] = "pending"
  BY DEF PutUnblocks, IInv, KnownJobs, PutsAwaited
<1>3. UNCHANGED <<ledger, pc, hand, future>> /\ queue' = queue \cup {j}
  BY DEF PutUnblocks, Enter, armVars, ledgerVars
<1>4. Stages[j] = "idle" /\ Stages'[j] = "accepted"
  BY <1>1, <1>2, <1>3 DEF PlacesSay
<1>5. \A k \in Jobs \ {j} : Stages'[k] = Stages[k]
  BY <1>3, StageKept
<1> QED
  BY <1>2, <1>3, <1>4, <1>5, StageMoves DEF Service!Accept

\* An arm that gets a permit is a server that was free.
LEMMA AcquireMaps ==
  ASSUME IInv, IInv', NEW j \in Jobs, ArmAcquire(j)
  PROVE  Service!Serve(j)
<1>1. PlacesSay /\ PlacesSay'
  BY StagesSay, StagesSayNext
<1>2. pc[j] = "waiting" /\ pc \in [Jobs -> ArmPc]
  BY HeadWaits DEF ArmAcquire, IInv, TypeOK
<1>3. /\ UNCHANGED <<ledger, queue, hand, future>> /\ pc'[j] = "started"
      /\ \A k \in Jobs \ {j} : pc'[k] = pc[k]
  BY <1>2 DEF ArmAcquire, queueVars, ledgerVars
<1>4. Cardinality(Service!Held) < MaxArms
  <2>1. Cardinality(Running) \in Nat /\ permits > 0 /\ permits \in Nat
    BY FS_CardinalityType DEF ArmAcquire, IInv, SemaphoreState, TypeOK
  <2>2. permits + Cardinality(Running) = MaxArms /\ MaxArms \in Nat
    BY BoundAssumption DEF IInv, SemaphoreState, PermitsAccounted
  <2> QED
    BY <2>1, <2>2, HeldRun
<1>7. Service!Cardinality(Service!Held) = Cardinality(Service!Held)
  BY Zenon DEF Service!Cardinality, Cardinality
<1>5. Stages[j] = "accepted" /\ Stages'[j] = "serving"
  BY <1>1, <1>2, <1>3 DEF PlacesSay
<1>6. \A k \in Jobs \ {j} : Stages'[k] = Stages[k]
  BY <1>3, StageKept
<1> QED
  BY <1>3, <1>4, <1>5, <1>6, <1>7, StageMoves DEF Service!Serve

\* A batch records the outcomes of served jobs, once and for all.
LEMMA BatchMaps ==
  ASSUME IInv, IInv', OneOutcome, WriteBatch
  PROVE  Service!Record
<1>1. PlacesSay /\ PlacesSay'
  BY StagesSay, StagesSayNext
<1>2. UNCHANGED <<queue, hand, pc, future>> /\ owed' = owed
  BY DEF WriteBatch, queueVars, armVars, history
<1>3. Keys(ledger) \subseteq Keys(ledger') /\ Keys(ledger') \subseteq Summaries
  BY BatchMoves DEF IInv, Summaries
<1>4. ASSUME NEW j \in Jobs, Stages'[j] # Stages[j]
      PROVE  Stages[j] = "serving" /\ Stages'[j] \in {"succeeded", "failed"}
  <2>1. pc[j] = "summary"
    <3>1. pc[j] \in ArmPc
      BY DEF IInv, TypeOK
    <3>2. pc[j] = "none" /\ j \notin queue \cup hand => j \notin owed
      BY DEF IInv, Places, OwedJobsCarried, Arms
    <3> QED
      BY <1>1, <1>2, <1>4, <3>1, <3>2 DEF PlacesSay, ArmPc
  <2>2. SummaryWritten(j, TRUE) => SummaryWritten(j, TRUE)'
    BY <1>3 DEF SummaryWritten
  <2>3. SummaryWritten(j, FALSE) => SummaryWritten(j, FALSE)' /\ ~SummaryWritten(j, TRUE)'
    BY <1>3 DEF SummaryWritten, OneOutcome
  <2>4. Stages[j] = IF SummaryWritten(j, TRUE) THEN "succeeded"
                    ELSE IF SummaryWritten(j, FALSE) THEN "failed" ELSE "serving"
    BY <1>1, <2>1 DEF PlacesSay
  <2>5. Stages'[j] = IF SummaryWritten(j, TRUE)' THEN "succeeded"
                     ELSE IF SummaryWritten(j, FALSE)' THEN "failed" ELSE "serving"
    BY <1>1, <1>2, <2>1 DEF PlacesSay
  <2> QED
    BY <1>4, <2>2, <2>3, <2>4, <2>5
<1>5. Stages' \in [Jobs -> Service!Stage]
  <2>1. \A j \in Jobs : StageOf(j)' \in Service!Stage
    BY DEF StageOf, Service!Stage
  <2> QED
    BY <2>1 DEF Stages
<1> QED
  BY <1>2, <1>4, <1>5 DEF Service!Record

\* The caller hears what the ledger says.
LEMMA FinishMaps ==
  ASSUME IInv, IInv', OneOutcome, NEW j \in Jobs, ArmFinish(j)
  PROVE  Service!Finish(j)
<1>1. PlacesSay /\ PlacesSay'
  BY StagesSay, StagesSayNext
<1>2. PICK ok \in BOOLEAN :
        /\ SummaryWritten(j, ok)
        /\ future' = Settle(future, j, IF ok THEN "result" ELSE "error")
  BY DEF ArmFinish
<1>3. /\ UNCHANGED <<ledger, queue, hand>> /\ pc[j] = "summary" /\ pc'[j] = "none"
      /\ \A k \in Jobs \ {j} : pc'[k] = pc[k]
      /\ owed' = owed \ {j}
  BY DEF ArmFinish, queueVars, ledgerVars, IInv, TypeOK
<1>4. Stages[j] = IF ok THEN "succeeded" ELSE "failed"
  <2>1. ~ok => ~SummaryWritten(j, TRUE)
    BY <1>2 DEF SummaryWritten, OneOutcome, Summaries
  <2> QED
    BY <1>1, <1>2, <1>3, <2>1 DEF PlacesSay
<1>5. Stages'[j] = "idle"
  BY <1>1, <1>3 DEF PlacesSay
<1>6. \A k \in Jobs \ {j} : Stages'[k] = Stages[k]
  BY <1>3, StageKept
<1>7. Stages' = [Stages EXCEPT ![j] = "idle"]
  BY <1>5, <1>6, StageMoves
<1> QED
  BY <1>2, <1>4, <1>7 DEF Service!Finish, Settle

\* A caller that is cancelled is a client that gives up.
LEMMA CancelMaps ==
  ASSUME NEW j \in Jobs, CallerCancels(j) PROVE Service!Cancel(j)
<1>1. UNCHANGED <<ledger, pc, queue, hand>>
  BY DEF CallerCancels, armVars, ledgerVars
<1>2. Stages' = Stages
  BY <1>1, StageKept, StagesStay
<1> QED
  BY <1>2 DEF CallerCancels, Service!Cancel

\* The end of the process stops the service.
LEMMA EndMaps == ASSUME ProcessEnds, IInv' PROVE Service!Stop
<1>1. PlacesSay'
  BY StagesSayNext
<1>2. \A j \in Jobs : Stages'[j] = "idle"
  BY <1>1 DEF PlacesSay, ProcessEnds
<1>3. Stages' = [j \in Jobs |-> "idle"]
  BY <1>2 DEF Stages
<1> QED
  BY <1>3 DEF ProcessEnds, Service!Stop

\* A start takes up the jobs of the snapshot, or of none if it cannot be read.
LEMMA StartMaps ==
  ASSUME IInv, IInv', PutsAwaited, Start \/ StartUnread PROVE Service!Resume
<1> USE JobAssumption
<1>1. PlacesSay /\ PlacesSay'
  BY StagesSay, StagesSayNext
<1>2. PICK data \in {snap, EmptySnapshot} : Starts(data)
  BY DEF Start, StartUnread
<1>3. /\ queue = {} /\ putting = {} /\ hand = {} /\ Arms = {} /\ owed = {}
      /\ data.jobs \subseteq Jobs
  BY <1>2 DEF Starts, EmptySnapshot, IInv, TypeOK, Places, DownIsEmpty, OwedJobsCarried, Snapshot
<1>4. \A j \in Jobs : Stages[j] = "idle" /\ future[j] # "pending"
  BY <1>1, <1>3 DEF PlacesSay, PutsAwaited, IInv, WaitingCallerHasJob
<1>5. queue' = data.jobs /\ owed' = data.jobs /\ future' = future
  BY <1>2 DEF Starts
<1>6. \A j \in Jobs : Stages'[j] = IF j \in data.jobs THEN "accepted" ELSE "idle"
  BY <1>1, <1>5 DEF PlacesSay
<1>7. Stages' = [j \in Jobs |-> IF j \in data.jobs THEN "accepted" ELSE "idle"]
  <2>1. Stages' = [j \in Jobs |-> Stages'[j]]
    BY DEF Stages
  <2> QED
    BY <1>6, <2>1
<1> QED
  BY <1>3, <1>4, <1>5, <1>7 DEF Service!Resume

\* Every step of the conductor is a step of the service or none.
LEMMA ServiceStep ==
  ServiceInv /\ [Next]_vars => [Service!Next]_<<Stages, future>>
<1> SUFFICES ASSUME ServiceInv, [Next]_vars
             PROVE  Service!Next \/ UNCHANGED <<Stages, future>>
  OBVIOUS
<1> USE JobAssumption
<1>1. IInv /\ IInv' /\ OneOutcome /\ PutsAwaited
  BY IInvStep DEF ServiceInv
<1>2. ASSUME NEW j \in Jobs, SubmitBrain(j) \/ TrySubmitMessage(j) PROVE Service!Next
  BY <1>1, <1>2, SubmissionMaps DEF Service!Next
<1>3. ASSUME NEW j \in Jobs, PutUnblocks(j) PROVE Service!Next
  BY <1>1, <1>3, UnblockMaps DEF Service!Next
<1>4. ASSUME NEW j \in Jobs, CallerCancels(j) PROVE Service!Next
  BY <1>4, CancelMaps DEF Service!Next
<1>5. ASSUME NEW j \in Jobs, ArmAcquire(j) PROVE Service!Next
  BY <1>1, <1>5, AcquireMaps DEF Service!Next
<1>6. ASSUME NEW j \in Jobs, ArmFinish(j) PROVE Service!Next
  BY <1>1, <1>6, FinishMaps DEF Service!Next
<1>7. CASE WriteBatch
  BY <1>1, <1>7, BatchMaps DEF Service!Next
<1>8. CASE Start \/ StartUnread
  BY <1>1, <1>8, StartMaps DEF Service!Next
<1>9. CASE ProcessEnds
  BY <1>1, <1>9, EndMaps DEF Service!Next
<1>10. ASSUME NEW j \in Jobs, ArmResponds(j) \/ ArmFails(j)
       PROVE  UNCHANGED <<Stages, future>>
  <2>1. pc \in [Jobs -> ArmPc]
    BY <1>1 DEF IInv, TypeOK
  <2> QED
    BY <1>1, <1>10, <2>1, SummaryStutter DEF ArmResponds, ArmFails, queueVars
<1>11. ASSUME NEW j \in Jobs, WorkerSpawn(j) PROVE UNCHANGED <<Stages, future>>
  <2>1. hand = {j} /\ hand' = {} /\ j \notin queue /\ pc[j] = "none" /\ pc \in [Jobs -> ArmPc]
    BY <1>1, <1>11 DEF WorkerSpawn, IInv, TypeOK, Places, WorkerHoldsOne, OwedJobsCarried, Arms
  <2>2. UNCHANGED <<ledger, queue, future>> /\ pc'[j] = "waiting"
        /\ \A k \in Jobs \ {j} : pc'[k] = pc[k]
    BY <1>11, <2>1 DEF WorkerSpawn, ledgerVars
  <2>3. \A k \in Jobs \ {j} : Stages'[k] = Stages[k]
    BY <2>1, <2>2, StageKept
  <2>4. Stages[j] = "accepted" /\ Stages'[j] = "accepted"
    BY <1>1, <2>1, <2>2, StagesSay, StagesSayNext DEF PlacesSay
  <2> QED
    BY <2>2, <2>3, <2>4, StagesStay
<1>12. ASSUME NEW j \in Jobs, ArmPrepare(j) PROVE UNCHANGED <<Stages, future>>
  <2>1. /\ pc[j] = "started" /\ pc'[j] = "prepared" /\ UNCHANGED <<ledger, queue, hand, future>>
        /\ \A k \in Jobs \ {j} : pc'[k] = pc[k]
    BY <1>1, <1>12 DEF ArmPrepare, ledgerVars, queueVars, IInv, TypeOK
  <2>2. \A k \in Jobs \ {j} : Stages'[k] = Stages[k]
    BY <2>1, StageKept
  <2>3. Stages[j] = "serving" /\ Stages'[j] = "serving"
    BY <1>1, <2>1, StagesSay, StagesSayNext DEF PlacesSay
  <2> QED
    BY <2>1, <2>2, <2>3, StagesStay
<1>13. ASSUME NEW j \in Jobs, WorkerGet(j) PROVE UNCHANGED <<Stages, future>>
  <2>1. queue' \cup hand' = queue \cup hand /\ UNCHANGED <<ledger, pc, future>>
    BY <1>13 DEF WorkerGet, Frontmost, armVars, ledgerVars
  <2> QED
    BY <2>1, StageStutter
<1>14. CASE WorkerExit \/ SaveSnapshot \/ Close \/ UNCHANGED vars
  <2>1. UNCHANGED <<ledger, pc, future, queue, hand>>
    BY <1>14 DEF WorkerExit, SaveSnapshot, Close, vars, armVars, ledgerVars, queueVars
  <2> QED
    BY <2>1, StageStutter
<1> QED
  BY <1>2, <1>3, <1>4, <1>5, <1>6, <1>7, <1>8, <1>9, <1>10, <1>11, <1>12, <1>13, <1>14
     DEF Next, Callers, Worker, Arm, Process, CloseFinish, Kill, KillDuringSave

\* The conductor implements the job service, crashes and restarts included.
THEOREM ConductorImplementsService == Spec => ImplementsService
<1>1. Init => Service!Init
  <2> SUFFICES ASSUME Init PROVE Stages = [j \in Jobs |-> "idle"] /\ future = [j \in Jobs |-> "none"]
    BY DEF Service!Init
  <2>1. PlacesSay
    BY IInvInit, StagesSay
  <2> QED
    BY <2>1 DEF PlacesSay, Stages, Init
<1> QED
  BY <1>1, ServiceStep, ServiceInvariance, PTL DEF Spec, ImplementsService, Service!Spec, Service!vars

-----------------------------------------------------------------------------
(* The session table lists each session once                               *)

\* A sequence without repetitions has no more elements than the set it is from.
LEMMA DistinctFits ==
  ASSUME NEW S, IsFiniteSet(S), NEW o \in Seq(S),
         \A i, k \in DOMAIN o : o[i] = o[k] => i = k
  PROVE  Len(o) <= Cardinality(S)
<1>1. Cardinality(S) \in Nat /\ Len(o) \in Nat
  BY FS_CardinalityType
<1>2. IsFiniteSet(1..Len(o)) /\ Cardinality(1..Len(o)) = Len(o)
  <2>0. 1 \in Int /\ Len(o) \in Int
    BY <1>1
  <2>1. IsFiniteSet(1..Len(o)) /\ Cardinality(1..Len(o)) = IF 1 > Len(o) THEN 0 ELSE Len(o) - 1 + 1
    BY <2>0, FS_Interval, Zenon
  <2> QED
    BY <1>1, <2>1
<1>3. o \in [1..Len(o) -> S]
  OBVIOUS
<1>4. ~(Cardinality(S) < Cardinality(1..Len(o)))
  <2> SUFFICES ASSUME Cardinality(S) < Cardinality(1..Len(o)) PROVE FALSE
    OBVIOUS
  <2>1. \E i, k \in 1..Len(o) : i # k /\ o[i] = o[k]
    BY <1>2, <1>3, FS_PigeonHole
  <2> QED
    BY <2>1
<1> QED
  BY <1>1, <1>2, <1>4

\* Taking a key out of a table without repetitions leaves one, without the key.
LEMMA WithoutDistinct ==
  ASSUME NEW o \in Seq(Sessions), NEW s \in Sessions,
         \A i, k \in DOMAIN o : o[i] = o[k] => i = k
  PROVE  LET w == Without(o, s) IN
         /\ \A i, k \in DOMAIN w : w[i] = w[k] => i = k
         /\ s \notin Keys(w)
<1>1. CASE s \notin Keys(o)
  BY <1>1 DEF Without
<1>2. CASE s \in Keys(o)
  <2> DEFINE i == CHOOSE n \in DOMAIN o : o[n] = s
             front == SubSeq(o, 1, i - 1)
             rest  == SubSeq(o, i + 1, Len(o))
             w == front \o rest
  <2>1. i \in 1..Len(o) /\ o[i] = s
    BY <1>2 DEF Keys
  <2>2. Without(o, s) = w
    BY <1>2 DEF Without
  <2> HIDE DEF i
  <2>3. \A n \in 1..Len(o) : o[n] \in Sessions
    OBVIOUS
  <2>4. /\ front \in Seq(Sessions) /\ Len(front) = i - 1
        /\ \A n \in 1..i - 1 : front[n] = o[n]
    <3>1. \A n \in 1..(i - 1) - 1 + 1 : front[n] = o[1 + n - 1]
      BY <2>1, <2>3, SubSeqProperties
    <3>2. front \in Seq(Sessions) /\ Len(front) = i - 1
      BY <2>1, <2>3, SubSeqProperties
    <3>3. \A n \in 1..i - 1 : n \in 1..(i - 1) - 1 + 1 /\ 1 + n - 1 = n
      BY <2>1
    <3> HIDE DEF front
    <3> QED
      BY <3>1, <3>2, <3>3
  <2>5. /\ rest \in Seq(Sessions) /\ Len(rest) = Len(o) - i
        /\ \A n \in 1..Len(o) - i : rest[n] = o[i + n]
    <3>1. \A n \in 1..Len(o) - (i + 1) + 1 : rest[n] = o[(i + 1) + n - 1]
      BY <2>1, <2>3, SubSeqProperties
    <3>2. rest \in Seq(Sessions) /\ Len(rest) = Len(o) - i
      BY <2>1, <2>3, SubSeqProperties
    <3>3. \A n \in 1..Len(o) - i : n \in 1..Len(o) - (i + 1) + 1 /\ (i + 1) + n - 1 = i + n
      BY <2>1
    <3> HIDE DEF rest
    <3> QED
      BY <3>1, <3>2, <3>3
  <2> DEFINE at(n) == IF n < i THEN n ELSE n + 1
  <2>6. /\ Len(w) = Len(o) - 1 /\ DOMAIN w = 1..Len(o) - 1
        /\ \A n \in 1..Len(o) - 1 : w[n] = o[at(n)] /\ at(n) \in DOMAIN o \ {i}
    <3> HIDE DEF front, rest
    <3>4. /\ w \in Seq(Sessions) /\ Len(w) = Len(front) + Len(rest)
          /\ \A n \in 1..Len(front) + Len(rest) :
               w[n] = IF n <= Len(front) THEN front[n] ELSE rest[n - Len(front)]
      BY <2>4, <2>5, ConcatProperties
    <3> HIDE DEF w
    <3>5. Len(front) = i - 1 /\ Len(front) + Len(rest) = Len(o) - 1
      BY <2>1, <2>4, <2>5
    <3>1. w \in Seq(Sessions) /\ Len(w) = Len(o) - 1
      BY <3>4, <3>5
    <3>2. \A n \in 1..Len(o) - 1 : w[n] = IF n <= i - 1 THEN front[n] ELSE rest[n - (i - 1)]
      BY <3>4, <3>5
    <3>3. ASSUME NEW n \in 1..Len(o) - 1 PROVE w[n] = o[at(n)] /\ at(n) \in DOMAIN o \ {i}
      <4>1. CASE n < i
        <5>1. n \in 1..i - 1 /\ n <= i - 1 /\ at(n) = n /\ n \in DOMAIN o /\ n # i
          BY <2>1, <4>1
        <5>2. w[n] = front[n]
          BY <3>2, <5>1
        <5> QED
          BY <2>4, <5>1, <5>2
      <4>2. CASE n >= i
        <5>1. n - (i - 1) \in 1..Len(o) - i /\ i + (n - (i - 1)) = n + 1
          BY <2>1, <4>2
        <5>2. w[n] = rest[n - (i - 1)]
          <6>1. ~(n <= i - 1)
            BY <2>1, <4>2
          <6> QED
            BY <3>2, <6>1
        <5>3. rest[n - (i - 1)] = o[i + (n - (i - 1))]
          BY <2>5, <5>1
        <5> QED
          BY <2>1, <4>2, <5>1, <5>2, <5>3
      <4> QED
        BY <2>1, <4>1, <4>2
    <3> QED
      BY <3>1, <3>3
  <2>7. ASSUME NEW m \in DOMAIN w, NEW n \in DOMAIN w, w[m] = w[n] PROVE m = n
    <3>1. at(m) = at(n)
      BY <2>6, <2>7
    <3> QED
      BY <2>1, <2>6, <3>1
  <2>8. ASSUME NEW n \in DOMAIN w PROVE w[n] # s
    <3>1. at(n) \in DOMAIN o \ {i} /\ w[n] = o[at(n)]
      BY <2>6, <2>8
    <3> HIDE DEF w, at
    <3> QED
      BY <2>1, <3>1
  <2> HIDE DEF w
  <2> QED
    BY <2>2, <2>7, <2>8 DEF Keys
<1> QED
  BY <1>1, <1>2

\* Appending what a table does not have keeps it without repetitions.
LEMMA AppendDistinct ==
  ASSUME NEW o \in Seq(Sessions), NEW s \in Sessions, s \notin Keys(o),
         \A i, k \in DOMAIN o : o[i] = o[k] => i = k
  PROVE  LET w == Append(o, s) IN \A i, k \in DOMAIN w : w[i] = w[k] => i = k
<1>1. /\ DOMAIN Append(o, s) = 1..Len(o) + 1 /\ Append(o, s)[Len(o) + 1] = s
      /\ \A i \in 1..Len(o) : Append(o, s)[i] = o[i] /\ o[i] # s
  BY DEF Keys
<1> QED
  BY <1>1

\* _session leaves a table that lists each session once.
LEMMA TouchDistinct ==
  ASSUME TypeOK, TableSound, NEW s \in Sessions
  PROVE  \A i, k \in DOMAIN TouchedOrder(s) : TouchedOrder(s)[i] = TouchedOrder(s)[k] => i = k
<1> USE BoundAssumption
<1>1. order \in Seq(Sessions) /\ \A i, k \in DOMAIN order : order[i] = order[k] => i = k
  BY DEF TypeOK, TableSound
<1>2. CASE Evicts(s)
  <2>1. order # <<>> /\ s \notin Keys(order)
    BY <1>1, <1>2 DEF Evicts
  <2>2. /\ Tail(order) \in Seq(Sessions) /\ DOMAIN Tail(order) = 1..Len(order) - 1
        /\ \A i \in 1..Len(order) - 1 : Tail(order)[i] = order[i + 1] /\ i + 1 \in DOMAIN order
    BY <1>1, <2>1
  <2>3. s \notin Keys(Tail(order))
    BY <2>1, <2>2 DEF Keys
  <2>4. \A i, k \in DOMAIN Tail(order) : Tail(order)[i] = Tail(order)[k] => i = k
    <3>1. ASSUME NEW i \in DOMAIN Tail(order), NEW k \in DOMAIN Tail(order),
                 Tail(order)[i] = Tail(order)[k] PROVE i = k
      <4>1. i + 1 = k + 1
        BY <1>1, <2>2, <3>1
      <4> QED
        BY <2>2, <4>1
    <3> QED
      BY <3>1
  <2>5. TouchedOrder(s) = Append(Tail(order), s)
    BY <1>2 DEF TouchedOrder
  <2> QED
    BY <2>2, <2>3, <2>4, <2>5, AppendDistinct
<1>3. CASE ~Evicts(s)
  <2>1. TouchedOrder(s) = Append(Without(order, s), s)
    BY <1>3 DEF TouchedOrder
  <2>2. /\ Without(order, s) \in Seq(Sessions) /\ s \notin Keys(Without(order, s))
        /\ \A i, k \in DOMAIN Without(order, s) :
             Without(order, s)[i] = Without(order, s)[k] => i = k
    BY <1>1, WithoutType, WithoutDistinct
  <2> QED
    BY <2>1, <2>2, AppendDistinct
<1> QED
  BY <1>2, <1>3

\* While there is room for every session none is evicted.
LEMMA RoomForAll ==
  ASSUME TypeOK, TableSound, IsFiniteSet(Sessions), Cardinality(Sessions) <= MaxSessions,
         NEW s \in Sessions
  PROVE  TouchedTurn(s) = turn
<1>1. ASSUME Evicts(s) PROVE FALSE
  <2> DEFINE others == Sessions \ {s}
  <2>1. order \in Seq(others)
    <3>1. order \in Seq(Sessions) /\ \A i \in 1..Len(order) : order[i] \in others
      BY <1>1 DEF Evicts, Keys, TypeOK
    <3> QED
      BY <3>1
  <2>2. Cardinality(others) = Cardinality(Sessions) - 1 /\ IsFiniteSet(others)
    BY FS_RemoveElement
  <2>3. Len(order) <= Cardinality(others)
    <3> HIDE DEF others
    <3> QED
      BY <2>1, <2>2, DistinctFits DEF TableSound
  <2>4. Cardinality(Sessions) \in Nat /\ Len(order) \in Nat /\ MaxSessions \in Nat
    BY FS_CardinalityType, BoundAssumption DEF TypeOK
  <2> QED
    BY <1>1, <2>2, <2>3, <2>4 DEF Evicts
<1> QED
  BY <1>1 DEF TouchedTurn

\* Every step keeps the table, and what is saved of it, without repetitions.
LEMMA TableStep == TypeOK /\ TableSound /\ [Next]_vars => TableSound'
<1> SUFFICES ASSUME TypeOK, TableSound, [Next]_vars PROVE TableSound'
  OBVIOUS
<1> USE JobAssumption
<1>1. ASSUME NEW j \in Jobs, ArmPrepare(j) \/ ArmResponds(j) \/ ArmFails(j)
      PROVE  TableSound'
  <2>1. order' = TouchedOrder(SessionOf[j]) /\ snap' = snap
    BY <1>1 DEF ArmPrepare, ArmResponds, ArmFails
  <2>2. \A i, k \in DOMAIN order' : order'[i] = order'[k] => i = k
    BY <2>1, TouchDistinct
  <2> QED
    BY <2>1, <2>2 DEF TableSound
<1>2. CASE Start \/ StartUnread
  BY <1>2 DEF Start, StartUnread, Starts, EmptySnapshot, TableSound
<1>3. CASE SaveSnapshot
  BY <1>3 DEF SaveSnapshot, SaveRaises, EmptySnapshot, TableSound, Dump, sessionVars
<1>4. CASE ProcessEnds /\ (snap' = snap \/ snap' = Dump \/ snap' = EmptySnapshot)
  BY <1>4 DEF ProcessEnds, TableSound, Dump, EmptySnapshot
<1>5. CASE UNCHANGED <<order, snap>>
  BY <1>5 DEF TableSound
<1>6. ASSUME NEW j \in Jobs,
             \/ SubmitBrain(j) \/ TrySubmitMessage(j) \/ PutUnblocks(j) \/ CallerCancels(j)
             \/ WorkerGet(j) \/ WorkerSpawn(j) \/ ArmAcquire(j) \/ ArmFinish(j)
      PROVE  UNCHANGED <<order, snap>>
  BY <1>6 DEF SubmitBrain, TrySubmitMessage, PutUnblocks, CallerCancels, WorkerGet,
     WorkerSpawn, ArmAcquire, ArmFinish, sessionVars
<1>7. CASE WorkerExit \/ WriteBatch \/ Close \/ UNCHANGED vars
  BY <1>5, <1>7 DEF WorkerExit, WriteBatch, Close, vars, sessionVars
<1> QED
  BY <1>1, <1>2, <1>3, <1>4, <1>5, <1>6, <1>7
     DEF Next, Callers, Worker, Arm, Process, CloseFinish, SaveRaises, Kill, KillDuringSave

-----------------------------------------------------------------------------
(* The order of the ledger                                                 *)

\* A sequence cut in two, and put after another, is where it was.
LEMMA BatchKeepsOrder ==
  ASSUME TypeOK, WriteBatch PROVE ledger' \o rows' = ledger \o rows
<1>1. PICK n \in 1..BatchSize :
        /\ n <= Len(rows)
        /\ ledger' = ledger \o SubSeq(rows, 1, n)
        /\ rows' = SubSeq(rows, n + 1, Len(rows))
  BY DEF WriteBatch
<1> DEFINE front == SubSeq(rows, 1, n)
           rest  == SubSeq(rows, n + 1, Len(rows))
<1>2. n \in Nat /\ n >= 1 /\ rows \in Seq(Row) /\ ledger \in Seq(Row) /\ n <= Len(rows)
  BY <1>1, BoundAssumption DEF TypeOK
<1>3. \A i \in 1..Len(rows) : rows[i] \in Row
  BY <1>2
<1>4. front \in Seq(Row) /\ rest \in Seq(Row)
  BY <1>2, <1>3, SubSeqProperties
<1>5. front \o rest = rows
  <2>1. 1 \in 1..Len(rows) + 1 /\ n \in 1 - 1..Len(rows) /\ Len(rows) \in n..Len(rows)
    BY <1>2
  <2>2. front \o rest = SubSeq(rows, 1, Len(rows))
    BY <1>2, <2>1, ConcatAdjacentSubSeq
  <2> QED
    BY <1>2, <2>2, SubSeqFull
<1>6. (ledger \o front) \o rest = ledger \o (front \o rest)
  <2>1. \A p, q, r \in Seq(Row) : (p \o q) \o r = p \o (q \o r)
    BY ConcatAssociative
  <2> HIDE DEF front, rest
  <2> QED
    BY <1>2, <1>4, <2>1
<1> QED
  BY <1>1, <1>5, <1>6

\* The row of an arm comes after every other.
LEMMA RowComesLast ==
  ASSUME TypeOK, NEW e \in Row, rows' = Append(rows, e), ledger' = ledger
  PROVE  /\ ledger \o rows \in Seq(Row)
         /\ ledger' \o rows' = Append(ledger \o rows, e)
<1>1. rows \in Seq(Row) /\ ledger \in Seq(Row)
  BY DEF TypeOK
<1>2. Append(rows, e) = rows \o <<e>> /\ <<e>> \in Seq(Row)
  BY <1>1, AppendIsConcat
<1>3. ledger \o rows \in Seq(Row)
  BY <1>1
<1>4. Append(ledger \o rows, e) = (ledger \o rows) \o <<e>>
  BY <1>3, AppendIsConcat
<1>5. (ledger \o rows) \o <<e>> = ledger \o (rows \o <<e>>)
  BY <1>1, <1>2, ConcatAssociative
<1> QED
  BY <1>2, <1>3, <1>4, <1>5

\* Every step keeps the rows of a session in the order of its turns.
LEMMA TurnsStep ==
  IsFiniteSet(Sessions) /\ TurnInv /\ [Next]_vars => TurnsReached' /\ LedgerInTurnOrder'
<1> SUFFICES ASSUME IsFiniteSet(Sessions), TurnInv, [Next]_vars,
                    Cardinality(Sessions) <= MaxSessions
             PROVE  TurnsReached' /\ LedgerInTurnOrder'
  BY DEF TurnsReached, LedgerInTurnOrder
<1> USE JobAssumption
<1> DEFINE written == ledger \o rows
           Reached(w, t) == \A n \in DOMAIN w : w[n].ok => w[n].turn <= t[SessionOf[w[n].job]]
           InOrder(w) ==
             \A m, n \in DOMAIN w :
               /\ m < n
               /\ w[m].ok /\ w[n].ok
               /\ SessionOf[w[m].job] = SessionOf[w[n].job]
               => w[m].turn < w[n].turn
<1>1. /\ IInv /\ TypeOK /\ TableSound /\ turn \in [Sessions -> Nat]
      /\ TypeOK' /\ turn' \in [Sessions -> Nat]
  <2>1. TypeOK'
    BY TypeStep DEF TurnInv, IInv
  <2> QED
    BY <2>1 DEF TurnInv, IInv, TypeOK
<1>2. Reached(written, turn) /\ InOrder(written)
  BY DEF TurnInv, TurnsReached, LedgerInTurnOrder
<1>3. ASSUME Reached(ledger' \o rows', turn'), InOrder(ledger' \o rows')
      PROVE  TurnsReached' /\ LedgerInTurnOrder'
  BY <1>3 DEF TurnsReached, LedgerInTurnOrder
<1>4. ASSUME UNCHANGED <<ledger, rows, turn>> PROVE TurnsReached' /\ LedgerInTurnOrder'
  BY <1>2, <1>3, <1>4
<1>5. ASSUME ledger' = <<>>, rows' = <<>> PROVE TurnsReached' /\ LedgerInTurnOrder'
  <2>1. DOMAIN (ledger' \o rows') = {}
    BY <1>5
  <2> QED
    BY <1>3, <2>1
<1>6. ASSUME NEW j \in Jobs, ArmResponds(j) \/ ArmFails(j)
      PROVE  TurnsReached' /\ LedgerInTurnOrder'
  <2> DEFINE s == SessionOf[j]
  <2>1. s \in Sessions /\ TouchedTurn(s) = turn
    BY <1>1, RoomForAll
  <2>2. \E ok \in BOOLEAN :
          /\ rows' = Append(rows, [job |-> j, ok |-> ok, turn |-> turn'[s]])
          /\ ledger' = ledger
          /\ turn' = IF ok THEN [turn EXCEPT ![s] = @ + 1] ELSE turn
    <3>1. CASE ArmResponds(j)
      BY <2>1, <3>1 DEF ArmResponds, TurnAfter
    <3>2. CASE ArmFails(j)
      BY <2>1, <3>2 DEF ArmFails
    <3> QED
      BY <1>6, <3>1, <3>2
  <2>3. PICK ok \in BOOLEAN :
          /\ rows' = Append(rows, [job |-> j, ok |-> ok, turn |-> turn'[s]])
          /\ ledger' = ledger
          /\ turn' = IF ok THEN [turn EXCEPT ![s] = @ + 1] ELSE turn
    BY <2>2
  <2> DEFINE e == [job |-> j, ok |-> ok, turn |-> turn'[s]]
  <2>4. e \in Row
    BY <1>1, <2>1 DEF Row
  <2>5. written \in Seq(Row) /\ ledger' \o rows' = Append(written, e)
    BY <1>1, <2>3, <2>4, RowComesLast
  <2> HIDE DEF written
  <2>6. /\ DOMAIN written = 1..Len(written) /\ Len(written) \in Nat
        /\ DOMAIN Append(written, e) = 1..Len(written) + 1
        /\ \A n \in 1..Len(written) : Append(written, e)[n] = written[n] /\ written[n] \in Row
        /\ Append(written, e)[Len(written) + 1] = e
    BY <2>4, <2>5
  <2>7. \A u \in Sessions : turn[u] \in Nat /\ turn[u] <= turn'[u] /\ turn'[u] \in Nat
    BY <1>1, <2>1, <2>3
  <2>8. ok => turn[s] < turn'[s]
    BY <1>1, <2>1, <2>3
  <2>9. \A n \in 1..Len(written) :
          /\ written[n].turn \in Nat /\ SessionOf[written[n].job] \in Sessions
          /\ written[n].ok => written[n].turn <= turn[SessionOf[written[n].job]]
    BY <1>2, <2>6 DEF Row
  <2> DEFINE w == Append(written, e)
  <2>10. w[Len(written) + 1].ok = ok /\ w[Len(written) + 1].turn = turn'[s]
         /\ SessionOf[w[Len(written) + 1].job] = s
    BY <2>6
  <2>14. /\ DOMAIN w = 1..Len(written) + 1
         /\ \A n \in 1..Len(written) : w[n] = written[n]
    BY <2>6
  <2> HIDE DEF e, w, s
  <2>11. Reached(w, turn')
    <3> SUFFICES ASSUME NEW n \in DOMAIN w, w[n].ok PROVE w[n].turn <= turn'[SessionOf[w[n].job]]
      OBVIOUS
    <3>1. CASE n = Len(written) + 1
      BY <2>1, <2>7, <2>10, <3>1
    <3>2. CASE n \in 1..Len(written)
      <4>1. w[n] = written[n] /\ written[n].turn <= turn[SessionOf[written[n].job]]
        BY <2>9, <2>14, <3>2
      <4> QED
        BY <2>7, <2>9, <3>2, <4>1
    <3> QED
      BY <2>6, <2>14, <3>1, <3>2
  <2>12. InOrder(w)
    <3> SUFFICES ASSUME NEW m \in DOMAIN w, NEW n \in DOMAIN w, m < n, w[m].ok, w[n].ok,
                        SessionOf[w[m].job] = SessionOf[w[n].job]
                 PROVE  w[m].turn < w[n].turn
      OBVIOUS
    <3>1. m \in 1..Len(written) /\ w[m] = written[m]
      BY <2>6, <2>14
    <3>2. CASE n = Len(written) + 1
      <4>1. /\ written[m].turn <= turn[s] /\ written[m].turn \in Nat
            /\ ok /\ w[n].turn = turn'[s]
        BY <2>9, <2>10, <3>1, <3>2
      <4> QED
        BY <2>1, <2>7, <2>8, <3>1, <4>1
    <3>3. CASE n \in 1..Len(written)
      <4>1. w[n] = written[n]
        BY <2>14, <3>3
      <4> QED
        BY <1>2, <2>6, <3>1, <3>3, <4>1
    <3> QED
      BY <2>6, <2>14, <3>2, <3>3
  <2> QED
    BY <1>3, <2>5, <2>11, <2>12 DEF w
<1>7. CASE WriteBatch
  <2>1. ledger' \o rows' = written /\ turn' = turn
    BY <1>1, <1>7, BatchKeepsOrder DEF WriteBatch, sessionVars
  <2> QED
    BY <1>2, <1>3, <2>1
<1>8. CASE Start \/ StartUnread
  <2>1. ledger' = <<>> /\ rows' = <<>>
    BY <1>1, <1>8 DEF Start, StartUnread, Starts, EmptySnapshot, IInv, Places, DownIsEmpty, ledgerVars
  <2> QED
    BY <1>5, <2>1
<1>9. CASE ProcessEnds
  BY <1>5, <1>9 DEF ProcessEnds
<1>10. ASSUME NEW j \in Jobs, ArmPrepare(j) PROVE UNCHANGED <<ledger, rows, turn>>
  <2>1. TouchedTurn(SessionOf[j]) = turn
    BY <1>1, RoomForAll
  <2> QED
    BY <1>10, <2>1 DEF ArmPrepare, ledgerVars
<1>11. ASSUME NEW j \in Jobs,
             \/ SubmitBrain(j) \/ TrySubmitMessage(j) \/ PutUnblocks(j) \/ CallerCancels(j)
             \/ WorkerGet(j) \/ WorkerSpawn(j) \/ ArmAcquire(j) \/ ArmFinish(j)
      PROVE  UNCHANGED <<ledger, rows, turn>>
  BY <1>11 DEF SubmitBrain, TrySubmitMessage, PutUnblocks, CallerCancels, WorkerGet,
     WorkerSpawn, ArmAcquire, ArmFinish, sessionVars, ledgerVars
<1>12. CASE WorkerExit \/ SaveSnapshot \/ Close \/ UNCHANGED vars
  BY <1>4, <1>12 DEF WorkerExit, SaveSnapshot, Close, vars, sessionVars, ledgerVars
<1> QED
  BY <1>4, <1>6, <1>7, <1>8, <1>9, <1>10, <1>11, <1>12
     DEF Next, Callers, Worker, Arm, Process, CloseFinish, Kill, KillDuringSave

\* The answers of a session are in the ledger in the order of its turns, for
\* any finite set of sessions the table has room for, and one row for each.
THEOREM LedgerOrdered ==
  ASSUME IsFiniteSet(Sessions) PROVE Spec => []LedgerInTurnOrder
<1>1. Init => TurnInv
  <2> SUFFICES ASSUME Init PROVE TableSound /\ TurnsReached /\ LedgerInTurnOrder
    BY IInvInit DEF TurnInv
  <2>1. DOMAIN (ledger \o rows) = {}
    BY DEF Init
  <2> QED
    BY <2>1 DEF Init, TableSound, TurnsReached, LedgerInTurnOrder, EmptySnapshot
<1>2. TurnInv /\ [Next]_vars => TurnInv'
  BY IInvStep, TableStep, TurnsStep DEF TurnInv, IInv
<1>3. TurnInv => LedgerInTurnOrder
  BY DEF TurnInv
<1> QED
  BY <1>1, <1>2, <1>3, PTL DEF Spec
=============================================================================

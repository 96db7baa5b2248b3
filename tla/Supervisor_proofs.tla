-------------------------- MODULE Supervisor_proofs --------------------------
(***************************************************************************)
(* Proofs about ProcessLock and Supervisor: a lock that has been won for   *)
(* good stays won, for any number of processes, and the supervisor does    *)
(* nothing to the lock that processes by themselves could not do.          *)
(***************************************************************************)
EXTENDS Supervisor, TLAPS

USE LockAssumption, SupervisorAssumption

\* Running processes have ids, all different.
LockInv ==
  /\ LockTypeOK
  /\ \A p \in Procs : Running(p) => pid[p] \in Pids
  /\ \A p, q \in Procs : Running(p) /\ Running(q) /\ pid[p] = pid[q] => p = q

\* A process that exits frees its id.
LEMMA ExitsKeeps ==
  ASSUME LockInv, NEW p \in Procs, Exits(p)
  PROVE  LockInv'
BY DEF LockInv, LockTypeOK, Exits, Goes, Pc, Running, File

\* A process that starts gets an id no other has.
LEMMA StartKeeps ==
  ASSUME LockInv, NEW p \in Procs, NEW n \in Pids, Start(p, n)
  PROVE  LockInv'
BY DEF LockInv, LockTypeOK, Start, Goes, Pc, Running, PidExists, File

\* A running process that goes on keeps its id.
LEMMA GoesKeeps ==
  ASSUME LockInv, NEW p \in Procs, Running(p), NEW where \in Pc \ {"off"},
         Goes(p, where), UNCHANGED <<pid, starts>>, file' \in File \cup {None},
         found' \in [Procs -> Pids \cup {None}]
  PROVE  LockInv'
BY DEF LockInv, LockTypeOK, Goes, Pc, Running

\* Every step of a process keeps the invariant.
LEMMA StepKeeps ==
  ASSUME LockInv, NEW p \in Procs, LockStep(p)
  PROVE  LockInv'
<1>1. CASE Refused(p) \/ Leaves(p) \/ Dies(p)
  BY <1>1, ExitsKeeps DEF Refused, Leaves, Dies
<1>2. CASE ~(Refused(p) \/ Leaves(p) \/ Dies(p))
  <2>1. Running(p) /\ UNCHANGED <<pid, starts>>
    BY <1>2 DEF LockStep, Acquires, Releases, Create, Found, ReadHolder, Judge,
                RemoveStale, WritePid, Ends, ReleaseRead, Unlink, Running
  <2>2. \E where \in Pc \ {"off"} : Goes(p, where)
    BY <1>2 DEF LockStep, Acquires, Releases, Create, Found, ReadHolder, Judge,
                RemoveStale, WritePid, Ends, ReleaseRead, Unlink, Pc
  <2>3. file' \in File \cup {None}
    <3>1. pid[p] \in Pids /\ file \in File \cup {None}
      BY <2>1 DEF LockInv, LockTypeOK
    <3> QED
      BY <1>2, <3>1 DEF LockStep, Acquires, Releases, Create, Found, ReadHolder, Judge,
                RemoveStale, WritePid, Ends, ReleaseRead, Unlink, File
  <2>4. found' \in [Procs -> Pids \cup {None}]
    <3>1. file \in File \cup {None} /\ found \in [Procs -> Pids \cup {None}]
      BY DEF LockInv, LockTypeOK
    <3>2. HasHolder => file.pid \in Pids
      BY <3>1 DEF HasHolder, File
    <3> QED
      BY <1>2, <3>1, <3>2 DEF LockStep, Acquires, Releases, Create, Found, ReadHolder,
         Judge, RemoveStale, WritePid, Ends, ReleaseRead, Unlink
  <2> QED
    BY <2>1, <2>2, <2>3, <2>4, GoesKeeps
<1> QED
  BY <1>1, <1>2

\* LockInv is an inductive invariant of the lock.
LEMMA LockInvariance == LockSpec => []LockInv
<1>1. LockInit => LockInv
  BY DEF LockInit, LockInv, LockTypeOK, Pc, Running
<1>2. LockInv /\ [LockNext]_lockVars => LockInv'
  <2> SUFFICES ASSUME LockInv, [LockNext]_lockVars PROVE LockInv'
    OBVIOUS
  <2>1. CASE UNCHANGED lockVars
    BY <2>1 DEF lockVars, LockInv, LockTypeOK, Running
  <2>2. CASE LockNext
    BY <2>2, StepKeeps, StartKeeps DEF LockNext
  <2> QED
    BY <2>1, <2>2
<1> QED
  BY <1>1, <1>2, PTL DEF LockSpec

\* A settled owner is disturbed by nobody: whoever reads the lock finds its pid,
\* and whoever has read a pid and is about to judge it has read that one.
LEMMA SettledStep ==
  ASSUME LockInv, NEW p \in Procs, Settled(p), [LockNext]_lockVars,
         pc'[p] = "owner", pid'[p] = pid[p]
  PROVE  Settled(p)'
<1> DEFINE Harmless == Pc \ {"remove", "write", "owner", "unlink"}
           Knows(q) == pc[q] = "judge" => found[q] = pid[p]
<1>1. /\ pc \in [Procs -> Pc] /\ pid \in [Procs -> Pids \cup {None}]
      /\ found \in [Procs -> Pids \cup {None}]
      /\ pc[p] = "owner" /\ file = [by |-> p, pid |-> pid[p]]
      /\ pid[p] \in Pids
      /\ HasHolder /\ PidExists(pid[p])
  <2>1. /\ pc \in [Procs -> Pc] /\ pid \in [Procs -> Pids \cup {None}]
        /\ found \in [Procs -> Pids \cup {None}]
        /\ pc[p] = "owner" /\ file = [by |-> p, pid |-> pid[p]]
        /\ pid[p] \in Pids
    BY DEF LockInv, LockTypeOK, Settled, Running
  <2> QED
    BY <2>1 DEF HasHolder, PidExists, Running
<1>2. ASSUME NEW q \in Procs \ {p}, LockStep(q)
      PROVE  Settled(p)'
  <2>1. pc[q] \in Harmless /\ Knows(q)
    BY <1>1 DEF Settled
  <2>2. Running(q) => file.pid # pid[q]
    BY <1>1 DEF LockInv, Running
  <2>3. pc[q] = "judge" => ~Stale(q)
    BY <1>1, <2>1 DEF Stale
  <2>4. UNCHANGED file
    BY <1>1, <1>2, <2>1 DEF LockStep, Acquires, Releases, Create, Found, ReadHolder, Judge,
       RemoveStale, WritePid, Refused, Ends, ReleaseRead, Unlink, Leaves, Dies, Exits
  <2>5. /\ \E where \in Harmless : Goes(q, where)
        /\ pc'[q] = "judge" => found'[q] = pid[p]
        /\ \A r \in Procs \ {p, q} : found'[r] = found[r]
    <3>1. CASE Judge(q)
      BY <1>1, <2>3, <3>1 DEF Judge, Goes, Pc
    <3>2. CASE ReadHolder(q)
      BY <1>1, <3>2 DEF ReadHolder, Goes, Pc
    <3>3. CASE Refused(q) \/ Leaves(q) \/ Dies(q)
      BY <1>1, <3>3 DEF Refused, Leaves, Dies, Exits, Goes, Pc
    <3>4. CASE Create(q) \/ Found(q) \/ RemoveStale(q) \/ WritePid(q) \/ Ends(q)
               \/ ReleaseRead(q) \/ Unlink(q)
      BY <1>1, <2>1, <2>2, <3>4 DEF Create, Found, RemoveStale, WritePid, Ends,
         ReleaseRead, Unlink, Goes, Pc, Running
    <3> QED
      BY <1>2, <3>1, <3>2, <3>3, <3>4 DEF LockStep, Acquires, Releases
  <2>6. ASSUME NEW r \in Procs \ {p}
        PROVE  /\ pc'[r] \notin {"remove", "write", "owner", "unlink"}
               /\ pc'[r] = "judge" => found'[r] = pid'[p]
    BY <1>1, <2>5 DEF Settled, Goes
  <2> QED
    BY <1>1, <2>4, <2>6 DEF Settled
<1>3. ASSUME NEW q \in Procs \ {p}, NEW n \in Pids, Start(q, n)
      PROVE  Settled(p)'
  BY <1>1, <1>3 DEF Start, Goes, Settled
<1>4. ASSUME LockStep(p) PROVE FALSE
  BY <1>1, <1>4 DEF LockStep, Acquires, Releases, Create, Found, ReadHolder, Judge,
     RemoveStale, WritePid, Refused, Ends, ReleaseRead, Unlink, Leaves, Dies, Exits, Goes
<1>5. ASSUME NEW n \in Pids, Start(p, n) PROVE FALSE
  BY <1>1, <1>5 DEF Start, Running
<1>6. CASE UNCHANGED lockVars
  BY <1>6 DEF lockVars, Settled
<1> QED
  BY <1>2, <1>3, <1>4, <1>5, <1>6 DEF LockNext

\* Once a process owns the lock and its pid is on disk, with nobody halfway
\* through making or removing a file and no older pid still to be judged, no other
\* process gets the lock until it ends or dies (utils/process_lock.py 41-80).
THEOREM LockSettles == LockSpec => SettledStays
<1>1. LockInv /\ [LockNext]_lockVars =>
        [\A p \in Procs : Settled(p) /\ pc'[p] = "owner" /\ pid'[p] = pid[p]
                            => Settled(p)']_lockVars
  BY SettledStep
<1> QED
  BY <1>1, LockInvariance, PTL DEF LockSpec, SettledStays

\* While the supervisor watches or ends a child, it has one.
HasChild ==
  watch \in {"watching", "asking", "waiting", "terminating"} => child \in Procs

\* HasChild is an invariant.
LEMMA ChildInvariance == Spec => []HasChild
<1>1. Init => HasChild
  BY DEF Init, HasChild
<1>2. HasChild /\ [Next]_vars => HasChild'
  <2> SUFFICES ASSUME HasChild, [Next]_vars PROVE HasChild'
    OBVIOUS
  <2>1. CASE UNCHANGED watchVars
    BY <2>1 DEF watchVars, HasChild
  <2>2. ASSUME NEW p \in Procs, NEW n \in Pids, Spawn(p, n) PROVE HasChild'
    BY <2>2 DEF Spawn, HasChild
  <2>3. CASE \/ GiveUp \/ NoticeExit \/ Asked \/ NotGone \/ Gone \/ KillChild \/ BackedOff
             \/ StartSupervisor \/ Matures \/ OverLimit \/ StopSupervisor
    BY <2>3 DEF GiveUp, NoticeExit, Asked, NotGone, Gone, KillChild, BackedOff,
                StartSupervisor, Matures, OverLimit, StopSupervisor, Collected, HasChild
  <2> QED
    BY <2>1, <2>2, <2>3 DEF Next, SupervisorStep, ProcessStep, StartByHand, vars
<1> QED
  BY <1>1, <1>2, PTL DEF Spec

\* Under the supervisor the processes of main.py do with the lock what they
\* could do by themselves (supervisor.py 97-179): its steps are starts, deaths
\* or nothing to the lock.
THEOREM SupervisorKeepsLockSpec == Spec => LockSpec
<1>1. Init => LockInit
  BY DEF Init
<1>2. HasChild /\ [Next]_vars => [LockNext]_lockVars
  <2> SUFFICES ASSUME HasChild, [Next]_vars PROVE [LockNext]_lockVars
    OBVIOUS
  <2>1. ASSUME NEW p \in Procs, ProcessStep(p) PROVE LockNext
    BY <2>1 DEF ProcessStep, LockNext
  <2>2. ASSUME NEW p \in Procs, NEW n \in Pids, StartByHand(p, n) \/ Spawn(p, n)
        PROVE  LockNext
    BY <2>2 DEF StartByHand, Spawn, LockNext
  <2>3. ASSUME KillChild PROVE LockNext
    <3>1. child \in Procs
      BY <2>3 DEF KillChild, HasChild
    <3> QED
      BY <2>3, <3>1 DEF KillChild, LockNext, LockStep, Dies
  <2>4. ASSUME \/ StartSupervisor \/ Matures \/ OverLimit \/ StopSupervisor \/ GiveUp
               \/ NoticeExit \/ Asked \/ NotGone \/ Gone \/ BackedOff
               \/ UNCHANGED vars
        PROVE  UNCHANGED lockVars
    BY <2>4 DEF StartSupervisor, Matures, OverLimit, StopSupervisor, GiveUp, NoticeExit,
                Asked, NotGone, Gone, BackedOff, vars
  <2> QED
    BY <2>1, <2>2, <2>3, <2>4 DEF Next, SupervisorStep
<1> QED
  BY <1>1, <1>2, ChildInvariance, PTL DEF Spec, LockSpec

\* The same holds of the lock of main.py when a supervisor starts, ends and
\* replaces its processes.
THEOREM SupervisedLockSettles == Spec => SettledStays
BY SupervisorKeepsLockSpec, LockSettles

\* The variables of the supervisor keep their types; it never counts more than
\* MaxAttempts attempts (supervisor.py 113-119).
THEOREM SupervisorTypes == Spec => []TypeOK
<1> DEFINE WatchTypeOK ==
             /\ watch \in {"down", "loop", "watching", "asking", "waiting",
                           "terminating", "backoff", "gaveUp"}
             /\ child \in Procs \cup {None}
             /\ attempts \in 0..MaxAttempts
             /\ terms \in Nat
             /\ outcomes \in Seq(Outcomes)
           StableTypeOK == stable \in BOOLEAN
<1>1. Init => WatchTypeOK
  BY DEF Init
<1>2. WatchTypeOK /\ [Next]_vars => WatchTypeOK'
  <2> SUFFICES ASSUME WatchTypeOK, [Next]_vars PROVE WatchTypeOK'
    OBVIOUS
  <2>1. CASE UNCHANGED watchVars
    BY <2>1 DEF watchVars
  <2>2. ASSUME NEW p \in Procs, NEW n \in Pids, Spawn(p, n) PROVE WatchTypeOK'
    BY <2>2 DEF Spawn, MayRestart
  <2>3. CASE GiveUp \/ Asked \/ NotGone \/ BackedOff \/ StartSupervisor \/ Matures
             \/ OverLimit
    BY <2>3 DEF GiveUp, Asked, NotGone, BackedOff, StartSupervisor, Matures, OverLimit
  <2>5. CASE StopSupervisor
    BY <2>5 DEF StopSupervisor
  <2>4. CASE NoticeExit \/ Gone \/ KillChild
    <3>1. "early" \in Outcomes /\ "stable" \in Outcomes /\ "limit" \in Outcomes
      BY DEF Outcomes
    <3>2. PICK o \in Outcomes : Collected(o)
      BY <2>4, <3>1 DEF NoticeExit, Gone, KillChild
    <3>3. attempts' \in 0..MaxAttempts /\ terms' \in Nat
      BY <2>4 DEF NoticeExit, Gone, KillChild, AttemptsAfter
    <3>4. outcomes' \in Seq(Outcomes)
      BY <3>2 DEF Collected
    <3> QED
      BY <3>2, <3>3, <3>4 DEF Collected
  <2> QED
    BY <2>1, <2>2, <2>3, <2>4, <2>5 DEF Next, SupervisorStep, ProcessStep, StartByHand, vars
<1>3. Init => StableTypeOK
  BY Zenon DEF Init
<1>4. StableTypeOK /\ [Next]_vars => StableTypeOK'
  <2> SUFFICES ASSUME StableTypeOK, [Next]_vars PROVE StableTypeOK'
    OBVIOUS
  <2>1. stable' = stable \/ stable' = TRUE \/ stable' = FALSE
    BY Zenon DEF Next, SupervisorStep, ProcessStep, StartByHand, StartSupervisor, Spawn,
       GiveUp, Matures, Collected, NoticeExit, OverLimit, Asked, NotGone, Gone,
       KillChild, BackedOff, StopSupervisor, vars, watchVars
  <2> QED
    BY Zenon, <2>1
<1>5. LockInv /\ WatchTypeOK /\ StableTypeOK => TypeOK
  BY DEF LockInv, TypeOK
<1> HIDE DEF WatchTypeOK, StableTypeOK
<1> QED
  BY <1>1, <1>2, <1>3, <1>4, <1>5, LockInvariance, SupervisorKeepsLockSpec, PTL DEF Spec
-----------------------------------------------------------------------------
(* The counter and the row of children.  GivesUpAfterRow is not inductive by  *)
(* itself: it says nothing of the counter, which counts the child that is     *)
(* there beside the row of those that have ended.                            *)

\* The children after the i-th have all not been stable, and the i-th was.
LastStable(i, ends) ==
  /\ i > 0 => ends[i] = "stable"
  /\ \A k \in i + 1..Len(ends) : ends[k] # "stable"

Tending == watch \in {"watching", "asking", "waiting", "terminating"}

Counted(i) ==
  /\ LastStable(i, outcomes)
  /\ attempts = (Len(outcomes) - i) + (IF Tending THEN 1 ELSE 0)

RowInv ==
  /\ attempts \in 0..MaxAttempts /\ outcomes \in Seq(Outcomes)
  /\ \E i \in 0..Len(outcomes) : Counted(i)
  /\ watch = "gaveUp" => attempts = MaxAttempts

\* There is one such child, or the beginning, so it is what InARow counts from.
LEMMA RowFromLast ==
  ASSUME outcomes \in Seq(Outcomes), NEW i \in 0..Len(outcomes), LastStable(i, outcomes)
  PROVE  InARow = Len(outcomes) - i
<1> DEFINE Last(j) == /\ j > 0 => outcomes[j] = "stable"
                      /\ \A k \in j + 1..Len(outcomes) : outcomes[k] # "stable"
           last == CHOOSE j \in 0..Len(outcomes) : Last(j)
<1>1. last \in 0..Len(outcomes) /\ Last(last)
  BY DEF LastStable
<1>2. ASSUME NEW j \in 0..Len(outcomes), Last(j) PROVE j = i
  <2>1. Len(outcomes) \in Nat
    OBVIOUS
  <2>2. CASE j < i
    BY <1>2, <2>1, <2>2 DEF LastStable
  <2>3. CASE i < j
    BY <1>2, <2>1, <2>3 DEF LastStable
  <2> QED
    BY <2>1, <2>2, <2>3
<1>3. last = i
  BY <1>1, <1>2
<1> QED
  BY <1>3 DEF InARow

\* The end of a child that was not stable makes the row longer by one.
LEMMA RowGrows ==
  ASSUME RowInv, Tending, NEW outcome \in {"early", "limit"}, Collected(outcome),
         attempts' = attempts
  PROVE  RowInv'
<1>1. PICK i \in 0..Len(outcomes) : Counted(i)
  BY DEF RowInv
<1>2. /\ outcomes' \in Seq(Outcomes) /\ Len(outcomes') = Len(outcomes) + 1
      /\ \A k \in 1..Len(outcomes) : outcomes'[k] = outcomes[k]
      /\ outcomes'[Len(outcomes) + 1] = outcome
      /\ Len(outcomes) \in Nat
  BY DEF RowInv, Collected, Outcomes
<1>3. watch' = "backoff"
  BY DEF Collected
<1>4. LastStable(i, outcomes')
  BY <1>1, <1>2 DEF Counted, LastStable
<1>5. attempts = (Len(outcomes) - i) + 1
  BY <1>1 DEF Counted
<1>6. attempts' = (Len(outcomes') - i) + 0
  BY <1>2, <1>5
<1> QED
  BY <1>2, <1>3, <1>4, <1>6 DEF RowInv, Counted, Tending

\* The end of a stable one begins a new row.
LEMMA RowBegins ==
  ASSUME RowInv, Collected("stable"), attempts' = 0
  PROVE  RowInv'
<1>1. /\ outcomes' \in Seq(Outcomes) /\ Len(outcomes') = Len(outcomes) + 1
      /\ outcomes'[Len(outcomes) + 1] = "stable"
      /\ Len(outcomes) \in Nat
  BY DEF RowInv, Collected, Outcomes
<1>2. watch' = "backoff"
  BY DEF Collected
<1>3. LastStable(Len(outcomes'), outcomes') /\ Len(outcomes') \in 0..Len(outcomes')
  BY <1>1 DEF LastStable
<1>4. attempts' = (Len(outcomes') - Len(outcomes')) + 0
  BY <1>1
<1> QED
  BY <1>1, <1>2, <1>3, <1>4, SupervisorAssumption DEF RowInv, Counted, Tending

\* Every step keeps counter and row together.
LEMMA RowStep == RowInv /\ [Next]_vars => RowInv'
<1> SUFFICES ASSUME RowInv, [Next]_vars PROVE RowInv'
  OBVIOUS
<1>1. ASSUME UNCHANGED <<attempts, outcomes>>, Tending' = Tending,
             watch' # "gaveUp" \/ watch' = watch
      PROVE  RowInv'
  BY <1>1 DEF RowInv, Counted, LastStable
<1>2. CASE UNCHANGED watchVars
  BY <1>1, <1>2 DEF watchVars, Tending
<1>3. ASSUME NEW p \in Procs, NEW n \in Pids, Spawn(p, n) PROVE RowInv'
  <2>1. PICK i \in 0..Len(outcomes) : Counted(i)
    BY DEF RowInv
  <2>2. /\ ~Tending /\ Tending' /\ UNCHANGED outcomes /\ watch' = "watching"
        /\ attempts' = attempts + 1 /\ attempts' \in 0..MaxAttempts
    BY <1>3, SupervisorAssumption DEF Spawn, MayRestart, Tending, RowInv
  <2>3. LastStable(i, outcomes') /\ attempts' = (Len(outcomes') - i) + 1
    BY <2>1, <2>2 DEF Counted, LastStable, RowInv
  <2> QED
    BY <2>2, <2>3 DEF RowInv, Counted
<1>4. CASE GiveUp
  BY <1>4, SupervisorAssumption DEF GiveUp, MayRestart, RowInv, Counted, LastStable, Tending
<1>5. CASE StartSupervisor \/ Matures \/ OverLimit \/ Asked \/ NotGone \/ BackedOff
  BY <1>1, <1>5 DEF StartSupervisor, Matures, OverLimit, Asked, NotGone, BackedOff, Tending
<1>6. CASE NoticeExit
  <2>1. CASE stable
    <3>1. Collected("stable") /\ attempts' = 0
      BY <1>6, <2>1, Zenon DEF NoticeExit, AttemptsAfter
    <3> QED
      BY <3>1, RowBegins
  <2>2. CASE ~stable
    <3>1. Collected("early") /\ attempts' = attempts /\ Tending
      BY <1>6, <2>2, Zenon DEF NoticeExit, AttemptsAfter, Tending
    <3> QED
      BY <3>1, RowGrows
  <2> QED
    BY <2>1, <2>2
<1>7. CASE Gone \/ KillChild
  <2>1. Collected("limit") /\ attempts' = attempts /\ Tending
    BY <1>7 DEF Gone, KillChild, Tending
  <2> QED
    BY <2>1, RowGrows
<1>8. CASE StopSupervisor
  <2>1. outcomes' = <<>> /\ attempts' = 0 /\ watch' = "down"
    BY <1>8 DEF StopSupervisor
  <2>2. Len(outcomes') = 0 /\ outcomes' \in Seq(Outcomes) /\ LastStable(0, outcomes')
    BY <2>1 DEF LastStable
  <2> QED
    BY <2>1, <2>2, SupervisorAssumption DEF RowInv, Counted, Tending
<1> QED
  BY <1>2, <1>3, <1>4, <1>5, <1>6, <1>7, <1>8
     DEF Next, SupervisorStep, ProcessStep, StartByHand, vars

\* For any number of attempts: the supervisor gives up after MaxAttempts
\* children in a row of which none ran stably to its own end, and not before
\* (supervisor.py 113-119, 129-131).
THEOREM GivesUpInTime == Spec => []GivesUpAfterRow
<1>1. Init => RowInv
  BY SupervisorAssumption DEF Init, RowInv, Counted, LastStable, Tending
<1>2. RowInv => GivesUpAfterRow
  <2> SUFFICES ASSUME RowInv PROVE GivesUpAfterRow
    OBVIOUS
  <2>1. PICK i \in 0..Len(outcomes) : Counted(i)
    BY DEF RowInv
  <2>2. InARow = Len(outcomes) - i
    BY <2>1, RowFromLast DEF RowInv, Counted
  <2>3. attempts = InARow + (IF Tending THEN 1 ELSE 0) /\ InARow \in Nat
    BY <2>1, <2>2 DEF Counted, RowInv
  <2>4. attempts \in 0..MaxAttempts /\ (watch = "gaveUp" => attempts = MaxAttempts)
    BY DEF RowInv
  <2> QED
    BY <2>3, <2>4, SupervisorAssumption DEF GivesUpAfterRow, Tending
<1> QED
  BY <1>1, <1>2, RowStep, PTL DEF Spec
=============================================================================

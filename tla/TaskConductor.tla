--------------------------- MODULE TaskConductor ---------------------------
(***************************************************************************)
(* The job scheduler of the assistant, lisa/conductor.py: a bounded        *)
(* priority queue, one worker that moves every job into an "arm" task, a   *)
(* semaphore that lets MaxArms arms run at once, the session table the     *)
(* arms update, the summary row each arm writes to the notepad ledger      *)
(* before it answers its caller, and the snapshot file from which a new    *)
(* process resumes after an orderly close or a crash.                      *)
(*                                                                         *)
(* The content of prompts and answers is abstracted; an answer, a canned   *)
(* time-out answer and an exception differ only in the outcome.            *)
(***************************************************************************)
EXTENDS Integers, Sequences, FiniteSets

CONSTANTS
  Jobs,         \* every job that is ever submitted
  BrainJobs,    \* those of submit_brain, whose caller awaits a future
  Sessions,     \* chat sessions
  SessionOf,    \* the session each job belongs to
  Priority,     \* the priority each job is submitted with
  QueueSize,    \* maxsize of the asyncio.PriorityQueue
  MaxArms,      \* permits of the arm semaphore
  MaxSessions,  \* sessions kept in memory (500 in the code)
  BatchSize,    \* ledger rows written in one go
  MaxLives      \* bound: how often the process is started

ASSUME JobAssumption ==
  /\ BrainJobs \subseteq Jobs
  /\ SessionOf \in [Jobs -> Sessions]
  /\ Priority \in [Jobs -> Int]

ASSUME BoundAssumption ==
  /\ QueueSize \in Nat \ {0}
  /\ MaxArms \in Nat \ {0}
  /\ MaxSessions \in Nat \ {0}
  /\ BatchSize \in Nat \ {0}
  /\ MaxLives \in Nat

VARIABLES
  mode,      \* "down", "up", "closing" (_stop is set) or "drained" (worker gone)
  seq,       \* sequence number each job was given
  nextSeq,   \* the itertools.count of this process
  queue,     \* jobs in the priority queue
  putting,   \* brain jobs blocked in queue.put on a full queue
  hand,      \* job the worker has taken and not yet given an arm (a set)
  pc,        \* where the arm task of each job stands, "none" if it has none
  waiters,   \* arms blocked on the semaphore, first come first served
  permits,   \* value of the semaphore
  future,    \* what the caller of each job sees
  order,     \* keys of the session table, least recently used first
  turn,      \* turn_index of each session
  rows,      \* summaries queued for the notepad writer
  ledger,    \* summaries this process has written
  snap,      \* the snapshot file
  kept,      \* history: unfinished jobs that the last orderly close has saved
  lives,     \* number of starts so far
  submitted, \* history: jobs some caller has submitted
  owed,      \* history: accepted or restored here, and not yet finished
  runs       \* history: how often each job has begun to run

queueVars   == <<seq, nextSeq, queue, putting, hand>>
armVars     == <<pc, waiters, permits>>
sessionVars == <<order, turn>>
ledgerVars  == <<rows, ledger>>
history     == <<submitted, owed, runs>>
vars == <<mode, queueVars, armVars, future, sessionVars, ledgerVars,
          snap, kept, lives, history>>

-----------------------------------------------------------------------------
(* Types                                                                   *)

ArmPc      == {"none", "waiting", "started", "prepared", "summary"}
FutureVal  == {"none", "pending", "result", "error", "cancelled", "gone"}
Settled    == {"result", "error", "cancelled"}
Row        == [job : Jobs, ok : BOOLEAN, turn : Nat]
Snapshot   == [jobs : SUBSET Jobs, order : Seq(Sessions), turn : [Sessions -> Nat]]

\* Nothing to restore: no file, one that cannot be read, or whose HMAC does not match.
EmptySnapshot ==
  [jobs |-> {}, order |-> <<>>, turn |-> [s \in Sessions |-> 0]]

\* Shape of every variable.
TypeOK ==
  /\ mode \in {"down", "up", "closing", "drained"}
  /\ seq \in [Jobs -> Nat]
  /\ nextSeq \in Nat
  /\ queue \subseteq Jobs
  /\ putting \subseteq BrainJobs
  /\ hand \subseteq Jobs
  /\ pc \in [Jobs -> ArmPc]
  /\ waiters \in Seq(Jobs)
  /\ permits \in Nat
  /\ future \in [Jobs -> FutureVal]
  /\ order \in Seq(Sessions)
  /\ turn \in [Sessions -> Nat]
  /\ rows \in Seq(Row)
  /\ ledger \in Seq(Row)
  /\ snap \in Snapshot
  /\ kept \subseteq Jobs
  /\ lives \in Nat
  /\ submitted \subseteq Jobs
  /\ owed \subseteq Jobs
  /\ runs \in [Jobs -> Nat]

-----------------------------------------------------------------------------
(* Helpers                                                                 *)

Arms    == {j \in Jobs : pc[j] # "none"}
Running == {j \in Jobs : pc[j] \in {"started", "prepared", "summary"}}
QueueFull == Cardinality(queue) >= QueueSize

\* ConductorJob compares by inverted priority, then by sequence number.
Before(a, b) ==
  \/ Priority[a] > Priority[b]
  \/ Priority[a] = Priority[b] /\ seq[a] < seq[b]

Frontmost(j) == j \in queue /\ \A k \in queue : ~Before(k, j)

\* Fault: the caller of a failed job is not told.
SettleResultsOnly(f, j, value) ==
  IF f[j] = "pending" /\ value = "result" THEN [f EXCEPT ![j] = value] ELSE f

\* set_result or set_exception, only on a future nobody has settled.
Settle(f, j, value) == IF f[j] = "pending" THEN [f EXCEPT ![j] = value] ELSE f

Keys(o) == {o[i] : i \in DOMAIN o}

\* The keys of the session table without s.
Without(o, s) ==
  IF s \in Keys(o)
  THEN LET i == CHOOSE n \in DOMAIN o : o[n] = s
       IN SubSeq(o, 1, i - 1) \o SubSeq(o, i + 1, Len(o))
  ELSE o

\* _session evicts the oldest entry when s is new and the table is full.
Evicts(s) == s \notin Keys(order) /\ Len(order) >= MaxSessions

TouchedOrder(s) ==
  Append(IF Evicts(s) THEN Tail(order) ELSE Without(order, s), s)

TouchedTurn(s) == IF Evicts(s) THEN [turn EXCEPT ![Head(order)] = 0] ELSE turn

\* The sessions and the queued jobs, as _dump_jobs sees them.
Dump == [jobs |-> queue, order |-> order, turn |-> turn]

-----------------------------------------------------------------------------
(* Submission                                                              *)

\* The job enters the priority queue.
Enter(j) ==
  /\ queue' = queue \cup {j}
  /\ owed' = owed \cup {j}

\* Every submission takes the next sequence number, an accepted one or not.
Number(j) ==
  /\ j \notin submitted
  /\ submitted' = submitted \cup {j}
  /\ seq' = [seq EXCEPT ![j] = nextSeq]
  /\ nextSeq' = nextSeq + 1

\* submit_brain: queue.put blocks while the queue is full.
SubmitBrain(j) ==
  /\ mode # "down"
  /\ Number(j)
  /\ future' = [future EXCEPT ![j] = "pending"]
  /\ \/ ~QueueFull /\ Enter(j) /\ UNCHANGED putting
     \/ QueueFull /\ putting' = putting \cup {j} /\ UNCHANGED <<queue, owed>>
  /\ UNCHANGED <<mode, hand, armVars, sessionVars, ledgerVars, snap, kept, lives, runs>>

\* A blocked put goes on when it finds a free slot.
PutUnblocks(j) ==
  /\ j \in putting
  /\ ~QueueFull
  /\ Enter(j)
  /\ putting' = putting \ {j}
  /\ UNCHANGED <<mode, seq, nextSeq, hand, armVars, future, sessionVars,
                 ledgerVars, snap, kept, lives, submitted, runs>>

\* try_submit_message: put_nowait, and None to the caller when the queue is full.
TrySubmitMessage(j) ==
  /\ mode # "down"
  /\ Number(j)
  /\ \/ ~QueueFull /\ Enter(j)
     \/ QueueFull /\ UNCHANGED <<queue, owed>>
  /\ UNCHANGED <<mode, putting, hand, armVars, future, sessionVars, ledgerVars,
                 snap, kept, lives, runs>>

\* The task awaiting submit_brain is cancelled, in queue.put or on the future.
CallerCancels(j) ==
  /\ future[j] = "pending"
  /\ future' = [future EXCEPT ![j] = "cancelled"]
  /\ putting' = putting \ {j}
  /\ UNCHANGED <<mode, seq, nextSeq, queue, hand, armVars, sessionVars,
                 ledgerVars, snap, kept, lives, history>>

-----------------------------------------------------------------------------
(* The worker, run_forever                                                 *)

\* queue.get completes; the loop has not yet been resumed with the job.
WorkerGet(j) ==
  /\ mode \in {"up", "closing"}
  /\ hand = {}
  /\ Frontmost(j)
  /\ queue' = queue \ {j}
  /\ hand' = {j}
  /\ UNCHANGED <<mode, seq, nextSeq, putting, armVars, future, sessionVars,
                 ledgerVars, snap, kept, lives, history>>

\* Fault: the loop spawns the arm and comes round with the same job.
WorkerSpawnKeeps(j) ==
  /\ j \in hand
  /\ pc' = [pc EXCEPT ![j] = "waiting"]
  /\ waiters' = Append(waiters, j)
  /\ UNCHANGED <<mode, queueVars, permits, future, sessionVars, ledgerVars, snap, kept,
                 lives, history>>

\* The loop makes an arm task of the job, which queues on the semaphore.
WorkerSpawn(j) ==
  /\ j \in hand
  /\ hand' = {}
  /\ pc' = [pc EXCEPT ![j] = "waiting"]
  /\ waiters' = Append(waiters, j)
  /\ UNCHANGED <<mode, seq, nextSeq, queue, putting, permits, future,
                 sessionVars, ledgerVars, snap, kept, lives, history>>

\* The loop ends once close was called and it finds the queue empty.
WorkerExit ==
  /\ mode = "closing"
  /\ queue = {} /\ hand = {}
  /\ mode' = "drained"
  /\ UNCHANGED <<queueVars, armVars, future, sessionVars, ledgerVars, snap, kept,
                 lives, history>>

-----------------------------------------------------------------------------
(* An arm, _handle                                                         *)

\* The semaphore is released however the job ended.
PermitsAfter(f, j) == permits + 1

\* Fault: arms do not wait for a permit.
ArmAcquireUnlimited(j) ==
  /\ waiters # <<>> /\ j = Head(waiters)
  /\ permits' = permits - 1
  /\ waiters' = Tail(waiters)
  /\ pc' = [pc EXCEPT ![j] = "started"]
  /\ runs' = [runs EXCEPT ![j] = @ + 1]
  /\ UNCHANGED <<mode, queueVars, future, sessionVars, ledgerVars, snap, kept, lives,
                 submitted, owed>>

\* The arm at the head of the semaphore's waiters begins to run.
ArmAcquire(j) ==
  /\ permits > 0
  /\ waiters # <<>> /\ j = Head(waiters)
  /\ permits' = permits - 1
  /\ waiters' = Tail(waiters)
  /\ pc' = [pc EXCEPT ![j] = "started"]
  /\ runs' = [runs EXCEPT ![j] = @ + 1]
  /\ UNCHANGED <<mode, queueVars, future, sessionVars, ledgerVars, snap, kept, lives,
                 submitted, owed>>

\* _prepare_brain_task: enrich_task returns and the session is looked up.
ArmPrepare(j) ==
  /\ pc[j] = "started"
  /\ pc' = [pc EXCEPT ![j] = "prepared"]
  /\ order' = TouchedOrder(SessionOf[j])
  /\ turn' = TouchedTurn(SessionOf[j])
  /\ UNCHANGED <<mode, queueVars, waiters, permits, future, ledgerVars, snap, kept,
                 lives, history>>

\* Fault: turn_index is not advanced.
TurnAfterStuck(j) == TouchedTurn(SessionOf[j])

\* The answer is appended to the session and turn_index advances.
TurnAfter(j) == [TouchedTurn(SessionOf[j]) EXCEPT ![SessionOf[j]] = @ + 1]

\* _run_brain_loop returns an answer, its own or the one for a time-out; in
\* the same step the summary with the new turn is queued for the writer.
ArmResponds(j) ==
  /\ pc[j] = "prepared"
  /\ pc' = [pc EXCEPT ![j] = "summary"]
  /\ order' = TouchedOrder(SessionOf[j])
  /\ turn' = TurnAfter(j)
  /\ rows' = Append(rows, [job |-> j, ok |-> TRUE, turn |-> turn'[SessionOf[j]]])
  /\ UNCHANGED <<mode, queueVars, waiters, permits, future, ledger, snap, kept, lives,
                 history>>

\* Preparation or the brain raises; the summary records the error.
ArmFails(j) ==
  /\ pc[j] \in {"started", "prepared"}
  /\ pc' = [pc EXCEPT ![j] = "summary"]
  /\ order' = TouchedOrder(SessionOf[j])
  /\ turn' = TouchedTurn(SessionOf[j])
  /\ rows' = Append(rows, [job |-> j, ok |-> FALSE, turn |-> turn'[SessionOf[j]]])
  /\ UNCHANGED <<mode, queueVars, waiters, permits, future, ledger, snap, kept, lives,
                 history>>

\* AsyncNotepadWriter._run writes the oldest rows. Rows of other components
\* share the batch, so any number up to BatchSize of these may be written.
WriteBatch ==
  /\ \E n \in 1..BatchSize :
       /\ n <= Len(rows)
       /\ ledger' = ledger \o SubSeq(rows, 1, n)
       /\ rows' = SubSeq(rows, n + 1, Len(rows))
  /\ UNCHANGED <<mode, queueVars, armVars, future, sessionVars, snap, kept, lives,
                 history>>

\* Fault: the caller is answered without waiting for the summary.
SummaryUnawaited(j, ok) == \E r \in Keys(rows \o ledger) : r.job = j /\ r.ok = ok

\* The summary future of j is resolved: its row is in the ledger.
SummaryWritten(j, ok) == \E r \in Keys(ledger) : r.job = j /\ r.ok = ok

\* The summary is written: settle the future, announce the end of the job and
\* leave the semaphore.
ArmFinish(j) ==
  /\ pc[j] = "summary"
  /\ \E ok \in BOOLEAN :
       LET outcome == IF ok THEN "result" ELSE "error" IN
       /\ SummaryWritten(j, ok)
       /\ future' = Settle(future, j, outcome)
       /\ permits' = PermitsAfter(outcome, j)
  /\ pc' = [pc EXCEPT ![j] = "none"]
  /\ owed' = owed \ {j}
  /\ UNCHANGED <<mode, queueVars, waiters, sessionVars, ledgerVars, snap, kept, lives,
                 submitted, runs>>

-----------------------------------------------------------------------------
(* The life of the process                                                 *)

\* start: sessions and jobs come back from what is read, without their futures.
Starts(data) ==
  /\ mode = "down"
  /\ lives < MaxLives
  /\ lives' = lives + 1
  /\ mode' = "up"
  /\ queue' = data.jobs
  /\ owed' = data.jobs
  /\ order' = data.order
  /\ turn' = data.turn
  /\ kept' = {}
  /\ UNCHANGED <<seq, nextSeq, putting, hand, armVars, future, ledgerVars, snap,
                 submitted, runs>>

Start == Starts(snap)

\* load_snapshot returns None on any exception: a file that cannot be read
\* counts as none.
StartUnread == Starts(EmptySnapshot)

\* save_snapshot returns False on any exception and nobody looks at that: one
\* before the file is opened leaves it, one after that leaves it torn.
SaveRaises == snap' \in {snap, EmptySnapshot}

\* _periodic_snapshot.
SaveSnapshot ==
  /\ mode \in {"up", "closing"}
  /\ snap' = Dump \/ SaveRaises
  /\ UNCHANGED <<mode, queueVars, armVars, future, sessionVars, ledgerVars, kept,
                 lives, history>>

\* close sets _stop.
Close ==
  /\ mode = "up"
  /\ mode' = "closing"
  /\ UNCHANGED <<queueVars, armVars, future, sessionVars, ledgerVars, snap, kept,
                 lives, history>>

\* Everything but the snapshot file dies with the process.
ProcessEnds ==
  /\ mode' = "down"
  /\ nextSeq' = 0
  /\ queue' = {} /\ putting' = {} /\ hand' = {}
  /\ pc' = [j \in Jobs |-> "none"]
  /\ waiters' = <<>>
  /\ permits' = MaxArms
  /\ future' = [j \in Jobs |-> IF future[j] = "pending" THEN "gone" ELSE future[j]]
  /\ order' = <<>>
  /\ turn' = [s \in Sessions |-> 0]
  /\ rows' = <<>>
  /\ ledger' = <<>>
  /\ owed' = {}
  /\ UNCHANGED <<seq, lives, submitted, runs>>

\* Fault: close does not gather the arm tasks.
GatheredNot == TRUE

\* Fault: close waits for the queue as well, which nobody empties any more.
GatheredJoined == Arms = {} /\ queue = {}

\* close waits for the arms that are left when the worker is gone.
Gathered == Arms = {}

\* The end of close: the last snapshot is written, or is not, and the process
\* exits.
CloseFinish ==
  /\ mode = "drained"
  /\ Gathered
  /\ \/ snap' = Dump /\ kept' = owed
     \/ SaveRaises /\ kept' = {}
  /\ ProcessEnds

\* The process is killed, by the supervisor or by a crash.
Kill ==
  /\ mode # "down"
  /\ ProcessEnds
  /\ kept' = {}
  /\ UNCHANGED snap

\* Killed inside save_snapshot, which truncates the file before it writes.
KillDuringSave ==
  /\ mode \in {"up", "closing"} \/ (mode = "drained" /\ Gathered)
  /\ ProcessEnds
  /\ kept' = {}
  /\ snap' = EmptySnapshot

-----------------------------------------------------------------------------
Init ==
  /\ mode = "down"
  /\ seq = [j \in Jobs |-> 0]
  /\ nextSeq = 0
  /\ queue = {} /\ putting = {} /\ hand = {}
  /\ pc = [j \in Jobs |-> "none"]
  /\ waiters = <<>>
  /\ permits = MaxArms
  /\ future = [j \in Jobs |-> "none"]
  /\ order = <<>>
  /\ turn = [s \in Sessions |-> 0]
  /\ rows = <<>> /\ ledger = <<>>
  /\ snap = EmptySnapshot /\ kept = {}
  /\ lives = 0
  /\ submitted = {} /\ owed = {}
  /\ runs = [j \in Jobs |-> 0]

Worker == (\E j \in Jobs : WorkerGet(j) \/ WorkerSpawn(j)) \/ WorkerExit

Arm(j) == ArmPrepare(j) \/ ArmResponds(j) \/ ArmFails(j) \/ ArmFinish(j)

Callers ==
  \/ \E j \in BrainJobs : SubmitBrain(j) \/ PutUnblocks(j) \/ CallerCancels(j)
  \/ \E j \in Jobs \ BrainJobs : TrySubmitMessage(j)

Process == Start \/ StartUnread \/ SaveSnapshot \/ Close \/ CloseFinish \/ Kill \/ KillDuringSave

Next ==
  \/ Callers
  \/ Worker
  \/ \E j \in Jobs : ArmAcquire(j) \/ Arm(j)
  \/ WriteBatch
  \/ Process

Spec == Init /\ [][Next]_vars

\* The event loop runs every ready task; the brain time-out and the client
\* time-outs under enrich_task end every wait inside an arm; the writer task
\* is alive. Nothing obliges callers, close, or a crash to happen.
Fairness ==
  /\ WF_vars(Worker)
  /\ WF_vars(WriteBatch)
  /\ WF_vars(CloseFinish)
  /\ \A j \in Jobs : WF_vars(ArmAcquire(j)) /\ WF_vars(Arm(j))
  /\ \A j \in BrainJobs : WF_vars(PutUnblocks(j))

FairSpec == Spec /\ Fairness

-----------------------------------------------------------------------------
(* Invariants                                                              *)

\* The semaphore counts: permits and running arms add up to MaxArms, through
\* failures, cancelled callers and restarts (_arm_semaphore in _handle).
PermitsAccounted == permits + Cardinality(Running) = MaxArms

\* No job gets lost or doubled inside a process: what was accepted or restored
\* and is not finished is in the queue, in the worker's hand or in an arm.
OwedJobsCarried ==
  /\ owed = queue \cup hand \cup Arms
  /\ queue \cap hand = {} /\ queue \cap Arms = {} /\ hand \cap Arms = {}

\* A caller that still waits in submit_brain waits for something: its job is
\* blocked in put or is carried by the scheduler.
WaitingCallerHasJob ==
  \A j \in BrainJobs :
    future[j] = "pending" => j \in putting \cup owed

\* The snapshot is never cleared, so a finished job may be restored and run
\* again, but never more than once in each life of the process.
OneRunPerLife == \A j \in Jobs : runs[j] <= lives

\* While no session is evicted, the answers of a session reach the ledger in
\* the order of their turns, one row for each turn, although the jobs of the
\* session run in concurrent arms (turn_index in _enqueue_task_summary).
LedgerInTurnOrder ==
  Cardinality(Sessions) <= MaxSessions =>
    LET written == ledger \o rows IN
    \A m, n \in DOMAIN written :
      /\ m < n
      /\ written[m].ok /\ written[n].ok
      /\ SessionOf[written[m].job] = SessionOf[written[n].job]
      => written[m].turn < written[n].turn

-----------------------------------------------------------------------------
(* The inductive invariant behind them                                     *)

\* A process that is down has no jobs, no arms and no waiting callers.
DownIsEmpty ==
  mode = "down" =>
    /\ queue = {} /\ putting = {} /\ hand = {}
    /\ Arms = {}
    /\ waiters = <<>> /\ rows = <<>> /\ ledger = <<>>

\* Only a live worker holds a job, and it holds one at a time.
WorkerHoldsOne ==
  /\ hand # {} => mode \in {"up", "closing"}
  /\ \A j, k \in hand : j = k

\* Jobs in the process, or waiting to get in, or saved, were submitted, and a
\* job that was not has no history.
KnownJobs ==
  /\ owed \cup putting \cup snap.jobs \subseteq submitted
  /\ putting \cap owed = {}
  /\ \A j \in Jobs \ submitted : future[j] = "none" /\ runs[j] = 0

\* The semaphore queue holds arms that wait for it, each of them once.
WaitersWait ==
  /\ \A i \in DOMAIN waiters : pc[waiters[i]] = "waiting"
  /\ \A i, k \in DOMAIN waiters : waiters[i] = waiters[k] => i = k

\* A job that has yet to begin in this life has run in earlier lives only.
RunsToCome ==
  /\ mode # "down" => lives > 0
  /\ \A j \in putting \cup queue \cup hand : runs[j] < lives
  /\ \A j \in Jobs : pc[j] = "waiting" => runs[j] < lives

\* What an orderly close has kept is in the file until the next start.
KeptIsSaved ==
  /\ kept \subseteq snap.jobs
  /\ mode # "down" => kept = {}

Places         == DownIsEmpty /\ OwedJobsCarried /\ WorkerHoldsOne
SemaphoreState == IsFiniteSet(Running) /\ PermitsAccounted
RunCounts      == RunsToCome /\ OneRunPerLife

\* Implies the invariants on places, permits, callers and runs.
IInv ==
  /\ TypeOK
  /\ Places
  /\ KnownJobs
  /\ WaitersWait
  /\ SemaphoreState
  /\ RunCounts
  /\ WaitingCallerHasJob
  /\ KeptIsSaved

\* The session table, and the saved one, list a session once.
TableSound ==
  /\ \A i, k \in DOMAIN order : order[i] = order[k] => i = k
  /\ \A i, k \in DOMAIN snap.order : snap.order[i] = snap.order[k] => i = k

\* No answer is recorded with a turn its session has yet to reach.
TurnsReached ==
  Cardinality(Sessions) <= MaxSessions =>
    LET written == ledger \o rows IN
    \A n \in DOMAIN written :
      written[n].ok => written[n].turn <= turn[SessionOf[written[n].job]]

\* Implies the invariant on the order of the ledger.
TurnInv == IInv /\ TableSound /\ TurnsReached /\ LedgerInTurnOrder

-----------------------------------------------------------------------------
(* Action properties                                                       *)

\* A caller is answered only when the summary of its job is in the ledger, and
\* with the outcome the ledger records.
AnswerAfterLedger ==
  [][\A j \in BrainJobs :
       future[j] = "pending" /\ future'[j] \in {"result", "error"}
       => \E r \in Keys(ledger) : r.job = j /\ r.ok = (future'[j] = "result")]_vars

\* What a caller was told is never changed, whatever order cancellation,
\* time-out and answer come in.
AnswerIsFinal ==
  [][\A j \in Jobs : future[j] \in Settled => future'[j] = future[j]]_vars

\* An orderly close leaves no accepted job behind: those it did not finish come
\* back with the next start, unless its save raised, which close ignores, or the
\* file cannot be read then.
CloseKeepsJobs == [][Start => kept \subseteq owed']_vars

\* lisa/conductor.py:36 "Higher numeric priority should run first".
HigherPriorityRunsFirst ==
  [][\A j, k \in Jobs :
       pc[j] = "waiting" /\ pc'[j] = "started" /\ pc[k] = "waiting"
       => Priority[k] <= Priority[j]]_vars

-----------------------------------------------------------------------------
(* Liveness                                                                *)

\* Every accepted job is finished, or left to the snapshot by close, unless the
\* process dies.
OwedJobsFinish == \A j \in Jobs : j \in owed ~> j \notin owed

\* Every caller of submit_brain is answered while the process is not closed.
CallersAnswered ==
  \A j \in BrainJobs :
    future[j] = "pending" ~> future[j] # "pending" \/ mode # "up"

\* close returns, however many jobs are queued or running when it is called.
CloseReturns == mode = "closing" ~> mode = "down"
=============================================================================

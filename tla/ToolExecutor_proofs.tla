------------------------ MODULE ToolExecutor_proofs ------------------------
(***************************************************************************)
(* Machine-checked proofs about ToolExecutor, for every set of tasks,      *)
(* sessions, calls and workers, every number of turns, cache size and      *)
(* number of sheds, with or without database failures.                     *)
(***************************************************************************)
EXTENDS ToolExecutor, SequenceTheorems, TLAPS

\* No two jobs of one task are waiting or at work at the same time.
OneJobEach ==
  /\ \A i, k \in 1 .. Len(queue) : queue[i].task = queue[k].task => i = k
  /\ \A v, w \in Workers :
       wjob[v] # NoJob /\ wjob[w] # NoJob /\ wjob[v].task = wjob[w].task => v = w
  /\ \A w \in Workers, i \in 1 .. Len(queue) :
       wjob[w] # NoJob => wjob[w].task # queue[i].task

\* The task of a job waits for it, or has been cut off.
Awaited(j) ==
  \/ pc[j.task] = "waiting" /\ turn[j.task] = j.turn /\ reply[j.task] = "pending"
  \/ pc[j.task] = "over" /\ SessionOf[j.task] \in left

JobsAwaited ==
  /\ \A i \in 1 .. Len(queue) : Awaited(queue[i])
  /\ \A w \in Workers : wjob[w] # NoJob => Awaited(wjob[w])

\* A worker has a job exactly when it is at work, and has started nothing for
\* a job it has just taken.
WorkersAtWork ==
  \A w \in Workers :
    /\ wpc[w] \in {"idle", "gone", "dead"} <=> wjob[w] = NoJob
    /\ wpc[w] = "taken" => wjob[w] \notin due

\* A task that thinks has begun its first turn.
TurnsCounted == \A t \in Tasks : pc[t] = "thinking" => turn[t] >= 1

\* The inductive invariant.
IInv == /\ TypeOK /\ TurnsCounted /\ OneJobEach /\ JobsAwaited /\ WorkersAtWork
        /\ RunsAreAudited /\ WaiterHasJob /\ MemoryFreed

-----------------------------------------------------------------------------
(* Types                                                                   *)

\* The types of the working memories, and of what Answer writes.
MemoryType ==
  /\ memory \in [Sessions -> Seq(Calls) \cup {NoMemory}]
  /\ \A s \in Sessions : memory[s] # NoMemory => Len(memory[s]) <= CacheLimit

AnswerVarsType ==
  /\ reply \in [Tasks -> Replies]
  /\ wpc \in [Workers -> WorkerPc]
  /\ wjob \in [Workers -> Job \cup {NoJob}]
  /\ tries \in [Workers -> 0 .. 4]
  /\ good \in [Workers -> BOOLEAN]

\* A working memory, made where there was none, is a short cache.
LEMMA PresentType ==
  ASSUME TypeOK, NEW s \in Sessions
  PROVE  Present(s) \in Seq(Calls) /\ Len(Present(s)) <= CacheLimit
<1>1. CASE memory[s] = NoMemory
  <2>1. Present(s) = <<>>
    BY <1>1 DEF Present
  <2>2. QED
    BY <2>1, EmptySeq, ExecutorAssumption
<1>2. CASE memory[s] # NoMemory
  BY <1>2 DEF Present, TypeOK
<1>3. QED
  BY <1>1, <1>2

\* Writing one short cache keeps the type of the memory.
LEMMA WriteType ==
  ASSUME TypeOK, NEW s \in Sessions, NEW cache \in Seq(Calls),
         Len(cache) <= CacheLimit, memory' = [memory EXCEPT ![s] = cache]
  PROVE  MemoryType'
<1>1. memory' \in [Sessions -> Seq(Calls) \cup {NoMemory}]
  BY DEF TypeOK
<1>2. memory'[s] = cache /\ \A r \in Sessions \ {s} : memory'[r] = memory[r]
  BY DEF TypeOK
<1>3. QED
  BY <1>1, <1>2 DEF TypeOK, MemoryType

\* To look at a working memory keeps its type.
LEMMA TouchType ==
  ASSUME TypeOK, NEW t \in Tasks, Touch(t)
  PROVE  MemoryType'
<1>1. SessionOf[t] \in Sessions
  BY ExecutorAssumption
<1>2. QED
  BY <1>1, PresentType, WriteType DEF Touch

\* So does a fresh start.
LEMMA EmptyType ==
  ASSUME TypeOK, NEW s \in Sessions, memory' = [memory EXCEPT ![s] = <<>>]
  PROVE  MemoryType'
<1>1. <<>> \in Seq(Calls) /\ Len(<<>>) = 0
  BY EmptySeq
<1>2. Len(<<>>) <= CacheLimit
  BY <1>1, ExecutorAssumption
<1>3. QED
  BY <1>1, <1>2, WriteType

\* So does clear_task.
LEMMA FreeType ==
  ASSUME TypeOK, NEW t \in Tasks, Free(t)
  PROVE  MemoryType'
BY DEF TypeOK, MemoryType, Free

\* The cache stays within its limit.
LEMMA StoredType ==
  ASSUME TypeOK, NEW t \in Tasks, NEW c \in Calls,
         memory' = [memory EXCEPT ![SessionOf[t]] = Stored(Present(SessionOf[t]), c)]
  PROVE  MemoryType'
<1> DEFINE s == SessionOf[t]
           cache == Present(s)
<1>1. s \in Sessions
  BY ExecutorAssumption
<1>2. cache \in Seq(Calls) /\ Len(cache) <= CacheLimit
  BY <1>1, PresentType
<1> HIDE DEF cache
<1>3. Stored(cache, c) \in Seq(Calls) /\ Len(Stored(cache, c)) <= CacheLimit
  <2>1. CASE c \in ToSet(cache)
    BY <2>1, <1>2 DEF Stored
  <2>2. CASE c \notin ToSet(cache) /\ Len(cache) >= CacheLimit
    <3>1. cache # <<>>
      BY <2>2, <1>2, ExecutorAssumption
    <3>2. Tail(cache) \in Seq(Calls) /\ Len(Tail(cache)) = Len(cache) - 1
      BY <3>1, <1>2, HeadTailProperties
    <3>3. QED
      BY <2>2, <3>2, <1>2, AppendProperties, LenProperties, ExecutorAssumption DEF Stored
  <2>3. CASE c \notin ToSet(cache) /\ Len(cache) < CacheLimit
    BY <2>3, <1>2, AppendProperties, LenProperties, ExecutorAssumption DEF Stored
  <2>4. QED
    BY <2>1, <2>2, <2>3, <1>2, LenProperties, ExecutorAssumption
<1>4. QED
  BY <1>1, <1>3, WriteType DEF cache

\* The reply, and the worker that becomes idle, keep their types.
LEMMA AnswerType ==
  ASSUME TypeOK, NEW w \in Workers, NEW value \in {"ok", "error", "denied"},
         Answer(w, value)
  PROVE  AnswerVarsType'
<1>1. reply' \in [Tasks -> Replies]
  <2>1. value \in Replies
    BY DEF Replies
  <2>2. QED
    BY <2>1 DEF Answer, Replied, TypeOK
<1>2. wpc' \in [Workers -> WorkerPc] /\ wjob' \in [Workers -> Job \cup {NoJob}]
  BY DEF Answer, Stands, TypeOK, WorkerPc
<1>3. tries' \in [Workers -> 0 .. 4]
  BY DEF Answer, TypeOK
<1>4. good' \in [Workers -> BOOLEAN]
  BY DEF Answer, TypeOK
<1>5. QED
  BY <1>1, <1>2, <1>3, <1>4 DEF AnswerVarsType

\* Every variable keeps its type through every step.
LEMMA TypeStep == TypeOK /\ WorkersAtWork /\ TurnsCounted /\ [Next]_vars => TypeOK'
<1> SUFFICES ASSUME TypeOK, WorkersAtWork, TurnsCounted, [Next]_vars PROVE TypeOK'
  OBVIOUS
<1>1. ASSUME NEW t \in Tasks, Enrich(t) PROVE TypeOK'
  BY <1>1, EmptyType
     DEF Enrich, TypeOK, TaskPc, Goes, Stands, WorkerPc, taskVars, workerVars, poolVars,
         history, MemoryType
<1>2. ASSUME NEW t \in Tasks, Command(t) PROVE TypeOK'
  BY <1>2, ExecutorAssumption
     DEF Command, Abandons, TypeOK, TaskPc, Goes, Stands, WorkerPc, taskVars,
         workerVars, poolVars, history
<1>3. ASSUME NEW t \in Tasks, Begin(t) PROVE TypeOK'
  BY <1>3, TouchType, ExecutorAssumption
     DEF Begin, TypeOK, TaskPc, Goes, Stands, WorkerPc, taskVars, workerVars, poolVars,
         history, MemoryType
<1>4. ASSUME NEW t \in Tasks, Conclude(t) PROVE TypeOK'
  BY <1>4, TouchType, ExecutorAssumption
     DEF Conclude, TypeOK, TaskPc, Goes, Stands, WorkerPc, taskVars, workerVars,
         poolVars, history, MemoryType
<1>5. ASSUME NEW t \in Tasks, NEW c \in Calls, UseTool(t, c) PROVE TypeOK'
  <2>1. turn[t] \in 1 .. MaxIterations
    BY <1>5, ExecutorAssumption DEF UseTool, TurnsCounted, TypeOK
  <2>2. [task |-> t, turn |-> turn[t], call |-> c] \in Job
    BY <2>1 DEF Job
  <2>3. queue' \in Seq(Job)
    BY <1>5, <2>2, AppendProperties DEF UseTool, TypeOK
  <2>4. MemoryType'
    BY <1>5, TouchType DEF UseTool
  <2>5. QED
    BY <1>5, <2>3, <2>4
       DEF UseTool, Replies, MemoryType, TypeOK, TaskPc, Goes, Stands, WorkerPc,
           taskVars, workerVars, poolVars, history
<1>6. ASSUME NEW t \in Tasks, Observe(t) PROVE TypeOK'
  BY <1>6, TouchType, ExecutorAssumption
     DEF Observe, TypeOK, TaskPc, Goes, Stands, WorkerPc, taskVars, workerVars,
         poolVars, history, MemoryType
<1>7. ASSUME NEW t \in Tasks, NextTurn(t) PROVE TypeOK'
  BY <1>7, TouchType, ExecutorAssumption
     DEF NextTurn, TypeOK, TaskPc, Goes, Stands, WorkerPc, taskVars, workerVars,
         poolVars, history, MemoryType
<1>8. ASSUME NEW t \in Tasks, Settle(t) PROVE TypeOK'
  BY <1>8, TouchType, ExecutorAssumption
     DEF Settle, TypeOK, TaskPc, Goes, Stands, WorkerPc, taskVars, workerVars, poolVars,
         history, MemoryType
<1>9. ASSUME NEW t \in Tasks, Finish(t) PROVE TypeOK'
  BY <1>9, FreeType
     DEF Finish, TypeOK, TaskPc, Goes, Stands, WorkerPc, taskVars, workerVars, poolVars,
         history, MemoryType
<1>10. ASSUME NEW t \in Tasks, StoreFails(t) PROVE TypeOK'
  BY <1>10, ExecutorAssumption
     DEF StoreFails, Abandons, TypeOK, TaskPc, Goes, Stands, WorkerPc, taskVars,
         workerVars, poolVars, history
<1>11. ASSUME NEW t \in Tasks, BrainTimeout(t) PROVE TypeOK'
  BY <1>11, ExecutorAssumption
     DEF BrainTimeout, Abandons, TypeOK, TaskPc, Goes, Stands, WorkerPc, taskVars,
         workerVars, poolVars, history
<1>12. ASSUME NEW w \in Workers, Take(w) PROVE TypeOK'
  BY <1>12, HeadTailProperties
     DEF Take, TypeOK, TaskPc, Goes, Stands, WorkerPc, taskVars, workerVars, poolVars,
         history
<1>13. ASSUME NEW w \in Workers, Deny(w) PROVE TypeOK'
  BY <1>13, AnswerType
     DEF Deny, Recorded, Answer, TypeOK, TaskPc, Goes, Stands, WorkerPc, taskVars,
         workerVars, poolVars, history, AnswerVarsType
<1>14. ASSUME NEW w \in Workers, Recall(w) PROVE TypeOK'
  <2>1. wjob[w] \in Job
    BY <1>14 DEF Recall, WorkersAtWork, TypeOK
  <2>2. wjob[w].task \in Tasks
    BY <2>1 DEF Job
  <2>3. MemoryType'
    BY <1>14, <2>2, TouchType DEF Recall
  <2>4. AnswerVarsType'
    BY <1>14, AnswerType DEF Recall
  <2>5. QED
    BY <1>14, <2>3, <2>4
       DEF Recall, TypeOK, TaskPc, Goes, Stands, WorkerPc, taskVars, workerVars,
           poolVars, history, MemoryType, AnswerVarsType
<1>15. ASSUME NEW w \in Workers, Invoke(w) PROVE TypeOK'
  <2>1. wjob[w] \in Job
    BY <1>15 DEF Invoke, WorkersAtWork, TypeOK
  <2>2. wjob[w].task \in Tasks
    BY <2>1 DEF Job
  <2>3. MemoryType'
    BY <1>15, <2>2, TouchType DEF Invoke
  <2>4. good' \in [Workers -> BOOLEAN]
    BY <1>15 DEF Invoke, TypeOK, workerVars
  <2>5. tries' \in [Workers -> 0 .. 4]
    <3>1. tries' = [tries EXCEPT ![w] = 1] \/ tries' = tries
      BY <1>15, Zenon DEF Invoke
    <3>2. tries \in [Workers -> 0 .. 4]
      BY DEF TypeOK
    <3>3. QED
      BY <3>1, <3>2
  <2>6. wpc' \in [Workers -> WorkerPc] /\ due' \subseteq Job
    BY <1>15, <2>1 DEF Invoke, TypeOK, WorkerPc, Stands
  <2>7. QED
    BY <1>15, <2>3, <2>4, <2>5, <2>6
       DEF Invoke, TypeOK, taskVars, poolVars, history, MemoryType
<1>16. ASSUME NEW w \in Workers, Returns(w) PROVE TypeOK'
  <2>1. wjob[w] \in Job
    BY <1>16 DEF Returns, WorkersAtWork, TypeOK
  <2>2. QED
    BY <1>16, <2>1
       DEF Returns, Recorded, TypeOK, TaskPc, Goes, Stands, WorkerPc, taskVars,
           workerVars, poolVars, history
<1>17. ASSUME NEW w \in Workers, NEW e \in BOOLEAN, Raises(w, e) PROVE TypeOK'
  <2>1. good' \in [Workers -> BOOLEAN]
    BY <1>17 DEF Raises, TypeOK
  <2>2. tries' \in [Workers -> 0 .. 4]
    <3>1. CASE Repeats(tries[w], e)
      <4>1. tries[w] \in 0 .. 3
        BY <3>1, SMT DEF Repeats, TypeOK
      <4>2. tries' = [tries EXCEPT ![w] = @ + 1]
        BY <1>17, <3>1, Zenon DEF Raises
      <4>3. QED
        BY <4>1, <4>2 DEF TypeOK
    <3>2. CASE ~Repeats(tries[w], e)
      BY <1>17, <3>2 DEF Raises, TypeOK
    <3>3. QED
      BY <3>1, <3>2
  <2>3. wpc' \in [Workers -> WorkerPc]
    BY <1>17 DEF Raises, TypeOK, WorkerPc, Stands
  <2>4. QED
    BY <1>17, <2>1, <2>2, <2>3 DEF Raises, TypeOK, taskVars, poolVars, history
<1>18. ASSUME NEW w \in Workers, Keep(w) PROVE TypeOK'
  <2>1. wjob[w] \in Job
    BY <1>18 DEF Keep, WorkersAtWork, TypeOK
  <2>2. wjob[w].task \in Tasks /\ wjob[w].call \in Calls
    BY <2>1 DEF Job
  <2>3. MemoryType'
    BY <1>18, <2>2, StoredType DEF Keep
  <2>4. QED
    BY <1>18, <2>3
       DEF Keep, TypeOK, TaskPc, Goes, Stands, WorkerPc, taskVars, workerVars, poolVars,
           history, MemoryType
<1>19. ASSUME NEW w \in Workers, Audit(w) PROVE TypeOK'
  BY <1>19, AnswerType
     DEF Audit, Recorded, Answer, TypeOK, TaskPc, Goes, Stands, WorkerPc, taskVars,
         workerVars, poolVars, history, AnswerVarsType
<1>20. ASSUME NEW w \in Workers, AuditFails(w) PROVE TypeOK'
  BY <1>20
     DEF AuditFails, Recorded, TypeOK, TaskPc, Goes, Stands, WorkerPc, taskVars,
         workerVars, poolVars, history
<1>21. ASSUME NEW w \in Workers, WorkerDies(w) PROVE TypeOK'
  <2>1. wjob[w] \in Job
    BY <1>21 DEF WorkerDies, WorkersAtWork, TypeOK
  <2>2. QED
    BY <1>21, <2>1
       DEF WorkerDies, Recorded, TypeOK, TaskPc, Goes, Stands, WorkerPc, taskVars,
           workerVars, poolVars, history
<1>22. ASSUME NEW w \in Workers, Leave(w) PROVE TypeOK'
  BY <1>22
     DEF Leave, Recorded, TypeOK, TaskPc, Goes, Stands, WorkerPc, taskVars, workerVars,
         poolVars, history
<1>23. ASSUME Shed PROVE TypeOK'
  BY <1>23, ExecutorAssumption
     DEF Shed, TypeOK, TaskPc, Goes, Stands, WorkerPc, taskVars, workerVars, poolVars,
         history
<1>24. ASSUME Restart PROVE TypeOK'
  BY <1>24
     DEF Restart, Recorded, TypeOK, TaskPc, Goes, Stands, WorkerPc, taskVars,
         workerVars, poolVars, history
<1>25. ASSUME UNCHANGED vars PROVE TypeOK'
  BY <1>25 DEF TypeOK, vars, taskVars, workerVars, poolVars, history
<1>26. QED
  BY <1>1, <1>2, <1>3, <1>4, <1>5, <1>6, <1>7, <1>8, <1>9, <1>10, <1>11, <1>12, <1>13,
     <1>14, <1>15, <1>16, <1>17, <1>18, <1>19, <1>20, <1>21, <1>22, <1>23, <1>24, <1>25
     DEF Next, TaskStep, WorkerStep

-----------------------------------------------------------------------------
(* Jobs                                                                    *)

\* How a step moves jobs: it queues one, hands the first to an idle worker,
\* takes one from a worker, or leaves all where they are.
LEMMA JobMoves ==
  [Next]_vars =>
    \/ \E t \in Tasks, c \in Calls : UseTool(t, c)
    \/ \E w \in Workers : Take(w)
    \/ \E w \in Workers : wjob' = [wjob EXCEPT ![w] = NoJob] /\ queue' = queue
    \/ wjob' = wjob /\ queue' = queue
<1> SUFFICES ASSUME [Next]_vars
             PROVE  \/ \E t \in Tasks, c \in Calls : UseTool(t, c)
                    \/ \E w \in Workers : Take(w)
                    \/ \E w \in Workers :
                         wjob' = [wjob EXCEPT ![w] = NoJob] /\ queue' = queue
                    \/ wjob' = wjob /\ queue' = queue
  OBVIOUS
<1> USE DEF workerVars, vars
<1>1. ASSUME NEW t \in Tasks, Enrich(t) \/ Command(t) \/ StoreFails(t) \/ BrainTimeout(t)
      PROVE  wjob' = wjob /\ queue' = queue
  BY <1>1 DEF Enrich, Command, StoreFails, BrainTimeout, Abandons
<1>2. ASSUME NEW t \in Tasks, TaskStep(t), ~(\E c \in Calls : UseTool(t, c))
      PROVE  wjob' = wjob /\ queue' = queue
  BY <1>2 DEF TaskStep, Begin, Conclude, Observe, NextTurn, Settle, Finish
<1>3. ASSUME NEW w \in Workers, Deny(w) \/ Recall(w) \/ Audit(w) \/ WorkerDies(w)
      PROVE  wjob' = [wjob EXCEPT ![w] = NoJob] /\ queue' = queue
  BY <1>3 DEF Deny, Recall, Audit, WorkerDies, Answer
<1>4. ASSUME NEW w \in Workers, WorkerStep(w) \/ Leave(w), ~Take(w),
             ~(Deny(w) \/ Recall(w) \/ Audit(w) \/ WorkerDies(w))
      PROVE  wjob' = wjob /\ queue' = queue
  BY <1>4 DEF WorkerStep, Invoke, Returns, Raises, Keep, AuditFails, Leave
<1>5. ASSUME Shed \/ Restart PROVE wjob' = wjob /\ queue' = queue
  BY <1>5 DEF Shed, Restart
<1>6. CASE UNCHANGED vars
  BY <1>6
<1>7. CASE Next
  BY <1>1, <1>2, <1>3, <1>4, <1>5, <1>7 DEF Next
<1>8. QED
  BY <1>6, <1>7

\* No task gets a second job while its first one is waiting or at work.
LEMMA OneJobEachStep == TypeOK /\ OneJobEach /\ JobsAwaited /\ [Next]_vars => OneJobEach'
<1> SUFFICES ASSUME TypeOK, OneJobEach, JobsAwaited, [Next]_vars PROVE OneJobEach'
  OBVIOUS
<1>1. ASSUME NEW t \in Tasks, NEW c \in Calls, UseTool(t, c) PROVE OneJobEach'
  <2> DEFINE j == [task |-> t, turn |-> turn[t], call |-> c]
  <2>1. /\ \A i \in 1 .. Len(queue) : queue[i].task # t
        /\ \A w \in Workers : wjob[w] # NoJob => wjob[w].task # t
    BY <1>1 DEF UseTool, JobsAwaited, Awaited
  <2>2. queue' = Append(queue, j) /\ wjob' = wjob /\ j.task = t
    BY <1>1 DEF UseTool, workerVars
  <2> HIDE DEF j
  <2>3. queue \in Seq(Job)
    BY DEF TypeOK
  <2>4. /\ Len(queue') = Len(queue) + 1
        /\ \A i \in 1 .. Len(queue) : queue'[i] = queue[i]
        /\ queue'[Len(queue) + 1] = j
    BY <2>2, <2>3
  <2>5. \A i, k \in 1 .. Len(queue') : queue'[i].task = queue'[k].task => i = k
    BY <2>1, <2>2, <2>3, <2>4, LenProperties DEF OneJobEach
  <2>6. \A w \in Workers, i \in 1 .. Len(queue') :
          wjob'[w] # NoJob => wjob'[w].task # queue'[i].task
    BY <2>1, <2>2, <2>3, <2>4, LenProperties DEF OneJobEach
  <2>7. QED
    BY <2>2, <2>5, <2>6 DEF OneJobEach
<1>2. ASSUME NEW w \in Workers, Take(w) PROVE OneJobEach'
  <2>1. queue \in Seq(Job) /\ queue # <<>>
    BY <1>2 DEF Take, TypeOK
  <2>2. /\ Head(queue) = queue[1] /\ Len(queue) \in Nat /\ Len(queue) >= 1
        /\ Tail(queue) \in Seq(Job) /\ Len(Tail(queue)) = Len(queue) - 1
        /\ \A i \in 1 .. Len(Tail(queue)) : Tail(queue)[i] = queue[i + 1]
    BY <2>1, HeadTailProperties, LenProperties
  <2>3. queue' = Tail(queue) /\ wjob' = [wjob EXCEPT ![w] = queue[1]]
    BY <1>2, <2>2 DEF Take
  <2>4. wjob'[w] = queue[1] /\ \A v \in Workers \ {w} : wjob'[v] = wjob[v]
    BY <2>3 DEF TypeOK
  <2>5. \A i, k \in 1 .. Len(queue') : queue'[i].task = queue'[k].task => i = k
    BY <2>2, <2>3 DEF OneJobEach
  <2>6. \A v \in Workers, i \in 1 .. Len(queue') :
          wjob'[v] # NoJob => wjob'[v].task # queue'[i].task
    BY <2>2, <2>3, <2>4 DEF OneJobEach
  <2>7. \A u, v \in Workers :
          wjob'[u] # NoJob /\ wjob'[v] # NoJob /\ wjob'[u].task = wjob'[v].task => u = v
    BY <2>2, <2>4 DEF OneJobEach
  <2>8. QED
    BY <2>5, <2>6, <2>7 DEF OneJobEach
<1>3. ASSUME NEW w \in Workers, wjob' = [wjob EXCEPT ![w] = NoJob], queue' = queue
      PROVE  OneJobEach'
  <2>1. wjob'[w] = NoJob /\ \A v \in Workers \ {w} : wjob'[v] = wjob[v]
    BY <1>3 DEF TypeOK
  <2>2. QED
    BY <1>3, <2>1 DEF OneJobEach
<1>4. ASSUME wjob' = wjob, queue' = queue PROVE OneJobEach'
  BY <1>4 DEF OneJobEach
<1>5. QED
  BY <1>1, <1>2, <1>3, <1>4, JobMoves

\* Every job has been made by a task.
LEMMA JobsHaveTasks ==
  ASSUME TypeOK
  PROVE  /\ \A i \in 1 .. Len(queue) : queue[i] \in Job /\ queue[i].task \in Tasks
         /\ \A w \in Workers :
              wjob[w] # NoJob => wjob[w] \in Job /\ wjob[w].task \in Tasks
<1>1. \A j \in Job : j.task \in Tasks
  BY DEF Job
<1>2. queue \in Seq(Job) /\ \A w \in Workers : wjob[w] \in Job \cup {NoJob}
  BY DEF TypeOK
<1>3. \A i \in 1 .. Len(queue) : queue[i] \in Job
  BY <1>2, ElementOfSeq
<1>4. QED
  BY <1>1, <1>2, <1>3

\* A step of a task that has no job leaves the other tasks' jobs awaited.
LEMMA OthersStayAwaited ==
  ASSUME JobsAwaited, TypeOK, NEW t \in Tasks,
         \A i \in 1 .. Len(queue) : queue[i].task # t,
         \A w \in Workers : wjob[w] # NoJob => wjob[w].task # t,
         queue' = queue, wjob' = wjob, left \subseteq left',
         \A u \in Tasks \ {t} : pc'[u] = pc[u] /\ turn'[u] = turn[u] /\ reply'[u] = reply[u]
  PROVE  JobsAwaited'
BY JobsHaveTasks DEF JobsAwaited, Awaited

\* A task waits for its job until it is answered or cut off.
LEMMA JobsAwaitedStep ==
  TypeOK /\ OneJobEach /\ JobsAwaited /\ WorkersAtWork /\ [Next]_vars => JobsAwaited'
<1> SUFFICES ASSUME TypeOK, OneJobEach, JobsAwaited, WorkersAtWork, [Next]_vars
             PROVE  JobsAwaited'
  OBVIOUS
<1> USE DEF taskVars, workerVars, history
<1>1. ASSUME NEW t \in Tasks,
             Enrich(t) \/ Begin(t) \/ Conclude(t) \/ NextTurn(t) \/ Settle(t) \/ Finish(t)
      PROVE  JobsAwaited'
  <2>1. pc[t] # "waiting" /\ pc[t] # "over"
    BY <1>1 DEF Enrich, Begin, Conclude, NextTurn, Settle, Finish
  <2>2. /\ \A i \in 1 .. Len(queue) : queue[i].task # t
        /\ \A w \in Workers : wjob[w] # NoJob => wjob[w].task # t
    BY <2>1 DEF JobsAwaited, Awaited
  <2>3. queue' = queue /\ wjob' = wjob /\ left' = left /\ reply' = reply
    BY <1>1 DEF Enrich, Begin, Conclude, NextTurn, Settle, Finish
  <2>4. \A u \in Tasks \ {t} : pc'[u] = pc[u] /\ turn'[u] = turn[u]
    BY <1>1 DEF Enrich, Begin, Conclude, NextTurn, Settle, Finish, Goes, TypeOK
  <2>5. QED
    BY <2>2, <2>3, <2>4, OthersStayAwaited
<1>2. ASSUME NEW t \in Tasks, Observe(t) PROVE JobsAwaited'
  <2>1. /\ \A i \in 1 .. Len(queue) : queue[i].task # t
        /\ \A w \in Workers : wjob[w] # NoJob => wjob[w].task # t
    BY <1>2 DEF Observe, JobsAwaited, Awaited
  <2>2. \A u \in Tasks \ {t} : pc'[u] = pc[u]
    BY <1>2 DEF Observe, Goes, TypeOK
  <2>3. QED
    BY <1>2, <2>1, <2>2, OthersStayAwaited DEF Observe
<1>3. ASSUME NEW t \in Tasks, Abandons(t) PROVE JobsAwaited'
  <2>1. pc'[t] = "over" /\ \A u \in Tasks \ {t} : pc'[u] = pc[u]
    BY <1>3 DEF Abandons, Goes, TypeOK
  <2>2. /\ SessionOf[t] \in left' /\ left \subseteq left'
        /\ queue' = queue /\ wjob' = wjob /\ turn' = turn /\ reply' = reply
    BY <1>3 DEF Abandons
  <2>3. /\ \A i \in 1 .. Len(queue) : queue[i].task \in Tasks
        /\ \A w \in Workers : wjob[w] # NoJob => wjob[w].task \in Tasks
    BY JobsHaveTasks
  <2>4. QED
    BY <2>1, <2>2, <2>3 DEF JobsAwaited, Awaited
<1>4. ASSUME NEW t \in Tasks, NEW c \in Calls, UseTool(t, c) PROVE JobsAwaited'
  <2> DEFINE j == [task |-> t, turn |-> turn[t], call |-> c]
  <2>1. /\ \A i \in 1 .. Len(queue) : queue[i].task # t
        /\ \A w \in Workers : wjob[w] # NoJob => wjob[w].task # t
    BY <1>4 DEF UseTool, JobsAwaited, Awaited
  <2>2. /\ pc'[t] = "waiting" /\ reply'[t] = "pending" /\ turn' = turn
        /\ \A u \in Tasks \ {t} : pc'[u] = pc[u] /\ reply'[u] = reply[u]
    BY <1>4 DEF UseTool, Goes, TypeOK
  <2>3. queue' = Append(queue, j) /\ wjob' = wjob /\ left' = left
    BY <1>4 DEF UseTool
  <2>4. j.task = t /\ j.turn = turn[t]
    OBVIOUS
  <2> HIDE DEF j
  <2>5. queue \in Seq(Job)
    BY DEF TypeOK
  <2>6. /\ Len(queue') = Len(queue) + 1
        /\ \A i \in 1 .. Len(queue) : queue'[i] = queue[i]
        /\ queue'[Len(queue) + 1] = j
    BY <2>3, <2>5
  <2>7. (\A i \in 1 .. Len(queue) : Awaited(queue[i]))'
    BY <2>1, <2>2, <2>3, <2>4, <2>5, <2>6, JobsHaveTasks, LenProperties
       DEF JobsAwaited, Awaited
  <2>8. (\A w \in Workers : wjob[w] # NoJob => Awaited(wjob[w]))'
    BY <2>1, <2>2, <2>3, JobsHaveTasks DEF JobsAwaited, Awaited
  <2>9. QED
    BY <2>7, <2>8 DEF JobsAwaited
<1>5. ASSUME NEW w \in Workers, Take(w) PROVE JobsAwaited'
  <2>1. queue \in Seq(Job) /\ queue # <<>>
    BY <1>5 DEF Take, TypeOK
  <2>2. /\ Head(queue) = queue[1] /\ Len(queue) \in Nat /\ Len(queue) >= 1
        /\ Len(Tail(queue)) = Len(queue) - 1
        /\ \A i \in 1 .. Len(Tail(queue)) : Tail(queue)[i] = queue[i + 1]
    BY <2>1, HeadTailProperties, LenProperties
  <2>3. /\ queue' = Tail(queue) /\ wjob' = [wjob EXCEPT ![w] = queue[1]]
        /\ UNCHANGED <<pc, turn, reply, left>>
    BY <1>5, <2>2 DEF Take
  <2>4. wjob'[w] = queue[1] /\ \A v \in Workers \ {w} : wjob'[v] = wjob[v]
    BY <2>3 DEF TypeOK
  <2>5. QED
    BY <2>2, <2>3, <2>4 DEF JobsAwaited, Awaited
<1>6. ASSUME NEW w \in Workers, NEW value, Answer(w, value), wjob[w] # NoJob,
             UNCHANGED <<pc, turn, queue, left>>
      PROVE  JobsAwaited'
  <2>1. wjob'[w] = NoJob /\ \A v \in Workers \ {w} : wjob'[v] = wjob[v]
    BY <1>6 DEF Answer, TypeOK
  <2>2. \A u \in Tasks \ {wjob[w].task} : reply'[u] = reply[u]
    BY <1>6 DEF Answer, Replied, TypeOK
  <2>3. /\ \A i \in 1 .. Len(queue) : queue[i].task \in Tasks \ {wjob[w].task}
        /\ \A v \in Workers \ {w} : wjob[v] # NoJob => wjob[v].task \in Tasks \ {wjob[w].task}
    BY <1>6, JobsHaveTasks DEF OneJobEach
  <2>4. QED
    BY <1>6, <2>1, <2>2, <2>3 DEF JobsAwaited, Awaited
<1>7. ASSUME NEW w \in Workers, WorkerDies(w) PROVE JobsAwaited'
  <2>1. wjob'[w] = NoJob /\ \A v \in Workers \ {w} : wjob'[v] = wjob[v]
    BY <1>7 DEF WorkerDies, TypeOK
  <2>2. UNCHANGED <<pc, turn, reply, left, queue>>
    BY <1>7 DEF WorkerDies
  <2>3. QED
    BY <2>1, <2>2 DEF JobsAwaited, Awaited
<1>8. ASSUME UNCHANGED <<pc, turn, reply, left, queue, wjob>> PROVE JobsAwaited'
  BY <1>8 DEF JobsAwaited, Awaited
<1>9. ASSUME NEW t \in Tasks, Command(t) \/ StoreFails(t) \/ BrainTimeout(t) PROVE JobsAwaited'
  BY <1>3, <1>9 DEF Command, StoreFails, BrainTimeout
<1>10. ASSUME NEW w \in Workers, Deny(w) \/ Recall(w) \/ Audit(w) PROVE JobsAwaited'
  <2>1. wjob[w] # NoJob
    BY <1>10 DEF Deny, Recall, Audit, WorkersAtWork
  <2>2. /\ \E value : Answer(w, value)
        /\ UNCHANGED <<pc, turn, queue, left>>
    BY <1>10 DEF Deny, Recall, Audit
  <2>3. QED
    BY <1>6, <2>1, <2>2
<1>11. ASSUME NEW w \in Workers,
              \/ Invoke(w) \/ Returns(w) \/ (\E e \in BOOLEAN : Raises(w, e))
              \/ Keep(w) \/ AuditFails(w) \/ Leave(w)
       PROVE  JobsAwaited'
  BY <1>8, <1>11 DEF Invoke, Returns, Raises, Keep, AuditFails, Leave
<1>12. ASSUME Shed \/ Restart \/ UNCHANGED vars PROVE JobsAwaited'
  BY <1>8, <1>12 DEF Shed, Restart, vars
<1>13. QED
  BY <1>1, <1>2, <1>4, <1>5, <1>7, <1>9, <1>10, <1>11, <1>12 DEF Next, TaskStep, WorkerStep

-----------------------------------------------------------------------------
(* Workers and the audit                                                   *)

\* A worker has a job exactly when it is at work.
LEMMA WorkersAtWorkStep ==
  TypeOK /\ OneJobEach /\ WorkersAtWork /\ RunsAreAudited /\ [Next]_vars => WorkersAtWork'
<1> SUFFICES ASSUME TypeOK, OneJobEach, WorkersAtWork, RunsAreAudited, [Next]_vars
             PROVE  WorkersAtWork'
  OBVIOUS
<1> USE DEF workerVars
<1>1. ASSUME NEW w \in Workers, Take(w) PROVE WorkersAtWork'
  <2>1. queue \in Seq(Job) /\ queue # <<>>
    BY <1>1 DEF Take, TypeOK
  <2>2. Head(queue) = queue[1] /\ 1 \in 1 .. Len(queue)
    BY <2>1, HeadTailProperties, LenProperties
  <2>3. queue[1] # NoJob
    BY <2>2, JobsHaveTasks, NullAssumption
  <2>4. queue[1] \notin due
    BY <2>2 DEF OneJobEach, RunsAreAudited, InHand
  <2>5. /\ wjob'[w] = queue[1] /\ wpc'[w] = "taken" /\ due' = due
        /\ \A v \in Workers \ {w} : wjob'[v] = wjob[v] /\ wpc'[v] = wpc[v]
    BY <1>1, <2>2 DEF Take, Stands, TypeOK
  <2>6. QED
    BY <2>3, <2>4, <2>5 DEF WorkersAtWork
<1>2. ASSUME NEW w \in Workers, Deny(w) \/ Recall(w) \/ Audit(w) \/ WorkerDies(w)
      PROVE  WorkersAtWork'
  <2>1. /\ wpc'[w] \in {"idle", "dead"} /\ wjob'[w] = NoJob /\ due' \subseteq due
        /\ \A v \in Workers \ {w} : wjob'[v] = wjob[v] /\ wpc'[v] = wpc[v]
    BY <1>2 DEF Deny, Recall, Audit, WorkerDies, Answer, Recorded, Stands, TypeOK
  <2>2. QED
    BY <2>1 DEF WorkersAtWork
<1>3. ASSUME NEW w \in Workers, Invoke(w) PROVE WorkersAtWork'
  <2>1. wjob[w] # NoJob
    BY <1>3 DEF Invoke, WorkersAtWork
  <2>2. /\ wpc'[w] \in {"running", "auditing"} /\ wjob' = wjob
        /\ due' \subseteq due \cup {wjob[w]}
        /\ \A v \in Workers \ {w} : wpc'[v] = wpc[v]
    BY <1>3 DEF Invoke, Stands, TypeOK
  <2>3. \A v \in Workers \ {w} : wjob[v] # NoJob => wjob[v] # wjob[w]
    BY <2>1 DEF OneJobEach
  <2>4. QED
    BY <2>1, <2>2, <2>3 DEF WorkersAtWork
<1>4. ASSUME NEW w \in Workers, Returns(w) \/ Keep(w) \/ \E e \in BOOLEAN : Raises(w, e)
      PROVE  WorkersAtWork'
  <2>1. /\ wpc[w] \in {"running", "logging"} /\ wpc'[w] \in {"running", "logging", "auditing"}
        /\ wjob' = wjob /\ due' = due
        /\ \A v \in Workers \ {w} : wpc'[v] = wpc[v]
    BY <1>4 DEF Returns, Keep, Raises, Stands, TypeOK
  <2>2. QED
    BY <2>1 DEF WorkersAtWork
<1>5. ASSUME NEW w \in Workers, AuditFails(w) PROVE WorkersAtWork'
  <2>1. wpc' = wpc /\ wjob' = wjob /\ due' \subseteq due
    BY <1>5 DEF AuditFails, Recorded
  <2>2. QED
    BY <2>1 DEF WorkersAtWork
<1>6. ASSUME NEW w \in Workers, Leave(w) PROVE WorkersAtWork'
  <2>1. /\ wpc[w] = "idle" /\ wpc'[w] = "gone" /\ wjob' = wjob /\ due' = due
        /\ \A v \in Workers \ {w} : wpc'[v] = wpc[v]
    BY <1>6 DEF Leave, Stands, TypeOK
  <2>2. QED
    BY <2>1 DEF WorkersAtWork
<1>7. CASE Restart
  BY <1>7 DEF Restart, WorkersAtWork
<1>8. ASSUME UNCHANGED <<wpc, wjob, due>> PROVE WorkersAtWork'
  BY <1>8 DEF WorkersAtWork
<1>9. ASSUME NEW t \in Tasks,
             \/ Enrich(t) \/ Command(t) \/ StoreFails(t) \/ BrainTimeout(t) \/ TaskStep(t)
      PROVE  WorkersAtWork'
  BY <1>8, <1>9 DEF Enrich, Command, StoreFails, BrainTimeout, Abandons, TaskStep,
     Begin, Conclude, UseTool, Observe, NextTurn, Settle, Finish
<1>10. ASSUME Shed \/ UNCHANGED vars PROVE WorkersAtWork'
  BY <1>8, <1>10 DEF Shed, vars
<1>11. QED
  BY <1>1, <1>2, <1>3, <1>4, <1>5, <1>6, <1>7, <1>9, <1>10 DEF Next, WorkerStep

\* A handler's start is never lost from sight before its audit is written.
LEMMA RunsAreAuditedStep ==
  TypeOK /\ WorkersAtWork /\ RunsAreAudited /\ [Next]_vars => RunsAreAudited'
<1> SUFFICES ASSUME TypeOK, WorkersAtWork, RunsAreAudited, [Next]_vars PROVE RunsAreAudited'
  OBVIOUS
<1> USE DEF workerVars
<1>1. ASSUME NEW w \in Workers, Take(w) PROVE RunsAreAudited'
  <2>1. wjob[w] = NoJob
    BY <1>1 DEF Take, WorkersAtWork
  <2>2. due' = due /\ \A v \in Workers \ {w} : wjob'[v] = wjob[v]
    BY <1>1 DEF Take, TypeOK
  <2>3. QED
    BY <2>1, <2>2 DEF RunsAreAudited, InHand
<1>2. ASSUME NEW w \in Workers, Deny(w) \/ Recall(w) \/ Audit(w) \/ WorkerDies(w)
      PROVE  RunsAreAudited'
  <2>1. wjob[w] \notin due' /\ due' \subseteq due
    BY <1>2 DEF Deny, Recall, Audit, WorkerDies, Recorded, WorkersAtWork
  <2>2. \A v \in Workers \ {w} : wjob'[v] = wjob[v]
    BY <1>2 DEF Deny, Recall, Audit, WorkerDies, Answer, TypeOK
  <2>3. QED
    BY <2>1, <2>2 DEF RunsAreAudited, InHand
<1>3. ASSUME NEW w \in Workers, Invoke(w) PROVE RunsAreAudited'
  <2>1. wjob' = wjob /\ due' \subseteq due \cup {wjob[w]}
    BY <1>3 DEF Invoke
  <2>2. wjob[w] # NoJob
    BY <1>3 DEF Invoke, WorkersAtWork
  <2>3. QED
    BY <2>1, <2>2 DEF RunsAreAudited, InHand
<1>4. ASSUME wjob' = wjob, due' \subseteq due PROVE RunsAreAudited'
  BY <1>4 DEF RunsAreAudited, InHand
<1>5. ASSUME NEW t \in Tasks,
             \/ Enrich(t) \/ Command(t) \/ StoreFails(t) \/ BrainTimeout(t) \/ TaskStep(t)
      PROVE  RunsAreAudited'
  BY <1>4, <1>5 DEF Enrich, Command, StoreFails, BrainTimeout, Abandons, TaskStep,
     Begin, Conclude, UseTool, Observe, NextTurn, Settle, Finish
<1>6. ASSUME NEW w \in Workers,
             \/ Returns(w) \/ (\E e \in BOOLEAN : Raises(w, e)) \/ Keep(w)
             \/ AuditFails(w) \/ Leave(w)
      PROVE  RunsAreAudited'
  BY <1>4, <1>6 DEF Returns, Raises, Keep, AuditFails, Recorded, Leave
<1>7. ASSUME Shed \/ Restart \/ UNCHANGED vars PROVE RunsAreAudited'
  BY <1>4, <1>7 DEF Shed, Restart, vars
<1>8. QED
  BY <1>1, <1>2, <1>3, <1>5, <1>6, <1>7 DEF Next, WorkerStep

-----------------------------------------------------------------------------
(* Callers                                                                 *)

\* A caller whose job is still known, before and after, keeps it.
LEMMA CallersKeepJobs ==
  ASSUME WaiterHasJob, Unfinished \cup dropped \subseteq (Unfinished \cup dropped)',
         \A t \in Tasks : pc'[t] = "waiting" /\ reply'[t] = "pending" =>
           pc[t] = "waiting" /\ reply[t] = "pending" /\ turn'[t] = turn[t]
  PROVE  WaiterHasJob'
BY DEF WaiterHasJob

\* A step neither answers a caller without a reply nor forgets its job.
LEMMA WaiterHasJobStep ==
  TypeOK /\ WorkersAtWork /\ WaiterHasJob /\ [Next]_vars => WaiterHasJob'
<1> SUFFICES ASSUME TypeOK, WorkersAtWork, WaiterHasJob, [Next]_vars PROVE WaiterHasJob'
  OBVIOUS
<1> USE DEF taskVars, workerVars, history
<1>1. ASSUME NEW t \in Tasks, NEW c \in Calls, UseTool(t, c) PROVE WaiterHasJob'
  <2> DEFINE j == [task |-> t, turn |-> turn[t], call |-> c]
  <2>1. queue' = Append(queue, j) /\ UNCHANGED <<wjob, dropped, turn>>
    BY <1>1 DEF UseTool
  <2>2. j.task = t /\ j.turn = turn[t]
    OBVIOUS
  <2> HIDE DEF j
  <2>3. queue \in Seq(Job)
    BY DEF TypeOK
  <2>4. /\ Len(queue') = Len(queue) + 1 /\ Len(queue) \in Nat
        /\ \A i \in 1 .. Len(queue) : queue'[i] = queue[i]
        /\ queue'[Len(queue) + 1] = j
    BY <2>1, <2>3
  <2>5. ToSet(queue) \subseteq ToSet(queue') /\ j \in ToSet(queue')
    BY <2>1, <2>3, <2>4 DEF ToSet
  <2>6. \A u \in Tasks \ {t} : pc'[u] = pc[u] /\ reply'[u] = reply[u]
    BY <1>1 DEF UseTool, Goes, TypeOK
  <2>7. QED
    BY <2>1, <2>2, <2>5, <2>6 DEF WaiterHasJob, Unfinished, InHand
<1>2. ASSUME NEW w \in Workers, Take(w) PROVE WaiterHasJob'
  <2>1. queue \in Seq(Job) /\ queue # <<>> /\ wjob[w] = NoJob
    BY <1>2 DEF Take, TypeOK, WorkersAtWork
  <2>2. /\ Head(queue) = queue[1] /\ Len(queue) \in Nat /\ Len(queue) >= 1
        /\ Tail(queue) \in Seq(Job) /\ Len(Tail(queue)) = Len(queue) - 1
        /\ \A i \in 1 .. Len(Tail(queue)) : Tail(queue)[i] = queue[i + 1]
    BY <2>1, HeadTailProperties, LenProperties
  <2>3. queue[1] # NoJob
    BY <2>2, JobsHaveTasks, NullAssumption
  <2>4. /\ queue' = Tail(queue) /\ wjob'[w] = queue[1]
        /\ \A v \in Workers \ {w} : wjob'[v] = wjob[v]
        /\ UNCHANGED <<pc, turn, reply, dropped>>
    BY <1>2, <2>2 DEF Take, TypeOK
  <2>5. \A i \in 2 .. Len(queue) : queue[i] = queue'[i - 1] /\ i - 1 \in 1 .. Len(queue')
    BY <2>2, <2>4
  <2>6. \A j \in ToSet(queue) : j = queue[1] \/ j \in ToSet(queue')
    <3>1. SUFFICES ASSUME NEW i \in 1 .. Len(queue), i # 1
                   PROVE  queue[i] \in ToSet(queue')
      BY <2>1, LenProperties DEF ToSet
    <3>2. queue[i] = queue'[i - 1] /\ i - 1 \in 1 .. Len(queue')
      BY <2>2, <2>5, <3>1
    <3>3. DOMAIN queue' = 1 .. Len(queue')
      BY <2>2, <2>4, LenProperties
    <3>4. QED
      BY <3>2, <3>3 DEF ToSet
  <2>7. Unfinished \subseteq Unfinished'
    BY <2>1, <2>3, <2>4, <2>6 DEF Unfinished, InHand
  <2>8. QED
    BY <2>4, <2>7, CallersKeepJobs
<1>3. ASSUME NEW w \in Workers, NEW value \in {"ok", "error", "denied"}, Answer(w, value),
             UNCHANGED <<pc, turn, queue, dropped>>
      PROVE  WaiterHasJob'
  <2>1. \A v \in Workers \ {w} : wjob'[v] = wjob[v]
    BY <1>3 DEF Answer, TypeOK
  <2>2. Unfinished \ {wjob[w]} \subseteq Unfinished'
    BY <1>3, <2>1 DEF Unfinished, InHand
  <2>3. ASSUME NEW t \in Tasks, pc'[t] = "waiting", reply'[t] = "pending"
        PROVE  /\ pc[t] = "waiting" /\ reply[t] = "pending"
               /\ ~(wjob[w].task = t /\ wjob[w].turn = turn[t])
    BY <1>3, <2>3 DEF Answer, Replied, TypeOK
  <2>4. QED
    BY <1>3, <2>2, <2>3 DEF WaiterHasJob
<1>4. ASSUME NEW w \in Workers, WorkerDies(w) PROVE WaiterHasJob'
  <2>1. /\ \A v \in Workers \ {w} : wjob'[v] = wjob[v]
        /\ UNCHANGED <<pc, turn, reply, queue>> /\ dropped' = dropped \cup {wjob[w]}
    BY <1>4 DEF WorkerDies, TypeOK
  <2>2. Unfinished \cup dropped \subseteq (Unfinished \cup dropped)'
    BY <2>1 DEF Unfinished, InHand
  <2>3. QED
    BY <2>1, <2>2, CallersKeepJobs
<1>5. ASSUME NEW t \in Tasks,
             UNCHANGED <<queue, wjob, dropped, reply>>,
             pc'[t] # "waiting",
             \A u \in Tasks \ {t} : pc'[u] = pc[u] /\ turn'[u] = turn[u]
      PROVE  WaiterHasJob'
  BY <1>5, CallersKeepJobs DEF Unfinished, InHand
<1>6. ASSUME NEW t \in Tasks,
             \/ Enrich(t) \/ Abandons(t) \/ Begin(t) \/ Conclude(t) \/ Observe(t)
             \/ NextTurn(t) \/ Settle(t) \/ Finish(t)
      PROVE  WaiterHasJob'
  <2>1. UNCHANGED <<queue, wjob, dropped, reply>>
    BY <1>6 DEF Enrich, Abandons, Begin, Conclude, Observe, NextTurn, Settle, Finish
  <2>2. /\ pc'[t] # "waiting"
        /\ \A u \in Tasks \ {t} : pc'[u] = pc[u] /\ turn'[u] = turn[u]
    BY <1>6 DEF Enrich, Abandons, Begin, Conclude, Observe, NextTurn, Settle, Finish,
       Goes, TypeOK
  <2>3. QED
    BY <1>5, <2>1, <2>2
<1>7. ASSUME UNCHANGED <<pc, turn, reply, queue, wjob, dropped>> PROVE WaiterHasJob'
  BY <1>7 DEF WaiterHasJob, Unfinished, InHand
<1>8. ASSUME NEW t \in Tasks, Command(t) \/ StoreFails(t) \/ BrainTimeout(t) PROVE WaiterHasJob'
  BY <1>6, <1>8 DEF Command, StoreFails, BrainTimeout
<1>9. ASSUME NEW w \in Workers, Deny(w) \/ Recall(w) \/ Audit(w) PROVE WaiterHasJob'
  <2>1. /\ \E value \in {"ok", "error", "denied"} : Answer(w, value)
        /\ UNCHANGED <<pc, turn, queue, dropped>>
    BY <1>9 DEF Deny, Recall, Audit
  <2>2. QED
    BY <1>3, <2>1
<1>10. ASSUME NEW w \in Workers,
              \/ Invoke(w) \/ Returns(w) \/ (\E e \in BOOLEAN : Raises(w, e))
              \/ Keep(w) \/ AuditFails(w) \/ Leave(w)
       PROVE  WaiterHasJob'
  BY <1>7, <1>10 DEF Invoke, Returns, Raises, Keep, AuditFails, Leave
<1>11. ASSUME Shed \/ Restart \/ UNCHANGED vars PROVE WaiterHasJob'
  BY <1>7, <1>11 DEF Shed, Restart, vars
<1>12. QED
  BY <1>1, <1>2, <1>4, <1>6, <1>8, <1>9, <1>10, <1>11 DEF Next, TaskStep, WorkerStep

-----------------------------------------------------------------------------
(* Working memory                                                          *)

\* Writing the memory of a session that is in use, or is known to be left
\* behind, keeps MemoryFreed.
LEMMA WriteKeepsFreed ==
  ASSUME TypeOK, MemoryFreed, NEW s \in Sessions,
         \A r \in Sessions \ {s} : memory'[r] = memory[r],
         left \subseteq left',
         \A t \in Tasks : SessionOf[t] # s => Active(t) = Active(t)',
         s \in left' \/ \E t \in Tasks : SessionOf[t] = s /\ Active(t)'
  PROVE  MemoryFreed'
BY DEF MemoryFreed

\* No step leaves a working memory behind without a reason.
LEMMA MemoryFreedStep ==
  TypeOK /\ WorkersAtWork /\ JobsAwaited /\ MemoryFreed /\ [Next]_vars => MemoryFreed'
<1> SUFFICES ASSUME TypeOK, WorkersAtWork, JobsAwaited, MemoryFreed, [Next]_vars
             PROVE  MemoryFreed'
  OBVIOUS
<1> USE DEF taskVars, workerVars, history
<1>1. ASSUME NEW t \in Tasks,
             \/ Enrich(t) \/ Begin(t) \/ Conclude(t) \/ Observe(t) \/ NextTurn(t)
             \/ Settle(t) \/ \E c \in Calls : UseTool(t, c)
      PROVE  MemoryFreed'
  <2>1. SessionOf[t] \in Sessions
    BY ExecutorAssumption
  <2>2. /\ pc'[t] \notin {"new", "over"} /\ left' = left
        /\ \A u \in Tasks \ {t} : pc'[u] = pc[u]
    BY <1>1 DEF Enrich, Begin, Conclude, Observe, NextTurn, Settle, UseTool, Goes, TypeOK
  <2>3. \A r \in Sessions \ {SessionOf[t]} : memory'[r] = memory[r]
    BY <1>1 DEF Enrich, Begin, Conclude, Observe, NextTurn, Settle, UseTool, Touch, TypeOK
  <2>4. QED
    BY <2>1, <2>2, <2>3, WriteKeepsFreed DEF Active
<1>2. ASSUME NEW t \in Tasks, Command(t) \/ StoreFails(t) \/ BrainTimeout(t) PROVE MemoryFreed'
  <2>1. SessionOf[t] \in Sessions
    BY ExecutorAssumption
  <2>2. /\ left' = left \cup {SessionOf[t]} /\ memory' = memory
        /\ \A u \in Tasks \ {t} : pc'[u] = pc[u]
    BY <1>2 DEF Command, StoreFails, BrainTimeout, Abandons, Goes, TypeOK
  <2>3. QED
    BY <2>1, <2>2, WriteKeepsFreed DEF Active
<1>3. ASSUME NEW t \in Tasks, Finish(t) PROVE MemoryFreed'
  <2>1. SessionOf[t] \in Sessions
    BY ExecutorAssumption
  <2>2. /\ memory'[SessionOf[t]] = NoMemory /\ left' = left
        /\ \A r \in Sessions \ {SessionOf[t]} : memory'[r] = memory[r]
        /\ \A u \in Tasks \ {t} : pc'[u] = pc[u]
    BY <1>3, <2>1 DEF Finish, Free, Goes, TypeOK
  <2>3. QED
    BY <2>2 DEF MemoryFreed, Active
<1>4. ASSUME NEW w \in Workers, Recall(w) \/ Invoke(w) \/ Keep(w) PROVE MemoryFreed'
  <2> DEFINE s == SessionOf[wjob[w].task]
  <2>1. wjob[w] # NoJob
    BY <1>4 DEF Recall, Invoke, Keep, WorkersAtWork
  <2>2. wjob[w].task \in Tasks /\ s \in Sessions
    BY <2>1, JobsHaveTasks, ExecutorAssumption
  <2>3. Awaited(wjob[w])
    BY <2>1 DEF JobsAwaited
  <2>4. s \in left \/ Active(wjob[w].task)
    BY <2>3 DEF Awaited, Active
  <2>5. /\ \A r \in Sessions \ {s} : memory'[r] = memory[r]
        /\ UNCHANGED <<pc, left>>
    BY <1>4, <2>2 DEF Recall, Invoke, Keep, Touch, TypeOK
  <2>6. QED
    BY <2>2, <2>4, <2>5, WriteKeepsFreed DEF Active
<1>5. ASSUME UNCHANGED <<pc, memory, left>> PROVE MemoryFreed'
  BY <1>5 DEF MemoryFreed, Active
<1>6. ASSUME NEW w \in Workers,
             \/ Take(w) \/ Deny(w) \/ Returns(w) \/ (\E e \in BOOLEAN : Raises(w, e))
             \/ Audit(w) \/ AuditFails(w) \/ WorkerDies(w) \/ Leave(w)
      PROVE  MemoryFreed'
  BY <1>5, <1>6 DEF Take, Deny, Returns, Raises, Audit, AuditFails, WorkerDies, Leave
<1>7. ASSUME Shed \/ Restart \/ UNCHANGED vars PROVE MemoryFreed'
  BY <1>5, <1>7 DEF Shed, Restart, vars
<1>8. QED
  BY <1>1, <1>2, <1>3, <1>4, <1>6, <1>7 DEF Next, TaskStep, WorkerStep

-----------------------------------------------------------------------------
(* The invariant and the theorems                                          *)

\* A turn is begun before the task thinks in it.
LEMMA TurnsCountedStep == TypeOK /\ TurnsCounted /\ [Next]_vars => TurnsCounted'
<1> SUFFICES ASSUME TypeOK, TurnsCounted, [Next]_vars PROVE TurnsCounted'
  OBVIOUS
<1> USE DEF taskVars
<1>1. ASSUME NEW t \in Tasks, Begin(t) \/ NextTurn(t) PROVE TurnsCounted'
  <2>1. turn[t] \in Nat
    BY DEF TypeOK
  <2>2. /\ turn'[t] >= 1
        /\ \A u \in Tasks \ {t} : pc'[u] = pc[u] /\ turn'[u] = turn[u]
    BY <1>1, <2>1 DEF Begin, NextTurn, Goes, TypeOK
  <2>3. QED
    BY <2>2 DEF TurnsCounted
<1>2. ASSUME NEW t \in Tasks, pc'[t] # "thinking", turn' = turn,
             \A u \in Tasks \ {t} : pc'[u] = pc[u]
      PROVE  TurnsCounted'
  BY <1>2 DEF TurnsCounted
<1>3. ASSUME NEW t \in Tasks,
             \/ Enrich(t) \/ Abandons(t) \/ Conclude(t) \/ Observe(t) \/ Settle(t)
             \/ Finish(t) \/ \E c \in Calls : UseTool(t, c)
      PROVE  TurnsCounted'
  <2>1. /\ pc'[t] # "thinking" /\ turn' = turn
        /\ \A u \in Tasks \ {t} : pc'[u] = pc[u]
    BY <1>3 DEF Enrich, Abandons, Conclude, Observe, Settle, Finish, UseTool, Goes, TypeOK
  <2>2. QED
    BY <1>2, <2>1
<1>4. ASSUME NEW t \in Tasks, Command(t) \/ StoreFails(t) \/ BrainTimeout(t) PROVE TurnsCounted'
  BY <1>3, <1>4 DEF Command, StoreFails, BrainTimeout
<1>5. ASSUME UNCHANGED <<pc, turn>> PROVE TurnsCounted'
  BY <1>5 DEF TurnsCounted
<1>6. ASSUME NEW w \in Workers, WorkerStep(w) \/ Leave(w) PROVE TurnsCounted'
  BY <1>5, <1>6 DEF WorkerStep, Take, Deny, Recall, Invoke, Returns, Raises, Keep, Audit,
     AuditFails, WorkerDies, Leave
<1>7. ASSUME Shed \/ Restart \/ UNCHANGED vars PROVE TurnsCounted'
  BY <1>5, <1>7 DEF Shed, Restart, vars
<1>8. QED
  BY <1>1, <1>3, <1>4, <1>6, <1>7 DEF Next, TaskStep

\* The invariant holds at the start.
LEMMA InvInit == Init => IInv
<1> SUFFICES ASSUME Init PROVE IInv
  OBVIOUS
<1>1. Len(queue) = 0 /\ queue \in Seq(Job)
  BY EmptySeq DEF Init
<1>2. TypeOK
  <2>1. good \in [Workers -> BOOLEAN] /\ shedding \in BOOLEAN
    BY DEF Init
  <2>2. 0 \in 0 .. 4 /\ 0 \in 0 .. MaxIterations /\ 0 \in 0 .. MaxSheds
    BY ExecutorAssumption
  <2>3. /\ tries \in [Workers -> 0 .. 4] /\ turn \in [Tasks -> 0 .. MaxIterations]
        /\ sheds \in 0 .. MaxSheds
    BY <2>2, Zenon DEF Init
  <2>4. QED
    BY <1>1, <2>1, <2>3 DEF Init, TypeOK, TaskPc, Replies, WorkerPc
<1>3. TurnsCounted /\ OneJobEach /\ JobsAwaited /\ WorkersAtWork
  BY <1>1 DEF Init, TurnsCounted, OneJobEach, JobsAwaited, WorkersAtWork
<1>4. RunsAreAudited /\ WaiterHasJob /\ MemoryFreed
  BY DEF Init, RunsAreAudited, WaiterHasJob, MemoryFreed
<1>5. QED
  BY <1>2, <1>3, <1>4 DEF IInv

\* The invariant is inductive.
LEMMA InvStep == IInv /\ [Next]_vars => IInv'
BY TypeStep, TurnsCountedStep, OneJobEachStep, JobsAwaitedStep, WorkersAtWorkStep,
   RunsAreAuditedStep, WaiterHasJobStep, MemoryFreedStep DEF IInv

\* The invariant holds throughout.
LEMMA InvHolds == Spec => []IInv
<1>1. Init => IInv
  BY InvInit
<1>2. IInv /\ [Next]_vars => IInv'
  BY InvStep
<1>3. QED
  BY <1>1, <1>2, PTL DEF Spec

\* The variables of the loop, the pool and the memory keep their types; the
\* idempotency cache of a session never outgrows its limit.
THEOREM ExecutorTypes == Spec => []TypeOK
<1>1. IInv => TypeOK
  BY DEF IInv
<1>2. QED
  BY <1>1, InvHolds, PTL

\* Whatever fails, a call whose handler was started is at work or audited.
THEOREM EveryRunIsAudited == Spec => []RunsAreAudited
<1>1. IInv => RunsAreAudited
  BY DEF IInv
<1>2. QED
  BY <1>1, InvHolds, PTL

\* Only the death of a worker can cost a caller its job.
THEOREM EveryWaiterHasAJob == Spec => []WaiterHasJob
<1>1. IInv => WaiterHasJob
  BY DEF IInv
<1>2. QED
  BY <1>1, InvHolds, PTL

\* Working memory outlives the tasks of its session only where a task went
\* without clear_task.
THEOREM MemoryIsFreed == Spec => []MemoryFreed
<1>1. IInv => MemoryFreed
  BY DEF IInv
<1>2. QED
  BY <1>1, InvHolds, PTL

-----------------------------------------------------------------------------
(* A task that has its session to itself                                   *)

\* A lookup of the task in the cache, or a result of it for the cache, is due.
Early(t) ==
  \/ pc[t] = "thinking"
  \/ \E j \in ToSet(queue) : j.task = t
  \/ \E w \in Workers : wpc[w] \in {"taken", "running", "logging"} /\ wjob[w].task = t

\* No other task uses the session.
Undisturbed(t) ==
  \A u \in Tasks \ {t} : SessionOf[u] = SessionOf[t] => ~Busy(u)

\* While the task may call a tool again, each call of it that a tool has
\* completed is in the cache, or with the worker that is about to put it there.
Remembers(t) ==
  turn[t] < MaxIterations \/ Early(t) =>
    \A j \in done : j.task = t =>
      \/ j.call \in ToSet(Present(SessionOf[t]))
      \/ \E w \in Workers : wpc[w] = "logging" /\ wjob[w] = j

\* The cache has room for what the turn may still put there.
RoomLeft(t) ==
  LET size == Len(Present(SessionOf[t]))
  IN size <= turn[t] /\ (Early(t) => size < turn[t])

\* The tool of a task at work has not completed this call before.
FirstRun(t) ==
  \A w \in Workers : wpc[w] = "running" /\ wjob[w].task = t =>
    ~ \E k \in done : k.task = t /\ k.call = wjob[w].call

\* What holds of a task that has its session to itself.
AloneInv(t) ==
  /\ pc[t] # "new"
  /\ Busy(t) => Undisturbed(t) /\ Remembers(t) /\ RoomLeft(t)
  /\ FirstRun(t)

\* The inductive invariant of OnceAlone, beside IInv.
OnceInv ==
  /\ \A t \in Tasks : pc[t] \in {"new", "ready"} => turn[t] = 0
  /\ \A j \in done : pc[j.task] # "new"
  /\ \A t \in alone : AloneInv(t)
  /\ OnceAlone

\* No handler of a task is started, and none returns.
LEMMA FirstRunKeeps ==
  ASSUME NEW t \in Tasks, FirstRun(t),
         \A j \in done' : j.task = t => j \in done,
         \A w \in Workers : wpc'[w] = "running" /\ wjob'[w].task = t =>
           wpc[w] = "running" /\ wjob'[w] = wjob[w]
  PROVE  FirstRun(t)'
BY DEF FirstRun

\* A step that has nothing to do with the calls and the memory of a task.
LEMMA CalmKeeps ==
  ASSUME NEW t \in Tasks, AloneInv(t), pc'[t] # "new", turn'[t] = turn[t],
         Busy(t)' => Busy(t),
         \A u \in Tasks \ {t} :
           Busy(t) /\ SessionOf[u] = SessionOf[t] /\ Busy(u)' => Busy(u),
         Early(t)' => Early(t),
         Busy(t) => Present(SessionOf[t])' = Present(SessionOf[t]),
         \A j \in done' : j.task = t => j \in done,
         \A w \in Workers : wpc[w] = "logging" /\ wjob[w].task = t =>
           wpc'[w] = "logging" /\ wjob'[w] = wjob[w],
         FirstRun(t)'
  PROVE  AloneInv(t)'
<1>2. ASSUME Busy(t)' PROVE Undisturbed(t)' /\ Remembers(t)' /\ RoomLeft(t)'
  <2>1. Busy(t) /\ Undisturbed(t) /\ Remembers(t) /\ RoomLeft(t)
    BY <1>2 DEF AloneInv
  <2>2. Undisturbed(t)'
    BY <2>1 DEF Undisturbed
  <2>3. Present(SessionOf[t])' = Present(SessionOf[t])
    BY <2>1
  <2>4. Remembers(t)'
    <3> SUFFICES ASSUME turn'[t] < MaxIterations \/ Early(t)', NEW j \in done', j.task = t
                 PROVE  \/ j.call \in ToSet(Present(SessionOf[t])')
                        \/ \E w \in Workers : wpc'[w] = "logging" /\ wjob'[w] = j
      BY DEF Remembers
    <3>1. j \in done
      OBVIOUS
    <3>2. \/ j.call \in ToSet(Present(SessionOf[t]))
          \/ \E w \in Workers : wpc[w] = "logging" /\ wjob[w] = j
      BY <2>1, <3>1 DEF Remembers
    <3> QED
      BY <2>3, <3>2
  <2>5. RoomLeft(t)'
    BY <2>1, <2>3 DEF RoomLeft
  <2> QED
    BY <2>2, <2>4, <2>5
<1> QED
  BY <1>2 DEF AloneInv

-----------------------------------------------------------------------------
(* Where jobs, turns and workers come from                                 *)

\* A job that appears comes from a task that thinks.
LEMMA JobsFrom ==
  ASSUME TypeOK, WorkersAtWork, [Next]_vars
  PROVE  \A j \in Unfinished' : j \in Unfinished \/ pc[j.task] = "thinking"
<1>1. ASSUME NEW t \in Tasks, NEW c \in Calls, UseTool(t, c)
      PROVE  \A j \in Unfinished' : j \in Unfinished \/ pc[j.task] = "thinking"
  <2> DEFINE j == [task |-> t, turn |-> turn[t], call |-> c]
  <2>1. queue' = Append(queue, j) /\ wjob' = wjob /\ pc[j.task] = "thinking"
    BY <1>1 DEF UseTool, workerVars
  <2> HIDE DEF j
  <2>2. queue \in Seq(Job)
    BY DEF TypeOK
  <2>3. ToSet(queue') \subseteq ToSet(queue) \cup {j}
    BY <2>1, <2>2 DEF ToSet
  <2> QED
    BY <2>1, <2>3 DEF Unfinished, InHand
<1>2. ASSUME NEW w \in Workers, Take(w)
      PROVE  \A j \in Unfinished' : j \in Unfinished
  <2>1. queue \in Seq(Job) /\ queue # <<>>
    BY <1>2 DEF Take, TypeOK
  <2>2. queue' = Tail(queue) /\ wjob' = [wjob EXCEPT ![w] = Head(queue)]
    BY <1>2 DEF Take
  <2>3. ToSet(Tail(queue)) \subseteq ToSet(queue) /\ Head(queue) \in ToSet(queue)
    BY <2>1 DEF ToSet
  <2>4. wjob'[w] = Head(queue) /\ \A v \in Workers \ {w} : wjob'[v] = wjob[v]
    BY <2>2 DEF TypeOK
  <2> QED
    BY <2>2, <2>3, <2>4 DEF Unfinished, InHand
<1>3. ASSUME NEW w \in Workers, wjob' = [wjob EXCEPT ![w] = NoJob], queue' = queue
      PROVE  \A j \in Unfinished' : j \in Unfinished
  <2>1. wjob'[w] = NoJob /\ \A v \in Workers \ {w} : wjob'[v] = wjob[v]
    BY <1>3 DEF TypeOK
  <2> QED
    BY <1>3, <2>1 DEF Unfinished, InHand
<1>4. ASSUME wjob' = wjob, queue' = queue
      PROVE  \A j \in Unfinished' : j \in Unfinished
  BY <1>4 DEF Unfinished, InHand
<1> QED
  BY <1>1, <1>2, <1>3, <1>4, JobMoves

\* Only enrich_task makes an idle task an active one.
LEMMA ActiveFrom ==
  ASSUME TypeOK, [Next]_vars, NEW u \in Tasks, pc'[u] \notin {"new", "over"}
  PROVE  pc[u] \notin {"new", "over"} \/ Enrich(u)
<1> USE DEF taskVars
<1>1. ASSUME NEW t \in Tasks, NEW x, Goes(t, x), pc[t] \notin {"new", "over"}
      PROVE  pc[u] \notin {"new", "over"}
  BY <1>1 DEF Goes, TypeOK
<1>2. ASSUME NEW t \in Tasks, Enrich(t), t # u
      PROVE  pc[u] \notin {"new", "over"}
  BY <1>2 DEF Enrich, Goes, TypeOK
<1>3. ASSUME NEW t \in Tasks, TaskStep(t)
      PROVE  pc[u] \notin {"new", "over"}
  BY <1>3, <1>1 DEF TaskStep, Begin, Conclude, UseTool, Observe, NextTurn, Settle, Finish
<1>4. ASSUME NEW t \in Tasks, Command(t) \/ StoreFails(t) \/ BrainTimeout(t)
      PROVE  pc[u] \notin {"new", "over"}
  <2>1. Goes(t, "over") /\ pc[t] \notin {"new", "over"}
    BY <1>4 DEF Command, StoreFails, BrainTimeout, Abandons
  <2> QED
    BY <1>1, <2>1
<1>5. ASSUME NEW w \in Workers, WorkerStep(w) \/ Leave(w) PROVE pc' = pc
  BY <1>5 DEF WorkerStep, Take, Deny, Recall, Invoke, Returns, Raises, Keep, Audit,
     AuditFails, WorkerDies, Leave
<1>6. ASSUME Shed \/ Restart \/ UNCHANGED vars PROVE pc' = pc
  BY <1>6 DEF Shed, Restart, vars
<1> QED
  BY <1>2, <1>3, <1>4, <1>5, <1>6 DEF Next

\* No task becomes busy but by enrich_task.
LEMMA BusyFrom ==
  ASSUME TypeOK, WorkersAtWork, [Next]_vars, NEW u \in Tasks, Busy(u)'
  PROVE  Busy(u) \/ Enrich(u)
<1>1. CASE Active(u)'
  BY <1>1, ActiveFrom DEF Active, Busy
<1>2. CASE \E j \in Unfinished' : j.task = u
  <2>1. PICK j \in Unfinished' : j.task = u
    BY <1>2
  <2>2. j \in Unfinished \/ pc[u] = "thinking"
    BY <2>1, JobsFrom
  <2> QED
    BY <2>1, <2>2 DEF Busy, Active
<1> QED
  BY <1>1, <1>2 DEF Busy

\* No task returns to its beginning, and only a new turn counts.
LEMMA TurnFrom ==
  ASSUME TypeOK, [Next]_vars, NEW t \in Tasks, ~Begin(t), ~NextTurn(t)
  PROVE  /\ turn'[t] = turn[t]
         /\ pc'[t] = "thinking" => pc[t] = "thinking"
         /\ pc'[t] = "new" => pc[t] = "new"
         /\ pc'[t] = "ready" => pc[t] = "ready" \/ Enrich(t)
<1> DEFINE Same == /\ turn'[t] = turn[t]
                   /\ pc'[t] = "thinking" => pc[t] = "thinking"
                   /\ pc'[t] = "new" => pc[t] = "new"
                   /\ pc'[t] = "ready" => pc[t] = "ready" \/ Enrich(t)
<1> USE DEF taskVars
<1>1. ASSUME NEW u \in Tasks, Begin(u) \/ NextTurn(u) PROVE Same
  BY <1>1 DEF Begin, NextTurn, Goes, TypeOK
<1>2. ASSUME NEW u \in Tasks, NEW x \in {"ready", "waiting", "reflecting", "storing", "over"},
             Goes(u, x), turn' = turn, x = "ready" => Enrich(u)
      PROVE  Same
  BY <1>2 DEF Goes, TypeOK
<1>3. ASSUME NEW u \in Tasks, Enrich(u) PROVE Same
  BY <1>2, <1>3 DEF Enrich
<1>4. ASSUME NEW u \in Tasks, Command(u) \/ StoreFails(u) \/ BrainTimeout(u) PROVE Same
  BY <1>2, <1>4 DEF Command, StoreFails, BrainTimeout, Abandons
<1>5. ASSUME NEW u \in Tasks,
             \/ Conclude(u) \/ Observe(u) \/ Settle(u) \/ Finish(u)
             \/ \E c \in Calls : UseTool(u, c)
      PROVE  Same
  BY <1>2, <1>5 DEF Conclude, UseTool, Observe, Settle, Finish
<1>6. ASSUME pc' = pc, turn' = turn PROVE Same
  BY <1>6
<1>7. ASSUME NEW w \in Workers, WorkerStep(w) \/ Leave(w) PROVE Same
  <2> USE DEF workerVars
  <2>1. pc' = pc /\ turn' = turn
    BY <1>7 DEF WorkerStep, Take, Deny, Recall, Invoke, Returns, Raises, Keep, Audit,
       AuditFails, WorkerDies, Leave
  <2> QED
    BY <1>6, <2>1
<1>8. ASSUME Shed \/ Restart \/ UNCHANGED vars PROVE Same
  BY <1>6, <1>8 DEF Shed, Restart, vars
<1> HIDE DEF Same
<1>9. Same
  BY <1>1, <1>3, <1>4, <1>5, <1>7, <1>8 DEF Next, TaskStep
<1> QED
  BY <1>9 DEF Same

\* A worker moves only by a step of its own, or when new workers are made.
LEMMA WorkerFrom ==
  ASSUME TypeOK, [Next]_vars, NEW w \in Workers
  PROVE  \/ WorkerStep(w) \/ Leave(w) \/ Restart
         \/ wpc'[w] = wpc[w] /\ wjob'[w] = wjob[w]
<1> DEFINE Still == wpc'[w] = wpc[w] /\ wjob'[w] = wjob[w]
<1> USE DEF workerVars
<1>1. ASSUME NEW t \in Tasks,
             Enrich(t) \/ Command(t) \/ StoreFails(t) \/ BrainTimeout(t) \/ TaskStep(t)
      PROVE  Still
  BY <1>1 DEF Enrich, Command, StoreFails, BrainTimeout, Abandons, TaskStep,
     Begin, Conclude, UseTool, Observe, NextTurn, Settle, Finish
<1>2. ASSUME NEW v \in Workers, v # w, WorkerStep(v) \/ Leave(v) PROVE Still
  <2>1. CASE Deny(v) \/ Recall(v) \/ Audit(v)
    BY <1>2, <2>1 DEF Deny, Recall, Audit, Answer, Stands, TypeOK
  <2>2. CASE Take(v) \/ WorkerDies(v) \/ Leave(v)
    BY <1>2, <2>2 DEF Take, WorkerDies, Leave, Stands, TypeOK
  <2>3. CASE Invoke(v) \/ Returns(v) \/ (\E e \in BOOLEAN : Raises(v, e)) \/ Keep(v) \/ AuditFails(v)
    BY <1>2, <2>3 DEF Invoke, Returns, Raises, Keep, AuditFails, Stands, TypeOK
  <2> HIDE DEF Still
  <2> QED
    BY <1>2, <2>1, <2>2, <2>3 DEF WorkerStep
<1>3. CASE Shed \/ UNCHANGED vars
  BY <1>3 DEF Shed, vars
<1> HIDE DEF Still
<1> QED
  BY <1>1, <1>2, <1>3 DEF Next, Still

\* A worker that holds a job before its result is known has held it, or has
\* just taken it from the queue.
LEMMA HandFrom ==
  ASSUME TypeOK, [Next]_vars, NEW w \in Workers,
         wpc'[w] \in {"taken", "running", "logging"}
  PROVE  \/ wpc[w] \in {"taken", "running", "logging"} /\ wjob'[w] = wjob[w]
         \/ Take(w)
<1> USE DEF workerVars
<1>1. CASE WorkerStep(w)
  <2>1. CASE Deny(w) \/ Recall(w) \/ Audit(w) \/ WorkerDies(w)
    BY <2>1 DEF Deny, Recall, Audit, WorkerDies, Answer, Stands, TypeOK
  <2>2. CASE Invoke(w) \/ Returns(w) \/ Keep(w) \/ AuditFails(w)
    BY <2>2 DEF Invoke, Returns, Keep, AuditFails, Stands, TypeOK
  <2>3. ASSUME NEW e \in BOOLEAN, Raises(w, e)
        PROVE  wpc[w] \in {"taken", "running", "logging"} /\ wjob'[w] = wjob[w]
    BY <2>3 DEF Raises
  <2> QED
    BY <1>1, <2>1, <2>2, <2>3 DEF WorkerStep
<1>2. CASE Leave(w) \/ Restart
  BY <1>2 DEF Leave, Restart, Stands, TypeOK
<1> QED
  BY <1>1, <1>2, WorkerFrom

\* A waiting job was there before, or comes from a task that thinks.
LEMMA QueueFrom ==
  ASSUME TypeOK, [Next]_vars
  PROVE  \A j \in ToSet(queue') : j \in ToSet(queue) \/ pc[j.task] = "thinking"
<1>1. ASSUME NEW t \in Tasks, NEW c \in Calls, UseTool(t, c)
      PROVE  \A j \in ToSet(queue') : j \in ToSet(queue) \/ pc[j.task] = "thinking"
  <2> DEFINE j == [task |-> t, turn |-> turn[t], call |-> c]
  <2>1. queue' = Append(queue, j) /\ pc[j.task] = "thinking"
    BY <1>1 DEF UseTool
  <2> HIDE DEF j
  <2>2. queue \in Seq(Job)
    BY DEF TypeOK
  <2> QED
    BY <2>1, <2>2 DEF ToSet
<1>2. ASSUME NEW w \in Workers, Take(w) PROVE ToSet(queue') \subseteq ToSet(queue)
  <2>1. queue \in Seq(Job) /\ queue # <<>> /\ queue' = Tail(queue)
    BY <1>2 DEF Take, TypeOK
  <2> QED
    BY <2>1 DEF ToSet
<1> QED
  BY <1>1, <1>2, JobMoves

\* A lookup falls due only with a new turn.
LEMMA EarlyFrom ==
  ASSUME TypeOK, [Next]_vars, NEW t \in Tasks, Early(t)', ~Begin(t), ~NextTurn(t)
  PROVE  Early(t)
<1>1. CASE pc'[t] = "thinking"
  BY <1>1, TurnFrom DEF Early
<1>2. CASE \E j \in ToSet(queue') : j.task = t
  BY <1>2, QueueFrom DEF Early
<1>3. ASSUME NEW w \in Workers, wpc'[w] \in {"taken", "running", "logging"}, wjob'[w].task = t
      PROVE  Early(t)
  <2>1. CASE wpc[w] \in {"taken", "running", "logging"} /\ wjob'[w] = wjob[w]
    BY <1>3, <2>1 DEF Early
  <2>2. CASE Take(w)
    <3>1. queue \in Seq(Job) /\ queue # <<>> /\ wjob'[w] = Head(queue)
      BY <2>2 DEF Take, TypeOK
    <3>2. Head(queue) \in ToSet(queue)
      BY <3>1 DEF ToSet
    <3> QED
      BY <1>3, <3>1, <3>2 DEF Early
  <2> QED
    BY <1>3, <2>1, <2>2, HandFrom
<1> QED
  BY <1>1, <1>2, <1>3 DEF Early

-----------------------------------------------------------------------------
(* The steps of a task                                                     *)

\* A step by which no task begins, and which leaves alone the calls, the turn
\* and the memory of a task.
LEMMA CalmStep ==
  ASSUME IInv, [Next]_vars, NEW t \in Tasks, AloneInv(t), ~Begin(t), ~NextTurn(t),
         \A u \in Tasks : ~Enrich(u),
         Busy(t) => Present(SessionOf[t])' = Present(SessionOf[t]),
         \A j \in done' : j.task = t => j \in done,
         \A w \in Workers : wpc[w] = "logging" /\ wjob[w].task = t =>
           wpc'[w] = "logging" /\ wjob'[w] = wjob[w],
         FirstRun(t)'
  PROVE  AloneInv(t)'
<1>1. TypeOK /\ WorkersAtWork
  BY DEF IInv
<1>2. \A u \in Tasks : Busy(u)' => Busy(u)
  BY <1>1, BusyFrom
<1>3. Early(t)' => Early(t)
  BY <1>1, EarlyFrom
<1>4. pc'[t] # "new" /\ turn'[t] = turn[t]
  BY <1>1, TurnFrom DEF AloneInv
<1> QED
  BY <1>2, <1>3, <1>4, CalmKeeps

\* To use the memory of a session is to leave all memories as they look.
LEMMA TouchShows ==
  ASSUME TypeOK, NEW t \in Tasks, Touch(t), NEW s \in Sessions
  PROVE  Present(s)' = Present(s)
<1>1. NoMemory \notin Seq(Calls) /\ Present(SessionOf[t]) \in Seq(Calls)
  BY NullAssumption, PresentType, ExecutorAssumption
<1>2. Present(SessionOf[t]) # NoMemory
  BY <1>1
<1>3. CASE s = SessionOf[t]
  <2>1. memory'[s] = Present(s)
    BY <1>3 DEF Touch, TypeOK
  <2> QED
    BY <1>2, <1>3, <2>1 DEF Present
<1>4. CASE s # SessionOf[t]
  BY <1>4 DEF Touch, TypeOK, Present
<1> QED
  BY <1>3, <1>4

\* Workers and results rest while a task moves.
LEMMA TaskStepRests ==
  ASSUME NEW u \in Tasks,
         Enrich(u) \/ Command(u) \/ StoreFails(u) \/ BrainTimeout(u) \/ TaskStep(u)
  PROVE  UNCHANGED <<wpc, wjob, done>>
BY DEF workerVars, history, Enrich, Command, StoreFails, BrainTimeout, Abandons, TaskStep,
   Begin, Conclude, UseTool, Observe, NextTurn, Settle, Finish

\* A step of any task, other than a beginning, disturbs no task that has its
\* session to itself.
LEMMA TaskStepCalm ==
  ASSUME IInv, [Next]_vars, NEW t \in Tasks, AloneInv(t), ~Begin(t), ~NextTurn(t), ~Finish(t),
         \A u \in Tasks : ~Enrich(u), NEW u \in Tasks,
         Command(u) \/ StoreFails(u) \/ BrainTimeout(u) \/ TaskStep(u)
  PROVE  AloneInv(t)'
<1> DEFINE s == SessionOf[t]
<1>1. TypeOK /\ s \in Sessions
  BY ExecutorAssumption DEF IInv
<1>2. UNCHANGED <<wpc, wjob, done>>
  BY TaskStepRests
<1>3. Busy(t) => Present(s)' = Present(s)
  <2>1. CASE Command(u) \/ StoreFails(u) \/ BrainTimeout(u)
    BY <2>1 DEF Command, StoreFails, BrainTimeout, Abandons, Present
  <2>2. CASE Finish(u)
    <3>1. u # t /\ Busy(u)
      BY <2>2 DEF Finish, Busy, Active
    <3>2. Busy(t) => SessionOf[u] # s
      BY <3>1 DEF AloneInv, Undisturbed
    <3> QED
      BY <1>1, <2>2, <3>2 DEF Finish, Free, Present, TypeOK
  <2>3. CASE TaskStep(u) /\ ~Finish(u)
    <3>1. Touch(u)
      BY <2>3 DEF TaskStep, Begin, Conclude, UseTool, Observe, NextTurn, Settle
    <3> QED
      BY <1>1, <3>1, TouchShows
  <2> QED
    BY <2>1, <2>2, <2>3
<1>4. FirstRun(t)'
  BY <1>2, FirstRunKeeps DEF AloneInv
<1> HIDE DEF s
<1> QED
  BY <1>2, <1>3, <1>4, CalmStep DEF s

\* The first turn.
LEMMA BeginAlone ==
  ASSUME IInv, OnceInv, [Next]_vars, NEW t \in Tasks, AloneInv(t), Begin(t)
  PROVE  AloneInv(t)'
<1> DEFINE s == SessionOf[t]
<1>1. TypeOK /\ WorkersAtWork /\ s \in Sessions
  BY ExecutorAssumption DEF IInv
<1>2. Present(s)' = Present(s) /\ Present(s) \in Seq(Calls)
  BY <1>1, TouchShows, PresentType DEF Begin
<1>3. UNCHANGED <<wpc, wjob, done, queue>> /\ pc'[t] = "thinking" /\ turn'[t] = 1 /\ turn[t] = 0
  BY <1>1 DEF Begin, workerVars, history, Goes, TypeOK, OnceInv
<1>4. Busy(t) /\ pc[t] = "ready"
  BY DEF Begin, Busy, Active
<1>5. Undisturbed(t) /\ Remembers(t) /\ RoomLeft(t) /\ FirstRun(t)
  BY <1>4 DEF AloneInv
<1>6. \A u \in Tasks : ~Enrich(u)
  BY <1>1, <1>3, <1>4 DEF Enrich, Goes, TypeOK
<1>7. Undisturbed(t)'
  BY <1>1, <1>5, <1>6, BusyFrom DEF Undisturbed
<1>8. turn[t] < MaxIterations
  BY <1>3, ExecutorAssumption
<1>9. Remembers(t)'
  <2> SUFFICES ASSUME NEW j \in done, j.task = t
               PROVE  \/ j.call \in ToSet(Present(s)')
                      \/ \E w \in Workers : wpc'[w] = "logging" /\ wjob'[w] = j
    BY <1>3 DEF Remembers
  <2> QED
    BY <1>2, <1>3, <1>5, <1>8 DEF Remembers
<1>10. RoomLeft(t)'
  <2>1. Len(Present(s)) <= 0 /\ Len(Present(s)) \in Nat
    BY <1>2, <1>3, <1>5, LenProperties DEF RoomLeft
  <2> HIDE DEF s
  <2>2. Len(Present(s)') <= turn'[t] /\ Len(Present(s)') < turn'[t]
    BY <1>2, <1>3, <2>1
  <2> QED
    BY <2>2 DEF RoomLeft, s
<1>11. FirstRun(t)'
  BY <1>3, <1>5 DEF FirstRun
<1> QED
  BY <1>3, <1>7, <1>9, <1>10, <1>11 DEF AloneInv

\* A further turn: the results of the turn before are in the cache.
LEMMA NextTurnAlone ==
  ASSUME IInv, OnceInv, [Next]_vars, NEW t \in Tasks, AloneInv(t), NextTurn(t)
  PROVE  AloneInv(t)'
<1> DEFINE s == SessionOf[t]
<1>1. TypeOK /\ WorkersAtWork /\ s \in Sessions /\ turn[t] \in Nat
  BY ExecutorAssumption DEF IInv, TypeOK
<1>2. Present(s)' = Present(s) /\ Present(s) \in Seq(Calls)
  BY <1>1, TouchShows, PresentType DEF NextTurn
<1>3. /\ UNCHANGED <<wpc, wjob, done, queue>>
      /\ pc'[t] = "thinking" /\ turn'[t] = turn[t] + 1 /\ turn[t] < MaxIterations
  BY <1>1 DEF NextTurn, workerVars, history, Goes, TypeOK
<1>4. Busy(t) /\ pc[t] = "reflecting"
  BY DEF NextTurn, Busy, Active
<1>5. Undisturbed(t) /\ Remembers(t) /\ RoomLeft(t) /\ FirstRun(t)
  BY <1>4 DEF AloneInv
<1>6. \A u \in Tasks : ~Enrich(u)
  BY <1>1, <1>3, <1>4 DEF Enrich, Goes, TypeOK
<1>7. Undisturbed(t)'
  BY <1>1, <1>5, <1>6, BusyFrom DEF Undisturbed
<1>8. Remembers(t)'
  <2> SUFFICES ASSUME NEW j \in done, j.task = t
               PROVE  \/ j.call \in ToSet(Present(s)')
                      \/ \E w \in Workers : wpc'[w] = "logging" /\ wjob'[w] = j
    BY <1>3 DEF Remembers
  <2> QED
    BY <1>2, <1>3, <1>5 DEF Remembers
<1>9. RoomLeft(t)'
  <2>1. Len(Present(s)) <= turn[t] /\ Len(Present(s)) \in Nat
    BY <1>2, <1>5, LenProperties DEF RoomLeft
  <2> HIDE DEF s
  <2>2. Len(Present(s)') <= turn'[t] /\ Len(Present(s)') < turn'[t]
    BY <1>1, <1>2, <1>3, <2>1
  <2> QED
    BY <2>2 DEF RoomLeft, s
<1>10. FirstRun(t)'
  BY <1>3, <1>5 DEF FirstRun
<1> QED
  BY <1>3, <1>7, <1>8, <1>9, <1>10 DEF AloneInv

\* After its episode is stored a task has nothing at work.
LEMMA FinishAlone ==
  ASSUME IInv, NEW t \in Tasks, AloneInv(t), Finish(t)
  PROVE  AloneInv(t)'
<1>1. TypeOK /\ WorkersAtWork /\ JobsAwaited
  BY DEF IInv
<1>2. UNCHANGED <<wpc, wjob, done, queue>> /\ pc'[t] = "over" /\ pc[t] = "storing"
  BY <1>1 DEF Finish, workerVars, history, Goes, TypeOK
<1>3. /\ \A i \in 1 .. Len(queue) : queue[i].task # t
      /\ \A w \in Workers : wjob[w] # NoJob => wjob[w].task # t
  BY <1>1, <1>2 DEF JobsAwaited, Awaited
<1>4. queue \in Seq(Job)
  BY <1>1 DEF TypeOK
<1>5. \A j \in ToSet(queue) : j.task # t
  BY <1>3, <1>4 DEF ToSet
<1>6. \A j \in Unfinished' : j.task # t
  BY <1>2, <1>3, <1>5 DEF Unfinished, InHand
<1>7. ~Busy(t)'
  BY <1>2, <1>6 DEF Busy, Active
<1> QED
  BY <1>2, <1>7 DEF AloneInv, FirstRun

-----------------------------------------------------------------------------
(* The steps of a worker                                                   *)

\* Where no task moves, none begins anything.
LEMMA NoTaskMoves ==
  ASSUME TypeOK, pc' = pc, NEW t \in Tasks
  PROVE  ~Begin(t) /\ ~NextTurn(t) /\ ~Enrich(t)
BY DEF Begin, NextTurn, Enrich, Goes, TypeOK

\* A step of a worker leaves the tasks where they are, and the other workers.
LEMMA WorkerMoves ==
  ASSUME TypeOK, NEW w \in Workers, WorkerStep(w) \/ Leave(w)
  PROVE  /\ pc' = pc
         /\ \A v \in Workers \ {w} : wpc'[v] = wpc[v] /\ wjob'[v] = wjob[v]
<1> USE DEF taskVars, workerVars
<1>1. CASE Deny(w) \/ Recall(w) \/ Audit(w)
  BY <1>1 DEF Deny, Recall, Audit, Answer, Stands, TypeOK
<1>2. CASE Take(w) \/ WorkerDies(w) \/ Leave(w)
  BY <1>2 DEF Take, WorkerDies, Leave, Stands, TypeOK
<1>3. CASE Invoke(w) \/ Returns(w) \/ Keep(w) \/ AuditFails(w)
  BY <1>3 DEF Invoke, Returns, Keep, AuditFails, Stands, TypeOK
<1>4. ASSUME NEW e \in BOOLEAN, Raises(w, e)
      PROVE  /\ pc' = pc
             /\ \A v \in Workers \ {w} : wpc'[v] = wpc[v] /\ wjob'[v] = wjob[v]
  BY <1>4 DEF Raises, Stands, TypeOK
<1> QED
  BY <1>1, <1>2, <1>3, <1>4 DEF WorkerStep

\* The step of a worker that starts no handler, ends none, and keeps no result.
LEMMA WorkerCalm ==
  ASSUME IInv, [Next]_vars, NEW t \in Tasks, AloneInv(t), NEW w \in Workers,
         WorkerStep(w) \/ Leave(w), ~Returns(w), ~Keep(w),
         Invoke(w) => wpc'[w] = "auditing"
  PROVE  AloneInv(t)'
<1> DEFINE s == SessionOf[t]
<1> USE DEF workerVars, history
<1>1. TypeOK /\ WorkersAtWork /\ s \in Sessions
  BY ExecutorAssumption DEF IInv
<1>2. /\ pc' = pc
      /\ \A v \in Workers \ {w} : wpc'[v] = wpc[v] /\ wjob'[v] = wjob[v]
  BY <1>1, WorkerMoves
<1>3. /\ done' = done /\ wpc[w] # "logging"
      /\ wpc'[w] = "running" => wpc[w] = "running" /\ wjob'[w] = wjob[w]
  <2>1. CASE Deny(w) \/ Recall(w) \/ Audit(w)
    BY <1>1, <2>1 DEF Deny, Recall, Audit, Answer, Stands, TypeOK
  <2>2. CASE Take(w) \/ WorkerDies(w) \/ Leave(w)
    BY <1>1, <2>2 DEF Take, WorkerDies, Leave, Stands, TypeOK
  <2>3. CASE AuditFails(w) \/ Invoke(w)
    BY <1>1, <2>3 DEF AuditFails, Invoke, Stands, TypeOK
  <2>4. CASE \E e \in BOOLEAN : Raises(w, e)
    <3>1. PICK e \in BOOLEAN : Raises(w, e)
      BY <2>4
    <3> QED
      BY <3>1 DEF Raises
  <2> QED
    BY <2>1, <2>2, <2>3, <2>4 DEF WorkerStep
<1>4. Present(s)' = Present(s)
  <2>1. CASE Recall(w) \/ Invoke(w)
    <3>1. wjob[w] # NoJob /\ Touch(wjob[w].task)
      BY <1>1, <2>1 DEF Recall, Invoke, WorkersAtWork
    <3>2. wjob[w].task \in Tasks
      BY <1>1, <3>1, JobsHaveTasks
    <3> QED
      BY <1>1, <3>1, <3>2, TouchShows
  <2>2. CASE ~(Recall(w) \/ Invoke(w))
    <3>1. memory' = memory
      BY <2>2 DEF WorkerStep, Take, Deny, Raises, Audit, AuditFails, WorkerDies, Leave
    <3> QED
      BY <3>1 DEF Present
  <2> QED
    BY <2>1, <2>2
<1>5. ~Begin(t) /\ ~NextTurn(t) /\ \A u \in Tasks : ~Enrich(u)
  BY <1>1, <1>2, NoTaskMoves
<1>6. FirstRun(t)'
  BY <1>2, <1>3, FirstRunKeeps DEF AloneInv
<1>7. \A v \in Workers : wpc[v] = "logging" => wpc'[v] = "logging" /\ wjob'[v] = wjob[v]
  BY <1>2, <1>3
<1> HIDE DEF s
<1> QED
  BY <1>3, <1>4, <1>5, <1>6, <1>7, CalmStep DEF s

\* A handler is started: for a task with its session to itself, never for a
\* call one has returned for.
LEMMA InvokeAlone ==
  ASSUME IInv, [Next]_vars, NEW t \in Tasks, AloneInv(t), NEW w \in Workers,
         Invoke(w), wpc'[w] = "running"
  PROVE  AloneInv(t)'
<1> DEFINE s == SessionOf[t]
<1>1. TypeOK /\ WorkersAtWork /\ OneJobEach /\ s \in Sessions
  BY ExecutorAssumption DEF IInv
<1>2. /\ pc' = pc
      /\ \A v \in Workers \ {w} : wpc'[v] = wpc[v] /\ wjob'[v] = wjob[v]
  BY <1>1, WorkerMoves DEF WorkerStep
<1>3. wpc[w] = "taken" /\ wjob' = wjob /\ done' = done /\ wjob[w] # NoJob
  BY <1>1 DEF Invoke, workerVars, history, WorkersAtWork
<1>4. wjob[w] \in Job /\ wjob[w].task \in Tasks
  BY <1>1, <1>3, JobsHaveTasks
<1>5. Present(s)' = Present(s)
  BY <1>1, <1>4, TouchShows DEF Invoke
<1>6. FirstRun(t)'
  <2>1. CASE wjob[w].task # t
    BY <1>2, <1>3, <2>1 DEF AloneInv, FirstRun
  <2>2. CASE wjob[w].task = t
    <3>1. Busy(t) /\ Early(t)
      BY <1>3, <2>2 DEF Busy, Early, Unfinished, InHand
    <3>2. \A v \in Workers : wpc[v] = "logging" => wjob[v] # NoJob /\ wjob[v].task # t
      BY <1>1, <1>3, <2>2 DEF WorkersAtWork, OneJobEach
    <3>3. \A j \in done : j.task = t => j.call \in ToSet(Present(s))
      BY <3>1, <3>2 DEF AloneInv, Remembers
    <3>4. wjob[w].call \notin ToSet(Present(s))
      BY <2>2 DEF Invoke, Cached
    <3>5. \A j \in done : j.task = t => j.call # wjob[w].call
      BY <3>3, <3>4
    <3> QED
      BY <1>2, <1>3, <3>5 DEF AloneInv, FirstRun
  <2> QED
    BY <2>1, <2>2
<1>7. ~Begin(t) /\ ~NextTurn(t) /\ \A u \in Tasks : ~Enrich(u)
  BY <1>1, <1>2, NoTaskMoves
<1>8. \A v \in Workers : wpc[v] = "logging" => wpc'[v] = "logging" /\ wjob'[v] = wjob[v]
  BY <1>2, <1>3
<1> HIDE DEF s
<1> QED
  BY <1>3, <1>5, <1>6, <1>7, <1>8, CalmStep DEF s

\* A handler returns: its result is on the way to the cache.
LEMMA ReturnsAlone ==
  ASSUME IInv, [Next]_vars, NEW t \in Tasks, AloneInv(t), NEW w \in Workers, Returns(w)
  PROVE  AloneInv(t)'
<1> DEFINE s == SessionOf[t]
<1>1. TypeOK /\ WorkersAtWork /\ OneJobEach
  BY DEF IInv
<1>2. /\ pc' = pc /\ turn' = turn
      /\ \A v \in Workers \ {w} : wpc'[v] = wpc[v] /\ wjob'[v] = wjob[v]
  BY <1>1, WorkerMoves DEF WorkerStep, Returns, taskVars
<1>3. /\ wpc[w] = "running" /\ wpc'[w] = "logging" /\ wjob' = wjob
      /\ done' = done \cup {wjob[w]} /\ memory' = memory /\ queue' = queue
      /\ wjob[w] # NoJob
  BY <1>1 DEF Returns, Stands, WorkersAtWork, TypeOK
<1>4. Present(s)' = Present(s)
  BY <1>3 DEF Present
<1>5. ~Begin(t) /\ ~NextTurn(t) /\ \A u \in Tasks : ~Enrich(u)
  BY <1>1, <1>2, NoTaskMoves
<1>6. \A v \in Workers : wpc[v] = "logging" => wpc'[v] = "logging" /\ wjob'[v] = wjob[v]
  BY <1>2, <1>3
<1>7. CASE wjob[w].task # t
  <2>1. FirstRun(t)'
    BY <1>2, <1>3, <1>7, FirstRunKeeps DEF AloneInv
  <2>2. \A j \in done' : j.task = t => j \in done
    BY <1>3, <1>7
  <2> HIDE DEF s
  <2> QED
    BY <1>4, <1>5, <1>6, <2>1, <2>2, CalmStep DEF s
<1>8. CASE wjob[w].task = t
  <2>1. Busy(t) /\ Early(t)
    BY <1>3, <1>8 DEF Busy, Early, Unfinished, InHand
  <2>2. Undisturbed(t) /\ Remembers(t) /\ RoomLeft(t)
    BY <2>1 DEF AloneInv
  <2>3. Undisturbed(t)'
    BY <1>1, <1>5, <2>2, BusyFrom DEF Undisturbed
  <2>4. Remembers(t)'
    <3> SUFFICES ASSUME NEW j \in done', j.task = t
                 PROVE  \/ j.call \in ToSet(Present(s)')
                        \/ \E v \in Workers : wpc'[v] = "logging" /\ wjob'[v] = j
      BY DEF Remembers
    <3>1. CASE j = wjob[w]
      BY <1>3, <3>1
    <3>2. CASE j \in done
      <4>1. \/ j.call \in ToSet(Present(s))
            \/ \E v \in Workers : wpc[v] = "logging" /\ wjob[v] = j
        BY <2>1, <2>2, <3>2 DEF Remembers
      <4> HIDE DEF s
      <4> QED
        BY <1>4, <1>6, <4>1
    <3> QED
      BY <1>3, <3>1, <3>2
  <2>5. RoomLeft(t)'
    BY <1>2, <1>4, <2>1, <2>2 DEF RoomLeft
  <2>6. FirstRun(t)'
    <3>1. \A v \in Workers \ {w} : wpc[v] = "running" => wjob[v].task # t
      BY <1>1, <1>3, <1>8 DEF WorkersAtWork, OneJobEach
    <3> QED
      BY <1>2, <1>3, <3>1 DEF FirstRun
  <2> QED
    BY <1>2, <2>3, <2>4, <2>5, <2>6 DEF AloneInv
<1> QED
  BY <1>7, <1>8

\* What a full or a roomy cache holds after a result is stored.
LEMMA StoredHolds ==
  ASSUME NEW cache \in Seq(Calls), NEW c \in Calls
  PROVE  /\ Stored(cache, c) \in Seq(Calls)
         /\ Len(Stored(cache, c)) <= Len(cache) + 1
         /\ Len(cache) < CacheLimit => ToSet(cache) \cup {c} \subseteq ToSet(Stored(cache, c))
<1>1. CASE c \in ToSet(cache)
  BY <1>1 DEF Stored
<1>2. CASE c \notin ToSet(cache) /\ Len(cache) >= CacheLimit
  <2>1. cache # <<>>
    BY <1>2, ExecutorAssumption
  <2>2. Tail(cache) \in Seq(Calls) /\ Len(Tail(cache)) = Len(cache) - 1
    BY <2>1, HeadTailProperties
  <2> QED
    BY <1>2, <2>2, AppendProperties, LenProperties, ExecutorAssumption DEF Stored
<1>3. CASE c \notin ToSet(cache) /\ ~(Len(cache) >= CacheLimit)
  <2>1. Stored(cache, c) = Append(cache, c)
    BY <1>3 DEF Stored
  <2>2. ToSet(cache) \cup {c} \subseteq ToSet(Append(cache, c))
    BY AppendProperties DEF ToSet
  <2> QED
    BY <2>1, <2>2, AppendProperties
<1> QED
  BY <1>1, <1>2, <1>3

\* A result is kept: no older one has to go before the last turn.
LEMMA KeepAlone ==
  ASSUME CacheLimit + 1 >= MaxIterations, IInv, [Next]_vars,
         NEW t \in Tasks, AloneInv(t), NEW w \in Workers, Keep(w)
  PROVE  AloneInv(t)'
<1> DEFINE s == SessionOf[t]
           j == wjob[w]
           cache == Present(s)
<1>1. TypeOK /\ WorkersAtWork /\ OneJobEach /\ JobsAwaited /\ s \in Sessions
  BY ExecutorAssumption DEF IInv
<1>2. /\ pc' = pc /\ turn' = turn
      /\ \A v \in Workers \ {w} : wpc'[v] = wpc[v] /\ wjob'[v] = wjob[v]
  BY <1>1, WorkerMoves DEF WorkerStep, Keep, taskVars
<1>3. /\ wpc[w] = "logging" /\ wpc'[w] = "auditing" /\ wjob' = wjob
      /\ done' = done /\ queue' = queue /\ j # NoJob
      /\ memory' = [memory EXCEPT ![SessionOf[j.task]] = Stored(Present(SessionOf[j.task]), j.call)]
  BY <1>1 DEF Keep, Stands, history, WorkersAtWork, TypeOK
<1>4. j \in Job /\ j.task \in Tasks /\ j.call \in Calls
  <2>1. j \in Job /\ j.task \in Tasks
    BY <1>1, <1>3, JobsHaveTasks
  <2>2. \A k \in Job : k.call \in Calls
    BY DEF Job
  <2> QED
    BY <2>1, <2>2
<1>5. Busy(j.task)
  BY <1>3 DEF Busy, Unfinished, InHand
<1>6. ~Begin(t) /\ ~NextTurn(t) /\ \A u \in Tasks : ~Enrich(u)
  BY <1>1, <1>2, NoTaskMoves
<1>7. FirstRun(t)'
  BY <1>2, <1>3, FirstRunKeeps DEF AloneInv
<1>8. CASE j.task # t
  <2>1. Busy(t) => SessionOf[j.task] # s
    BY <1>4, <1>5, <1>8 DEF AloneInv, Undisturbed
  <2>2. Busy(t) => Present(s)' = Present(s)
    BY <1>1, <1>3, <2>1 DEF Present, TypeOK
  <2>3. \A v \in Workers : wpc[v] = "logging" /\ wjob[v].task = t =>
          wpc'[v] = "logging" /\ wjob'[v] = wjob[v]
    BY <1>2, <1>8
  <2>4. \A k \in done' : k.task = t => k \in done
    BY <1>3
  <2> HIDE DEF s, j, cache
  <2> QED
    BY <1>6, <1>7, <2>2, <2>3, <2>4, CalmStep DEF s
<1>9. CASE j.task = t
  <2>1. Busy(t) /\ Early(t)
    BY <1>3, <1>5, <1>9 DEF Early
  <2>2. Undisturbed(t) /\ Remembers(t) /\ RoomLeft(t)
    BY <2>1 DEF AloneInv
  <2>3. Undisturbed(t)'
    BY <1>1, <1>6, <2>2, BusyFrom DEF Undisturbed
  <2>4. cache \in Seq(Calls) /\ Len(cache) \in Nat /\ Len(cache) < turn[t] /\ turn[t] \in Nat
    BY <1>1, <2>1, <2>2, PresentType, LenProperties DEF RoomLeft, TypeOK
  <2>5. Present(s)' = Stored(cache, j.call)
    <3> HIDE DEF cache, j, s
    <3>1. Stored(cache, j.call) \in Seq(Calls)
      BY <1>4, <2>4, StoredHolds
    <3>2. Stored(cache, j.call) # NoMemory
      BY <3>1, NullAssumption
    <3>3. memory'[s] = Stored(cache, j.call)
      BY <1>1, <1>3, <1>9 DEF TypeOK, cache, s
    <3> QED
      BY <3>2, <3>3 DEF Present
  <2>6. ~Early(t)'
    <3>1. pc[t] # "thinking"
      BY <1>1, <1>3, <1>9 DEF JobsAwaited, Awaited
    <3>2. \A i \in 1 .. Len(queue) : queue[i].task # t
      BY <1>1, <1>3, <1>9 DEF OneJobEach
    <3>3. queue \in Seq(Job)
      BY <1>1 DEF TypeOK
    <3>4. \A k \in ToSet(queue) : k.task # t
      BY <3>2, <3>3 DEF ToSet
    <3>5. \A v \in Workers \ {w} : wpc[v] \in {"taken", "running", "logging"} => wjob[v].task # t
      BY <1>1, <1>3, <1>9 DEF WorkersAtWork, OneJobEach
    <3> QED
      BY <1>2, <1>3, <3>1, <3>4, <3>5 DEF Early
  <2>7. RoomLeft(t)'
    <3>1. Len(Stored(cache, j.call)) <= Len(cache) + 1 /\ Len(Stored(cache, j.call)) \in Nat
      BY <1>4, <2>4, StoredHolds, LenProperties
    <3> HIDE DEF cache, j, s
    <3>2. Len(Present(s)') <= turn'[t]
      BY <1>2, <2>4, <2>5, <3>1
    <3> QED
      BY <2>6, <3>2 DEF RoomLeft, s
  <2>8. Remembers(t)'
    <3> SUFFICES ASSUME turn[t] < MaxIterations, NEW k \in done, k.task = t
                 PROVE  k.call \in ToSet(Present(s)')
      BY <1>2, <1>3, <2>6 DEF Remembers
    <3>1. Len(cache) < CacheLimit
      <4> HIDE DEF cache
      <4> QED
        BY <2>4, ExecutorAssumption
    <3>2. ToSet(cache) \cup {j.call} \subseteq ToSet(Stored(cache, j.call))
      BY <1>4, <2>4, <3>1, StoredHolds
    <3>3. \/ k.call \in ToSet(cache)
          \/ \E v \in Workers : wpc[v] = "logging" /\ wjob[v] = k
      BY <2>2 DEF Remembers
    <3>4. ASSUME NEW v \in Workers, wpc[v] = "logging", wjob[v] = k PROVE k = j
      BY <1>1, <1>3, <1>9, <3>4 DEF WorkersAtWork, OneJobEach
    <3> QED
      BY <2>5, <3>2, <3>3, <3>4
  <2> QED
    BY <1>2, <1>7, <2>3, <2>7, <2>8 DEF AloneInv
<1> QED
  BY <1>8, <1>9

\* A task begins: those whose session it enters no longer have it alone.
LEMMA EnrichAlone ==
  ASSUME IInv, OnceInv, [Next]_vars, NEW t \in alone', t \in Tasks,
         NEW u \in Tasks, Enrich(u)
  PROVE  AloneInv(t)'
<1> DEFINE s == SessionOf[t]
           busy == {v \in Tasks : SessionOf[v] = SessionOf[u] /\ Busy(v)}
<1>1. TypeOK /\ WorkersAtWork /\ JobsAwaited /\ s \in Sessions
  BY ExecutorAssumption DEF IInv
<1>2. /\ UNCHANGED <<queue, wpc, wjob, turn, done>>
      /\ pc[u] = "new" /\ pc'[u] = "ready"
      /\ \A v \in Tasks \ {u} : pc'[v] = pc[v]
      /\ alone' = IF busy = {} THEN alone \cup {u} ELSE alone \ busy
      /\ memory' = [memory EXCEPT ![SessionOf[u]] = <<>>]
  BY <1>1 DEF Enrich, workerVars, Goes, TypeOK
<1>3. \A v \in Tasks \ {u} : Busy(v)' => Busy(v)
  BY <1>2 DEF Busy, Active, Unfinished, InHand
<1>4. queue \in Seq(Job)
  BY <1>1 DEF TypeOK
<1>5. CASE t = u
  <2>1. turn[t] = 0 /\ \A j \in done : j.task # t
    BY <1>2, <1>5 DEF OnceInv
  <2>2. t \notin alone
    BY <1>2, <1>5 DEF OnceInv, AloneInv
  <2>3. busy = {}
    BY <1>2, <2>2
  <2>4. Undisturbed(t)'
    BY <1>3, <1>5, <2>3 DEF Undisturbed
  <2>5. Present(s)' = <<>>
    <3>1. <<>> # NoMemory
      BY EmptySeq, NullAssumption
    <3>2. memory'[s] = <<>>
      BY <1>1, <1>2, <1>5 DEF TypeOK
    <3> QED
      BY <3>1, <3>2 DEF Present
  <2>6. ~Early(t)'
    <3>1. \A i \in 1 .. Len(queue) : queue[i].task # t
      BY <1>1, <1>2, <1>5 DEF JobsAwaited, Awaited
    <3>2. \A j \in ToSet(queue) : j.task # t
      BY <1>4, <3>1 DEF ToSet
    <3>3. \A w \in Workers : wpc[w] \in {"taken", "running", "logging"} => wjob[w].task # t
      BY <1>1, <1>2, <1>5 DEF JobsAwaited, Awaited, WorkersAtWork
    <3> QED
      BY <1>2, <1>5, <3>2, <3>3 DEF Early
  <2>7. Remembers(t)' /\ FirstRun(t)'
    BY <1>2, <2>1 DEF Remembers, FirstRun
  <2>8. RoomLeft(t)'
    <3>1. Len(Present(s)') <= turn'[t]
      <4> HIDE DEF s
      <4> QED
        BY <1>2, <2>1, <2>5, EmptySeq
    <3> QED
      BY <2>6, <3>1 DEF RoomLeft
  <2> QED
    BY <1>2, <1>5, <2>4, <2>7, <2>8 DEF AloneInv
<1>6. CASE t # u
  <2>1. t \in alone /\ t \notin busy
    BY <1>2, <1>6
  <2>2. AloneInv(t)
    BY <2>1 DEF OnceInv
  <2>3. Busy(t) => SessionOf[u] # s
    BY <2>1
  <2>4. Busy(t) => Present(s)' = Present(s)
    BY <1>1, <1>2, <2>3 DEF Present, TypeOK
  <2>5. Early(t)' => Early(t)
    BY <1>2, <1>6 DEF Early
  <2>6. FirstRun(t)'
    BY <1>2, <2>2 DEF AloneInv, FirstRun
  <2>7. pc'[t] # "new" /\ turn'[t] = turn[t]
    BY <1>2, <1>6, <2>2 DEF AloneInv
  <2>8. Busy(t)' => Busy(t)
    BY <1>3, <1>6
  <2>9. \A v \in Tasks \ {t} :
          Busy(t) /\ SessionOf[v] = SessionOf[t] /\ Busy(v)' => Busy(v)
    BY <1>3, <2>3
  <2> HIDE DEF s, busy
  <2> QED
    BY <1>2, <2>2, <2>4, <2>5, <2>6, <2>7, <2>8, <2>9, CalmKeeps DEF s
<1> QED
  BY <1>5, <1>6

-----------------------------------------------------------------------------
(* No call completes twice                                                 *)

\* Every step keeps what is known of a task that has its session to itself.
LEMMA AloneStep ==
  ASSUME CacheLimit + 1 >= MaxIterations, IInv, OnceInv, [Next]_vars,
         NEW t \in alone', t \in Tasks
  PROVE  AloneInv(t)'
<1>1. TypeOK
  BY DEF IInv
<1>2. ASSUME NEW u \in Tasks, Enrich(u) PROVE AloneInv(t)'
  BY <1>2, EnrichAlone
<1>3. CASE \A u \in Tasks : ~Enrich(u)
  <2>1. alone' = alone
    <3> USE DEF workerVars, history
    <3>1. ASSUME NEW u \in Tasks, Command(u) \/ StoreFails(u) \/ BrainTimeout(u) \/ TaskStep(u)
          PROVE  alone' = alone
      BY <3>1 DEF Command, StoreFails, BrainTimeout, Abandons, TaskStep,
         Begin, Conclude, UseTool, Observe, NextTurn, Settle, Finish
    <3>2. ASSUME NEW w \in Workers, WorkerStep(w) \/ Leave(w) PROVE alone' = alone
      BY <3>2 DEF WorkerStep, Take, Deny, Recall, Invoke, Returns, Raises, Keep, Audit,
         AuditFails, WorkerDies, Leave
    <3>3. ASSUME Shed \/ Restart \/ UNCHANGED vars PROVE alone' = alone
      BY <3>3 DEF Shed, Restart, vars
    <3> QED
      BY <1>3, <3>1, <3>2, <3>3 DEF Next
  <2>2. AloneInv(t)
    BY <2>1 DEF OnceInv
  <2>3. ASSUME NEW u \in Tasks, Command(u) \/ StoreFails(u) \/ BrainTimeout(u) \/ TaskStep(u)
        PROVE  AloneInv(t)'
    <3>1. CASE Begin(t)
      BY <2>2, <3>1, BeginAlone
    <3>2. CASE NextTurn(t)
      BY <2>2, <3>2, NextTurnAlone
    <3>3. CASE Finish(t)
      BY <2>2, <3>3, FinishAlone
    <3> QED
      BY <1>3, <2>2, <2>3, <3>1, <3>2, <3>3, TaskStepCalm
  <2>4. ASSUME NEW w \in Workers, WorkerStep(w) \/ Leave(w) PROVE AloneInv(t)'
    <3>1. CASE Returns(w)
      BY <2>2, <3>1, ReturnsAlone
    <3>2. CASE Keep(w)
      BY <2>2, <3>2, KeepAlone
    <3>3. CASE Invoke(w)
      <4>1. wpc'[w] \in {"running", "auditing"}
        BY <1>1, <3>3 DEF Invoke, Stands, TypeOK
      <4>2. CASE wpc'[w] = "running"
        BY <2>2, <3>3, <4>2, InvokeAlone
      <4>3. CASE wpc'[w] = "auditing"
        <5>1. ~Returns(w) /\ ~Keep(w)
          BY <3>3 DEF Invoke, Returns, Keep
        <5> QED
          BY <2>2, <2>4, <4>3, <5>1, WorkerCalm
      <4> QED
        BY <4>1, <4>2, <4>3
    <3>4. CASE ~Returns(w) /\ ~Keep(w) /\ ~Invoke(w)
      BY <2>2, <2>4, <3>4, WorkerCalm
    <3> QED
      BY <3>1, <3>2, <3>3, <3>4
  <2>5. ASSUME Shed \/ Restart \/ UNCHANGED vars PROVE AloneInv(t)'
    <3>1. /\ UNCHANGED <<pc, wjob, done, memory>>
          /\ \/ wpc' = wpc
             \/ \A w \in Workers : wpc[w] \in {"gone", "dead"} /\ wpc'[w] = "idle"
      BY <2>5 DEF Shed, Restart, vars, taskVars, workerVars, history
    <3>2. ~Begin(t) /\ ~NextTurn(t)
      BY <1>1, <3>1, NoTaskMoves
    <3>3. \A w \in Workers : wpc[w] = "logging" => wpc'[w] = "logging"
      BY <3>1
    <3>4. \A w \in Workers : wpc'[w] = "running" => wpc[w] = "running"
      BY <3>1
    <3>5. FirstRun(t)'
      BY <2>2, <3>1, <3>4, FirstRunKeeps DEF AloneInv
    <3>6. Present(SessionOf[t])' = Present(SessionOf[t])
      BY <3>1 DEF Present
    <3> QED
      BY <1>3, <2>2, <3>1, <3>2, <3>3, <3>5, <3>6, CalmStep
  <2> QED
    BY <1>3, <2>3, <2>4, <2>5 DEF Next
<1> QED
  BY <1>2, <1>3

\* Only a handler that returns adds to what is done.
LEMMA DoneFrom ==
  ASSUME [Next]_vars
  PROVE  done' = done \/ \E w \in Workers : Returns(w)
<1> USE DEF workerVars, history
<1>1. ASSUME NEW u \in Tasks,
             Enrich(u) \/ Command(u) \/ StoreFails(u) \/ BrainTimeout(u) \/ TaskStep(u)
      PROVE  done' = done
  BY <1>1, TaskStepRests
<1>2. ASSUME NEW w \in Workers, WorkerStep(w) \/ Leave(w), ~Returns(w) PROVE done' = done
  BY <1>2 DEF WorkerStep, Take, Deny, Recall, Invoke, Raises, Keep, Audit,
     AuditFails, WorkerDies, Leave
<1>3. ASSUME Shed \/ Restart \/ UNCHANGED vars PROVE done' = done
  BY <1>3 DEF Shed, Restart, vars
<1> QED
  BY <1>1, <1>2, <1>3 DEF Next

\* The invariant of the completed calls is inductive.
LEMMA OnceStep ==
  ASSUME CacheLimit + 1 >= MaxIterations, IInv, OnceInv, [Next]_vars
  PROVE  OnceInv'
<1>1. TypeOK /\ WorkersAtWork /\ JobsAwaited /\ alone \subseteq Tasks
  BY DEF IInv, TypeOK
<1>2. alone' \subseteq Tasks
  BY TypeStep DEF IInv, TypeOK
<1>3. ASSUME NEW t \in Tasks, pc'[t] \in {"new", "ready"} PROVE turn'[t] = 0
  <2>1. ~Begin(t) /\ ~NextTurn(t)
    BY <1>1, <1>3 DEF Begin, NextTurn, Goes, TypeOK
  <2>2. pc[t] \in {"new", "ready"} /\ turn'[t] = turn[t]
    BY <1>1, <1>3, <2>1, TurnFrom DEF Enrich
  <2> QED
    BY <2>2 DEF OnceInv
<1>4. \A w \in Workers : Returns(w) => wjob[w] \in Job /\ pc[wjob[w].task] # "new"
  <2> SUFFICES ASSUME NEW w \in Workers, Returns(w)
               PROVE  wjob[w] \in Job /\ pc[wjob[w].task] # "new"
    OBVIOUS
  <2>1. wjob[w] # NoJob
    BY <1>1 DEF Returns, WorkersAtWork
  <2> QED
    BY <1>1, <2>1, JobsHaveTasks DEF JobsAwaited, Awaited
<1>5. ASSUME NEW j \in done' PROVE pc'[j.task] # "new"
  <2>1. \A k \in Job : k.task \in Tasks
    BY DEF Job
  <2>2. j.task \in Tasks /\ pc[j.task] # "new"
    <3>1. CASE j \in done
      BY <1>1, <2>1, <3>1 DEF OnceInv, TypeOK
    <3>2. CASE j \notin done
      <4>1. PICK w \in Workers : Returns(w)
        BY <3>2, DoneFrom
      <4>2. j = wjob[w]
        BY <3>2, <4>1 DEF Returns
      <4> QED
        BY <1>4, <2>1, <4>1, <4>2
    <3> QED
      BY <3>1, <3>2
  <2>3. CASE Begin(j.task) \/ NextTurn(j.task)
    BY <1>1, <2>2, <2>3 DEF Begin, NextTurn, Goes, TypeOK
  <2> QED
    BY <1>1, <2>2, <2>3, TurnFrom
<1>6. \A t \in alone' : AloneInv(t)'
  BY <1>2, AloneStep
<1>7. OnceAlone'
  <2> SUFFICES ASSUME NEW j \in done', NEW k \in done',
                      j.task = k.task, j.call = k.call, j.task \in alone'
               PROVE  j = k
    BY DEF OnceAlone
  <2>1. CASE done' = done
    <3>1. alone' \subseteq alone \cup {t \in Tasks : pc[t] = "new"}
      <4> USE DEF workerVars, history
      <4>1. ASSUME NEW u \in Tasks, Enrich(u)
            PROVE  alone' \subseteq alone \cup {t \in Tasks : pc[t] = "new"}
        BY <4>1 DEF Enrich
      <4>2. ASSUME NEW u \in Tasks, Command(u) \/ StoreFails(u) \/ BrainTimeout(u) \/ TaskStep(u)
            PROVE  alone' = alone
        BY <4>2 DEF Command, StoreFails, BrainTimeout, Abandons, TaskStep,
           Begin, Conclude, UseTool, Observe, NextTurn, Settle, Finish
      <4>3. ASSUME NEW w \in Workers, WorkerStep(w) \/ Leave(w) PROVE alone' = alone
        BY <4>3 DEF WorkerStep, Take, Deny, Recall, Invoke, Returns, Raises, Keep, Audit,
           AuditFails, WorkerDies, Leave
      <4>4. ASSUME Shed \/ Restart \/ UNCHANGED vars PROVE alone' = alone
        BY <4>4 DEF Shed, Restart, vars
      <4> QED
        BY <4>1, <4>2, <4>3, <4>4 DEF Next
    <3>2. j.task \in alone
      BY <2>1, <3>1 DEF OnceInv
    <3> QED
      BY <2>1, <3>2 DEF OnceInv, OnceAlone
  <2>2. ASSUME NEW w \in Workers, Returns(w) PROVE j = k
    <3>1. alone' = alone /\ done' = done \cup {wjob[w]} /\ wpc[w] = "running"
      BY <2>2 DEF Returns
    <3>2. FirstRun(j.task)
      BY <3>1 DEF OnceInv, AloneInv
    <3>3. CASE j \in done /\ k \in done
      BY <3>1, <3>3 DEF OnceInv, OnceAlone
    <3>4. CASE j \in done /\ k = wjob[w]
      BY <3>1, <3>2, <3>4 DEF FirstRun
    <3>5. CASE j = wjob[w] /\ k \in done
      BY <3>1, <3>2, <3>5 DEF FirstRun
    <3> QED
      BY <3>1, <3>3, <3>4, <3>5
  <2> QED
    BY <2>1, <2>2, DoneFrom
<1> QED
  BY <1>3, <1>5, <1>6, <1>7 DEF OnceInv

\* With a cache that holds a result for each turn but the last, a task that has
\* its session to itself completes no call twice: whoever is cut off, however
\* often memory is shed, and whatever the database refuses.
THEOREM NoCallCompletesTwice ==
  ASSUME CacheLimit + 1 >= MaxIterations
  PROVE  Spec => []OnceAlone
<1>1. Init => OnceInv
  BY DEF Init, OnceInv, OnceAlone
<1>2. IInv /\ OnceInv /\ [Next]_vars => OnceInv'
  BY OnceStep
<1>3. OnceInv => OnceAlone
  BY DEF OnceInv
<1> QED
  BY <1>1, <1>2, <1>3, InvHolds, PTL DEF Spec
=============================================================================

---------------------------- MODULE ToolExecutor ----------------------------
(***************************************************************************)
(* How a task thinks and acts: the ReAct loop (lisa/react_engine.py) on an *)
(* arm of the conductor, the pool of tool workers (lisa/tool_executor.py)  *)
(* it sends its tool calls to, the two attempts of ToolRegistry.invoke     *)
(* (lisa/tools.py), and the working memory with its idempotency cache that *)
(* all tasks of one session share (lisa/memory_system.py).                 *)
(*                                                                         *)
(* A task id is a session id, so a session's next message, or its repeat   *)
(* after a time-out, meets what the earlier one has left. What prompts,    *)
(* answers and tool outputs say is left out, and so are messages, notes    *)
(* and plans of the working memory, which no code reads. The 256 places    *)
(* of the queue are taken for enough: an arm has one call at a time.       *)
(***************************************************************************)
EXTENDS Naturals, Sequences, SequencesExt

CONSTANTS
  Tasks,          \* tasks the conductor gives to an arm
  Sessions,       \* chat sessions
  SessionOf,      \* the session of each task
  Calls,          \* tool calls, told apart by tool and arguments
  NotApproved,    \* <<task, call>>: the task lacks the call's permission level
  Workers,        \* the tasks of the pool
  MaxIterations,  \* turns of the loop (10 in the code)
  CacheLimit,     \* results kept for a session (100 in the code)
  MaxSheds,       \* bound: how often memory is shed
  DatabaseFails,  \* whether an insert into PostgreSQL may raise
  NoJob,          \* an idle worker's job
  NoMemory        \* a session without working memory

ASSUME ExecutorAssumption ==
  /\ SessionOf \in [Tasks -> Sessions]
  /\ NotApproved \subseteq Tasks \X Calls
  /\ MaxIterations \in Nat \ {0} /\ CacheLimit \in Nat \ {0} /\ MaxSheds \in Nat
  /\ DatabaseFails \in BOOLEAN

\* A call as the executor sees it: who made it, in which turn.
Job == [task : Tasks, turn : 1 .. MaxIterations, call : Calls]

ASSUME NullAssumption == NoJob \notin Job /\ NoMemory \notin Seq(Calls)

VARIABLES
  pc,        \* where each task stands
  turn,      \* its iteration
  reply,     \* the future of its call
  queue,     \* jobs waiting for a worker, oldest first
  wpc,       \* where each worker stands
  wjob,      \* its job
  tries,     \* how often it has started the handler for it
  good,      \* whether the job has gone well so far
  shedding,  \* ToolExecutor.close waits for the workers
  sheds,     \* times memory has been shed: _stop is never cleared again
  memory,    \* for each session, the keys of its cached results, oldest first
  due,       \* history: jobs whose handler was started, and no audit written
  done,      \* history: jobs whose handler has returned
  alone,     \* history: tasks that never shared their session
  left,      \* history: sessions a task has left without clear_task
  dropped    \* history: jobs of workers that have died

taskVars   == <<pc, turn, reply>>
workerVars == <<wpc, wjob, tries, good>>
poolVars   == <<shedding, sheds>>
history    == <<done, alone, left, dropped>>
vars == <<taskVars, queue, workerVars, poolVars, memory, due, history>>

-----------------------------------------------------------------------------
TaskPc   == {"new", "ready", "thinking", "waiting", "reflecting", "storing", "over"}
Replies  == {"none", "pending", "ok", "error", "denied"}
WorkerPc == {"idle", "taken", "running", "logging", "auditing", "gone", "dead"}

\* Shape of every variable.
TypeOK ==
  /\ pc \in [Tasks -> TaskPc]
  /\ turn \in [Tasks -> 0 .. MaxIterations]
  /\ reply \in [Tasks -> Replies]
  /\ queue \in Seq(Job)
  /\ wpc \in [Workers -> WorkerPc]
  /\ wjob \in [Workers -> Job \cup {NoJob}]
  /\ tries \in [Workers -> 0 .. 4]
  /\ good \in [Workers -> BOOLEAN]
  /\ shedding \in BOOLEAN
  /\ sheds \in 0 .. MaxSheds
  /\ memory \in [Sessions -> Seq(Calls) \cup {NoMemory}]
  /\ \A s \in Sessions : memory[s] # NoMemory => Len(memory[s]) <= CacheLimit
  /\ due \subseteq Job /\ done \subseteq Job
  /\ alone \subseteq Tasks
  /\ left \subseteq Sessions
  /\ dropped \subseteq Job

Active(t)  == pc[t] \notin {"new", "over"}
InHand     == {wjob[w] : w \in Workers} \ {NoJob}
Unfinished == ToSet(queue) \cup InHand
Busy(t)    == Active(t) \/ \E j \in Unfinished : j.task = t
Goes(t, where) == pc' = [pc EXCEPT ![t] = where]

\* get_working_memory makes a new state for a session that has none.
Present(s) == IF memory[s] = NoMemory THEN <<>> ELSE memory[s]
Touch(t) == memory' = [memory EXCEPT ![SessionOf[t]] = Present(SessionOf[t])]

-----------------------------------------------------------------------------
(* A task                                                                  *)

\* enrich_task starts with an empty working memory, whoever else uses it.
Enrich(t) ==
  LET s == SessionOf[t]
      busy == {u \in Tasks : SessionOf[u] = s /\ Busy(u)}
  IN /\ pc[t] = "new"
     /\ Goes(t, "ready")
     /\ memory' = [memory EXCEPT ![s] = <<>>]
     /\ alone' = IF busy = {} THEN alone \cup {t} ELSE alone \ busy
     /\ UNCHANGED <<turn, reply, queue, workerVars, poolVars, due, done, left, dropped>>

\* A task ends without clear_task: nobody frees its working memory.
Abandons(t) ==
  /\ Goes(t, "over")
  /\ left' = left \cup {SessionOf[t]}
  /\ UNCHANGED <<turn, reply, queue, workerVars, poolVars, memory, due,
                 done, alone, dropped>>

\* The message switches the constitution: answered before the loop begins.
Command(t) == pc[t] = "ready" /\ Abandons(t)

\* The conductor's wait_for cancels the loop, or an exception ends it. A call
\* it waits for stays with the executor, with nobody to take the reply.
BrainTimeout(t) ==
  /\ pc[t] \in {"ready", "thinking", "waiting", "reflecting", "storing"}
  /\ Abandons(t)

\* append_message, then the first turn.
Begin(t) ==
  /\ pc[t] = "ready"
  /\ Goes(t, "thinking")
  /\ turn' = [turn EXCEPT ![t] = 1]
  /\ Touch(t)
  /\ UNCHANGED <<reply, queue, workerVars, poolVars, due, history>>

\* The thought is an answer, or neither an answer nor a call.
Conclude(t) ==
  /\ pc[t] = "thinking"
  /\ Goes(t, "storing")
  /\ Touch(t)
  /\ UNCHANGED <<turn, reply, queue, workerVars, poolVars, due, history>>

\* The thought is a tool call: execute puts a job into the queue.
UseTool(t, c) ==
  /\ pc[t] = "thinking"
  /\ Goes(t, "waiting")
  /\ reply' = [reply EXCEPT ![t] = "pending"]
  /\ queue' = Append(queue, [task |-> t, turn |-> turn[t], call |-> c])
  /\ Touch(t)
  /\ UNCHANGED <<turn, workerVars, poolVars, due, history>>

\* append_tool_call, then the reflection is asked for.
Observe(t) ==
  /\ pc[t] = "waiting" /\ reply[t] # "pending"
  /\ Goes(t, "reflecting")
  /\ Touch(t)
  /\ UNCHANGED <<turn, reply, queue, workerVars, poolVars, due, history>>

\* The goal is not achieved and there are turns left.
NextTurn(t) ==
  /\ pc[t] = "reflecting" /\ turn[t] < MaxIterations
  /\ Goes(t, "thinking")
  /\ turn' = [turn EXCEPT ![t] = @ + 1]
  /\ Touch(t)
  /\ UNCHANGED <<reply, queue, workerVars, poolVars, due, history>>

\* The goal is achieved, or this was the last turn.
Settle(t) ==
  /\ pc[t] = "reflecting"
  /\ Goes(t, "storing")
  /\ Touch(t)
  /\ UNCHANGED <<turn, reply, queue, workerVars, poolVars, due, history>>

\* Fault: the working memory is never freed.
FreeNothing(t) == UNCHANGED memory

\* clear_task drops the working memory of the session.
Free(t) == memory' = [memory EXCEPT ![SessionOf[t]] = NoMemory]

\* store_episode, then clear_task.
Finish(t) ==
  /\ pc[t] = "storing"
  /\ Goes(t, "over")
  /\ Free(t)
  /\ UNCHANGED <<turn, reply, queue, workerVars, poolVars, due, history>>

\* store_episode raises: the exception passes clear_task by.
StoreFails(t) == DatabaseFails /\ pc[t] = "storing" /\ Abandons(t)

-----------------------------------------------------------------------------
(* A worker                                                                *)

Stands(w, where) == wpc' = [wpc EXCEPT ![w] = where]

Take(w) ==
  /\ wpc[w] = "idle" /\ queue # <<>>
  /\ Stands(w, "taken")
  /\ wjob' = [wjob EXCEPT ![w] = Head(queue)]
  /\ queue' = Tail(queue)
  /\ UNCHANGED <<taskVars, tries, good, poolVars, memory, due, history>>

\* Fault: the future of a failed call is left open.
RepliesResultsOnly(j, value) ==
  IF pc[j.task] = "waiting" /\ turn[j.task] = j.turn /\ value = "ok"
  THEN [reply EXCEPT ![j.task] = value] ELSE reply

\* set_result, if the caller still waits.
Replied(j, value) ==
  IF pc[j.task] = "waiting" /\ turn[j.task] = j.turn
  THEN [reply EXCEPT ![j.task] = value] ELSE reply

\* The worker is done with its job.
Answer(w, value) ==
  /\ reply' = Replied(wjob[w], value)
  /\ Stands(w, "idle")
  /\ wjob' = [wjob EXCEPT ![w] = NoJob]
  /\ tries' = [tries EXCEPT ![w] = 0]
  /\ good' = [good EXCEPT ![w] = TRUE]

\* has_permission is false of the call.
Refused(j) == <<j.task, j.call>> \in NotApproved

Deny(w) ==
  /\ wpc[w] = "taken" /\ Refused(wjob[w])
  /\ Answer(w, "denied")
  /\ UNCHANGED <<pc, turn, queue, poolVars, memory, due, history>>

\* Fault: the cache is written and never read.
CachedNever(j) == FALSE

\* get_cached_tool_result: the key is made of session, tool and arguments.
Cached(j) == j.call \in ToSet(Present(SessionOf[j.task]))

\* get_cached_tool_result has a result: nothing runs, nothing is audited.
Recall(w) ==
  /\ wpc[w] = "taken" /\ ~Refused(wjob[w])
  /\ Cached(wjob[w])
  /\ Answer(w, "ok")
  /\ Touch(wjob[w].task)
  /\ UNCHANGED <<pc, turn, queue, poolVars, due, history>>

\* The handler is started; or the tool is unknown, and no attempt is made.
Invoke(w) ==
  /\ wpc[w] = "taken" /\ ~Refused(wjob[w])
  /\ ~Cached(wjob[w])
  /\ Touch(wjob[w].task)
  /\ \/ /\ Stands(w, "running")
        /\ tries' = [tries EXCEPT ![w] = 1]
        /\ due' = due \cup {wjob[w]}
        /\ UNCHANGED good
     \/ /\ Stands(w, "auditing")
        /\ good' = [good EXCEPT ![w] = FALSE]
        /\ UNCHANGED <<tries, due>>
  /\ UNCHANGED <<taskVars, queue, wjob, poolVars, history>>

\* The handler returns within its time: its row goes to the notepad writer.
Returns(w) ==
  /\ wpc[w] = "running"
  /\ Stands(w, "logging")
  /\ done' = done \cup {wjob[w]}
  /\ UNCHANGED <<taskVars, queue, wjob, tries, good, poolVars, memory, due,
                 alone, left, dropped>>

\* A second attempt follows a first; after a second that raised a TypeError
\* _invoke_registry invokes the tool again, for two more.
Repeats(n, typeError) == n \in {1, 3} \/ (n = 2 /\ typeError)

\* The handler raises, or runs out of time.
Raises(w, typeError) ==
  /\ wpc[w] = "running"
  /\ IF Repeats(tries[w], typeError)
     THEN /\ tries' = [tries EXCEPT ![w] = @ + 1]
          /\ UNCHANGED <<wpc, good>>
     ELSE /\ Stands(w, "auditing")
          /\ good' = [good EXCEPT ![w] = FALSE]
          /\ UNCHANGED tries
  /\ UNCHANGED <<taskVars, queue, wjob, poolVars, memory, due, history>>

\* A key written again keeps its place; the oldest one goes when there are
\* more than CacheLimit.
Stored(cache, c) ==
  IF c \in ToSet(cache) THEN cache
  ELSE IF Len(cache) >= CacheLimit THEN Append(Tail(cache), c)
  ELSE Append(cache, c)

\* The notepad writer has the row, and cache_tool_result keeps the result.
Keep(w) ==
  LET s == SessionOf[wjob[w].task]
  IN /\ wpc[w] = "logging"
     /\ Stands(w, "auditing")
     /\ memory' = [memory EXCEPT ![s] = Stored(Present(s), wjob[w].call)]
     /\ UNCHANGED <<taskVars, queue, wjob, tries, good, poolVars, due, history>>

Recorded(w) == due' = due \ {wjob[w]}

\* Fault: the reply is given and no audit is written.
AuditSkipped(w) ==
  /\ wpc[w] = "auditing"
  /\ Answer(w, IF good[w] THEN "ok" ELSE "error")
  /\ UNCHANGED <<pc, turn, queue, poolVars, memory, due, history>>

\* record_audit, and the reply.
Audit(w) ==
  /\ wpc[w] = "auditing"
  /\ Recorded(w)
  /\ Answer(w, IF good[w] THEN "ok" ELSE "error")
  /\ UNCHANGED <<pc, turn, queue, poolVars, memory, history>>

\* record_audit keeps the row in memory and raises at the insert: a call that
\* went well is reported as an error, after a second audit.
AuditFails(w) ==
  /\ DatabaseFails /\ wpc[w] = "auditing" /\ good[w]
  /\ Recorded(w)
  /\ good' = [good EXCEPT ![w] = FALSE]
  /\ UNCHANGED <<taskVars, queue, wpc, wjob, tries, poolVars, memory, history>>

\* It raises in the except branch: the worker ends, the future stays open.
WorkerDies(w) ==
  /\ DatabaseFails /\ wpc[w] = "auditing" /\ ~good[w]
  /\ Recorded(w)
  /\ Stands(w, "dead")
  /\ wjob' = [wjob EXCEPT ![w] = NoJob]
  /\ tries' = [tries EXCEPT ![w] = 0]
  /\ good' = [good EXCEPT ![w] = TRUE]
  /\ dropped' = dropped \cup {wjob[w]}
  /\ UNCHANGED <<taskVars, queue, poolVars, memory, done, alone, left>>

-----------------------------------------------------------------------------
(* Shedding memory                                                         *)

\* _shed_memory_runtime calls close, which sets _stop and gathers the workers.
Shed ==
  /\ ~shedding /\ sheds < MaxSheds
  /\ shedding' = TRUE
  /\ sheds' = sheds + 1
  /\ UNCHANGED <<taskVars, queue, workerVars, memory, due, history>>

\* The loop of a worker ends: _stop is set and the queue is empty.
Leave(w) ==
  /\ wpc[w] = "idle" /\ sheds > 0 /\ queue = <<>>
  /\ Stands(w, "gone")
  /\ UNCHANGED <<taskVars, queue, wjob, tries, good, poolVars, memory, due, history>>

\* All workers have ended; start makes new ones, with _stop still set.
Restart ==
  /\ shedding
  /\ \A w \in Workers : wpc[w] \in {"gone", "dead"}
  /\ shedding' = FALSE
  /\ wpc' = [w \in Workers |-> "idle"]
  /\ UNCHANGED <<taskVars, queue, wjob, tries, good, sheds, memory, due, history>>

-----------------------------------------------------------------------------
Init ==
  /\ pc = [t \in Tasks |-> "new"]
  /\ turn = [t \in Tasks |-> 0]
  /\ reply = [t \in Tasks |-> "none"]
  /\ queue = <<>>
  /\ wpc = [w \in Workers |-> "idle"]
  /\ wjob = [w \in Workers |-> NoJob]
  /\ tries = [w \in Workers |-> 0]
  /\ good = [w \in Workers |-> TRUE]
  /\ shedding = FALSE /\ sheds = 0
  /\ memory = [s \in Sessions |-> NoMemory]
  /\ due = {} /\ done = {}
  /\ alone = {} /\ left = {} /\ dropped = {}

TaskStep(t) ==
  \/ Begin(t) \/ Conclude(t) \/ Observe(t) \/ NextTurn(t) \/ Settle(t) \/ Finish(t)
  \/ \E c \in Calls : UseTool(t, c)

WorkerStep(w) ==
  \/ Take(w) \/ Deny(w) \/ Recall(w) \/ Invoke(w) \/ Returns(w)
  \/ \E e \in BOOLEAN : Raises(w, e)
  \/ Keep(w) \/ Audit(w) \/ AuditFails(w) \/ WorkerDies(w)

Next ==
  \/ \E t \in Tasks : Enrich(t) \/ Command(t) \/ TaskStep(t) \/ StoreFails(t)
                      \/ BrainTimeout(t)
  \/ \E w \in Workers : WorkerStep(w) \/ Leave(w)
  \/ Shed \/ Restart

Spec == Init /\ [][Next]_vars

-----------------------------------------------------------------------------
(* Properties                                                              *)

\* A session has working memory only while one of its tasks is at work, or
\* when one went without clear_task (a time-out, a constitution command, a
\* failed insert): no late result of a worker brings it back otherwise.
MemoryFreed ==
  \A s \in Sessions : memory[s] # NoMemory =>
    s \in left \/ \E t \in Tasks : SessionOf[t] = s /\ Active(t)

\* A task that has its session to itself makes no tool complete the same call
\* twice: the result of the first is recalled from the idempotency cache. The
\* cache must hold what the turns before the last can put there; in the code
\* it has 100 places for 10 turns.
OnceAlone ==
  \A j, k \in done :
    j.task = k.task /\ j.call = k.call /\ j.task \in alone => j = k

\* Every call whose handler was ever started is still in a worker's hands or
\* has its row in the audit table, also when its caller is gone or the worker
\* has died.
RunsAreAudited == due \subseteq InHand

\* A caller that waits has its job in the queue or in a worker's hands: only a
\* worker that dies leaves a caller to the brain's time-out.
WaiterHasJob ==
  \A t \in Tasks : pc[t] = "waiting" /\ reply[t] = "pending" =>
    \E j \in Unfinished \cup dropped : j.task = t /\ j.turn = turn[t]
=============================================================================

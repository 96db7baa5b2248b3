# LISA: formal models of the assistant's core

This directory models the control logic of the assistant in `src/`: how messages
become jobs, how jobs are scheduled, run and answered, how tools are called, how
the process is restarted, and what survives. The models are TLA+ modules,
checked by TLC on small instances and, for the results listed below, proved by
TLAPS for every value of the constants. The program is Python on one asyncio
event loop per process; a step of a model is the code between two awaits that can
give way to other tasks, unless a comment says otherwise.

## 1. Inventory

| Component | State | Operations | Talks to |
|---|---|---|---|
| Task conductor `lisa/conductor.py`, `utils/snapshot.py` | priority queue, arm tasks, semaphore, session table (500, LRU), snapshot file | `submit_brain`, `try_submit_message`, `run_forever`, `_handle`, `start`, `close`, `_periodic_snapshot` | agent (calls), notepad writer (futures), event bus, hub and API (callers) |
| Notepad writer `lisa/notepad.py` | queue of rows, SQLite ledger | `enqueue`, `_run`, `flush_pending`, `close` | conductor and tool registry wait for its rows |
| Message hub `lisa/hub.py` | session of each user, delivery address of each session, active jobs | `_telegram_webhook`, `ingest_message`, shortcuts, `_observe_events`, `_deliver_chat_response`, `dispatch_request` | providers, replay guard, access controller, conductor, event bus |
| Replay guard `safety/replay_guard.py` | table of keys with expiry | `check_webhook`, `check_message` | hub |
| Event bus `lisa/events.py` | history ring, one bounded queue per subscriber | `publish`, `subscribe` | everybody publishes, hub and API subscribe |
| Process lock `utils/process_lock.py` | lock file with a pid | `acquire`, `release` | `main.py`, `supervisor.py`, a script |
| Supervisor `supervisor.py` | child, restart counter | `monitor_lisa`, `graceful_shutdown` | `main.py` as a child, its HTTP API |
| ReAct engine `lisa/react_engine.py`, agent `lisa/agent.py` | one loop per task | `enrich_task`, `process_enriched_task`, `run` | conductor (caller, cancels), tool executor, memory |
| Tool executor `lisa/tool_executor.py`, registry `lisa/tools.py`, sandbox `lisa/sandbox.py` | queue of calls, workers, futures | `submit`, `_run_worker`, `_handle`, `_invoke_registry`, `close`, `start` | ReAct engine, memory, notepad writer, API (shed memory) |
| Memory system `lisa/memory_system.py` | working memory with an idempotency cache per session, episodes, audit | `initialize_working_memory`, `cache_tool_result`, `clear_task`, `record_audit` | agent, engine, executor |
| Skill files, in `lisa/tools.py`, `utils/evolution_guard.py` | skills directory with manifest and archive, zip snapshots, journal, handlers of the registry | `add_skill`, `rollback_skill`, `reload_manifest_skills`, the guard's `note_error` and restoration | agents and the API call them; files are worked on in threads |
| Artifact skills and evolution `lisa/evolution*.py`, in `lisa/tools.py` and `memory_system.py` | files named by second, a record of each skill, handlers, failure counters; the cycle's list and stop event | store, load on use, count failures, disable; nightly cycle with and without a scoring engine; `close` | registry, memory, notepad, conductor (is it idle?) |
| Model client `lisa/llm.py`, `lisa/local_inference.py` | two token buckets, the local model's threads | choice of the backend, race of both with a grace period, `acquire`, parser of tool calls | agent, ReAct engine, evolution, a tool |
| Channel access `lisa/channel_access.py` | rule table, its file, a lock file | `_load`, `grant`, `revoke`, `is_authorized` | hub, API |
| Sessions `safety/session_auth.py` | table of tokens | issue, look up, log out, purge | hub, API |
| Live viewers, in `lisa/hub.py` and `lisa/api.py` | websockets, their queues, the observer's statistics | connect, broadcast, push, heartbeat, leave | event bus, sessions |
| Self-directed conductor `conductor/autonomous.py` | recent goals | one goal a minute when idle | conductor |

The remaining parts (prompts and personas, sanitizer, signatures, rendering of
the dashboard, configuration, scripts) are listed in `PROJECT.json` with the reason
why they have no model.

What is hard here: tasks of one event loop interleave at every await; callers
give up (client disconnects, brain time-out) while their work goes on; the
process is killed by its supervisor and starts from a snapshot that may be old,
torn or repeated; providers repeat deliveries; bounded queues refuse, block or
drop; state keyed by session is shared by concurrent jobs of the session; inserts
may fail in the middle of a handler; two processes race for one lock file; files of
skills are written, archived, unpacked and imported in threads while the handlers
made from them serve calls; a cycle that lasts minutes puts back what it read at
its beginning; a write ends between two system calls, raises, or is read back as nothing. The 40 hazards in `PROJECT.json` place these at lines of the code.

What makes each component correct:

* conductor: an accepted job is never lost or doubled inside a process, its
  caller is answered once, from what the ledger records, and a close whose save
  does not fail leaves no job behind;
* hub: a message that has a lasting key enters once however often it is delivered,
  an answer reaches its user and nobody else, and is lost only by a named loss, and
  so is the event that ends a job's activity;
* lock and supervisor: a lock that has been won stays with its owner, every start
  is decided, the service comes back or the supervisor has given up for cause;
* tools: every started call leaves an audit row, a waiting caller has a job,
  working memory is freed, a completed call is not repeated;
* notepad writer: rows get into the ledger once and in order, whoever enqueued one
  learns its place, a flush misses next to nothing, a close nothing;
* skill files: what is overwritten can be got back, and the registry serves what a
  restart would load, but for named faults;
* artifact skills and evolution: a disabled skill is not served, an enabled one can
  be loaded, only better candidates replace a skill, and the cycle can be stopped;
* model client: the provider's limits hold, a race fails only when both backends
  have failed, and nothing of a call that has returned takes tokens or asks a
  provider (a thread that the local model has begun does run to its end); of what
  the parser sees of an answer, every tool call is found once;
* access, sessions, viewers: what an administrator was told of the list holds, a
  session that is over stays over, and a viewer comes to show what has happened.

## 2. Modules

### Conductor

`TaskConductor.tla` is the scheduler. `queue`, `hand`, `pc`, `waiters` and
`permits` are the priority queue, the job between `queue.get()` and
`create_task`, the arms, the semaphore's waiters and its value. Python 3.11's
`wait_for` runs `queue.get` in a task of its own, so there is a moment in which
the queue is empty and the job is only in the worker's hand: `WorkerGet` and
`WorkerSpawn` are two actions. `SubmitBrain` (also reached through
`submit_chat`) blocks in `put` when the queue is full; `TrySubmitMessage` is
refused. An arm goes through `ArmAcquire`, `ArmPrepare`, `ArmResponds` or
`ArmFails`, and `ArmFinish`; between the last two the notepad writer must have
written its summary (`WriteBatch`). A canned time-out answer is an answer like
any other; an exception is a failure. `CallerCancels` may come at any time.
`Start`, `SaveSnapshot`, `Close`, `WorkerExit`, `CloseFinish`, `Kill` and
`KillDuringSave` are the life of the process; `KillDuringSave` leaves a file
whose signature does not match, which the code treats as no file. A save may also
raise, which nobody notices: the loop goes on and `close` returns with the file as
it was or torn. `Start` may fail to read a file and then begins with nothing.
`kept` is what a close has saved and a readable file still has.

`JobService.tla` is what the rest of the assistant may rely on: accept, serve
with a bounded number of servers, record, answer once; stop and resume.
`ConductorService.tla` maps the conductor onto it and states the refinement.

### Message hub

`MessageHub.tla` follows a channel message from the webhook to the answer. The
replay guard (`seen`) is a sequence in insertion order with expiry times, pruned
exactly as `_prune` does, first by time, then to `max_entries`, before the new
key is added. An update's request has a key that is the same for each delivery, a
key that is new each time (Slack's signature), or none (`WebhookKey`), and its message
has an id or has none for the hub (`Numbered`); without a key nothing is looked up or
added. `Ingest` is a webhook delivery with its exits in the order of the
code: the update is known, the message is known, the sender is refused, a
shortcut answers, the queue takes the task or refuses it. Keys stay registered on
every later exit, as in the code. Jobs are reduced to phases; the conductor's own
model has the rest. `Publish` drops the oldest event of a full queue. `Send`
reads the address of the session when it runs. `active` is the table of active
jobs, which the observer fills and empties by the events it sees; `published` and
`sent` are histories of answers, by life of the process. `Restart` forgets everything in
memory and takes back any subset of the jobs as queued, since a snapshot may be
older than the crash.

### Lock and supervisor

`ProcessLock.tla` splits `acquire` and `release` into their file operations:
create, read the holder's pid, ask whether it runs (`Judge`: the pid in hand may be
that of an earlier holder), remove, write the pid, and on release read and unlink.
Processes may die anywhere and pids are reused. `Supervisor.tla` extends
it with `monitor_lisa`; starting a child is a `Start` of the lock protocol, so
supervisor, children and processes started by hand compete for the same file.

### Tools

`ToolExecutor.tla` has the ReAct loop of each task (`Enrich`, `Begin`, `UseTool`,
`Observe`, `NextTurn`, `Settle`, `Conclude`, `Finish`), its early ends
(`Command`, `BrainTimeout`, `StoreFails`), the workers (`Take`, then `Deny`,
`Recall` or `Invoke`, `Returns` or `Raises`, `Keep`, `Audit`, `AuditFails` or
`WorkerDies`), and shedding of memory (`Shed`, `Leave`, `Restart`). Working memory
is keyed by session and shared by its tasks; only its idempotency cache is kept
in the model because no code reads the rest. `Raises` counts the starts of a
handler: `invoke` makes two attempts, and `_invoke_registry` invokes again after a
TypeError.

### Skills and evolution

`SkillFiles.tla` has the skills directory (`file`, `archive`, `manifest`), the zip
files of the guard (`snaps`), the journal and the registry's handlers, each as the
code it was imported from. A call of `add_skill` is `Snapshot`, `Archive`, `WriteFile`,
`Install`, `Record` and `WriteManifest`, of `rollback_skill` `Restore`, `Reinstall`
and `WriteManifest`; a failing skill is `Fail`, and when that trips the guard, `Clear`,
`Unpack` and `Reload`. Every one is a part of the work that runs in a thread or
between two awaits, so calls interleave there. A call that raises is made once
more by the registry (`Raised`). While a manifest is written, readers may find no
JSON and take it for no records (`Readable`). Names of archived files and of
snapshots have the resolution of a second, so two of one second are one.

`SkillEvolution.tla` is about the other kind of skill: an artifact named by its
second, a record with URL and checksum, and a handler. An agent's `Add`, `Use` and
`Rollback`, and the tool calls that the nightly cycle makes, run the same steps
(`WriteArtifact` to `Pop`, for each process `p`); `Over` says what the cycle does with
the end of its call. With a scoring engine the cycle is `WakeScored`, `Evolve`,
`Judge` or `TestRaises`, and `Promote` puts back the metadata that was read at the
beginning; without, it is `WakeClusters`, `Synthesize`, `Stage*`, a check by
invoking the skill and a rollback when it fails. `Close` sets the stop event, which
only the waiting loop looks at.

### Notepad writer

`NotepadWriter.tla` is the writer on its own: `Get` and `Write` are two steps because
`wait_for` runs `queue.get` in a task of its own, and the row is in its hand between
them; the rest of the batch is taken, appended and answered without a pause.
`AppendOther` stands for rows that do not pass the writer. `Flush` and `Read`, `Close`,
`CloseFlushed` and `CloseJoined` poll the queue as `flush_pending` does.
`LedgerService.tla` is its promise: accept a row, commit the oldest ones and tell
their places. The refinement maps what is accepted to the hand and the queue.

### Model client

`ModelClient.tla`: `Brain` and `Backend` are the two ways to choose a backend, `Start`
and `StartRace` what follows from them. The external branch of a call waits for a
request and then for tokens and asks the provider (`AcquireRequest`,
`AcquireTokens`, `Post`); the local one is a thread that nobody can stop
(`Generated`). `Wake`, `GraceEnds` and `Return` are the caller's side. `GiveUp` is the
caller's time-out: a single branch is cancelled with its caller, the two tasks of
a race are not, which the code leaves so. The buckets hold whole units and `Tick` is
their refill, whoever looks. A caller makes one call after the other (`Again`).

`AnswerParser.tla` is the parser, for one answer: a sequence of pieces, each a tag, a
fence, bare JSON or plain text. `TakeBeginning` is the cut at 32,000 characters: some
first pieces are seen whole, and of the next one a residue. A tag or fence that is cut
is none, but JSON in it may be complete, or hold an object that reads as a call, and
the scan for JSON finds it. `Parse` looks for tags, fences and JSON (`ToolCalls`,
`Text`); a payload that begins like a tag and is no well-formed XML raises, and
the caller's branch has failed (`"err"` in `ModelClient`).

### Control plane

`ControlPlane.tla` composes `ChannelAccess.tla` and `SessionAuth.tla`, which it
EXTENDS, with the live viewers in one process that starts, ends and dies.
`Persist` is the write of the allow-list: lock file, file written aside, move; a
death inside leaves the lock file and either table, and a lock file that was left
makes every later write fail. `Load` merges the settings into the file at each
start; a file that cannot be read counts as empty and is written over. `IsAuthorized`
is the verdict of the table, in which an empty one lets everybody in. Sessions are purged whenever the table is used. The hub's `Observe` takes an
event in and sends the snapshot to one viewer after the other (`TurnTo`, `Sent`),
holding the lock that a new viewer waits for (`Joined`); a viewer of the API has a
queue of its own and is sent whatever the observer has made of the events by then
(`Push`).

Three `MC*` modules have a next-state relation of their own (`MCNext`): the steps of the
specification, within bounds that depend on each other (`hub`, `supervisor`), or the
steps of two specifications that share nothing, side by side (`model_client` with
`AnswerParser`).

The proof modules are named after the module they are about. `MC*.tla` hold the
values for TLC. Operators marked "Fault:" are defects that the properties are
tested against: `PROJECT.json` pairs each property with one of them that it must
detect. They are used nowhere in the specifications.

## 3. Runs

All values of the `.cfg` files are small; why they suffice is said here.

| Run | Bounds | Shows |
|---|---|---|
| `conductor_restart` | 3 jobs (2 with callers), queue 1, 1 arm, 1 session kept, 2 lives | conservation of jobs and runs; close; refinement of `JobService`, with its callers and final answers, through crashes |
| `conductor_arms` | 3 jobs, queue 1, 2 arms, 2 sessions, 1 life | turn order, answers from the ledger |
| `conductor_live` | 3 jobs, queue 1, 1 arm, 1 life, fair | accepted jobs finish, callers are answered, close returns |
| `hub` | 4 updates (2 presses of one keyboard, one of them `/new`; one with a new key each time and no id), 3 users (1 refused), guard of 2, queue 1, event queue 2, 2 deliveries, or 4 for the guard, 2 lives, clock 2, fair | single admission through expiry, eviction and readmission; answers with their user, no silent loss of an answer or of a job's end, answers flow |
| `supervisor` | 2 processes, 2 pids, 4 starts, 2 attempts, 2 supervisors, fair; before there is a supervisor 3 processes, 3 pids, 5 starts | settled locks, also with a third process that has read an older pid; memory limit, restart and giving up |
| `executor` | 2 tasks of one session, 2 calls, 2 workers, 2 turns, cache 1, 1 shed | audit, callers, memory, single execution |
| `skill_files` | 2 skills, 2 concurrent calls, 3 starts of calls or of the process, a good and a broken content, 2 versions kept, trip at 1 error, 2 seconds | the registry agrees with the directory; the archive has what is overwritten |
| `skill_evolution` | 1 skill, a good and a broken content, an agent beside the cycle, trip at 2, 3 calls, 2 cycles, 2 seconds, fair | disabled is down, enabled can load, close ends the task |
| `evolution_promoted` | the same | counterexample: a candidate that lost serves calls |
| `ledger` | 4 rows, batches of 2, 1 reader, 1 row of others, fair | places, flush, close; refinement of `LedgerService` |
| `model_client` | 2 callers, calls of 1 to 3 tokens without end, buckets of 2 with refill 1, fair; all answers of up to 3 pieces of 12 kinds, 2 tool calls, cut at every place with 5 residues | rate limits, races, calls end unless others never stop taking; the parser finds each call once, keeps text, raises only for malformed payloads |
| `control` | 2 users (1 in the settings), 1 token, 2 clients, lifetime 2, clock 2, 1 viewer of each kind, 2 events, 2 lives, 2 changes, fair | the allow-list through deaths, sessions, viewers of the hub |

Why the bounds are enough: a queue of one place and one or two arms make full
queues, blocked callers and busy arms the normal case, and three jobs put one in
each place at once. Two lives show what a restart inherits, including a job that
comes back. A guard of two entries is full after one delivery, which brings two
keys, so the next one evicts, and the third or fourth delivery may be of an update
whose key was evicted: 4 deliveries have that, with jobs that only leave the queue, because
the guard reads nothing of what comes after. An event queue of two places holds an answer beside another
job's event, and the third event drops one. A process that won a lock, one that has
read an older pid and one that comes in between are the three that a stale judgement
needs, and their pids differ or are reused; beside a supervisor two processes have
every race between two lock operations, and their slots are taken again; two attempts distinguish the first failure from the last. Two tasks
of one session share a cache, two turns let one task repeat its call, and a cache
of one place evicts. Two calls that work on files interleave at each of their
steps, and the third start is the restoration or the restart that finds what they
have left; two seconds are enough for names that differ and names that collide.
Two cycles beside an agent put metadata back after the agent's changes, and the
second begins with what the first has left. Four rows are a batch, a row in hand
behind it and one in the queue. Two callers compete for a bucket that one of them
empties, while a cost of 3 never fits a bucket of 2; as a caller may call again and
again, the run has the behaviours in which a stream of small requests starves a larger
one (`CallsEnd` without its condition fails there). Three pieces are a call, its
repetition in another form and something between them or malformed. Where a cfg turns off the
deadlock check, the bounded system really stops: no start, delivery or job is left.

Other bounds by name: `MaxLives`, `MaxClock`, `MaxDeliveries`, `MaxStarts`,
`MaxSupervisors`, `MaxSheds`, `MaxCalls`, `MaxCycles`, `MaxOthers`, `MaxEvents`,
`MaxChanges` and `MaxTokens` cap environment actions only. `MaxIterations`,
`CacheLimit`, `QueueSize`, `MaxArms`, `MaxSessions`, `BatchSize`, `MaxSeen`, `TTL`, `Ttl`,
`QueueRoom`, `EventRoom`, `MaxAttempts`, `KeepVersions`, `Trip`, `Threshold`,
`RequestCap`, `TokenCap`, `RequestRate` and `TokenRate` are parameters of the program.
Symmetry is used between jobs of equal priority, kind and session, between workers,
and between calls that work on skill files, and in no run that checks liveness.

### Fairness

* Conductor: weak fairness of the worker, the notepad writer, each arm and each
  blocked put, because the event loop runs every ready task; of the arms' waits
  because `wait_for` ends the brain and the clients have time-outs; of the end of
  `close`, which is such a task too. Nothing obliges callers, `close`, snapshots
  or crashes to happen. A writer whose task has died by an exception is outside
  this assumption and is listed as a hazard.
* Hub: weak fairness of the observer and of the delivery tasks. Jobs need not
  progress and providers need not deliver.
* Supervisor: weak fairness of the lock steps of running processes and of the
  supervisor's loop. Nothing makes an owner end, a process die or memory grow.
* Notepad writer: weak fairness of the writer's task and of the polls of `close`.
  Producers, readers and `close` itself need not come.
* Evolution: weak fairness of the cycle as one task, since the event loop runs it
  and its threads end. A call of the model by the cycle waits for the token bucket
  (`evolution_engine.py:92`): with the default of 60,000 tokens a minute its request
  fits; with a bucket smaller than the request it would wait for ever, and `close` with
  it. Agents need do nothing.
* Model client: weak fairness of the clock and of every step of every call: a
  poll of a bucket, an answer or a time-out of the provider, the end of a thread,
  the caller's waits. Nobody need give up or call again. The bucket has no queue and
  none is assumed: `AcquireTokens` is fair only while it stays enabled, so a call may
  starve when others take from the bucket for ever.
* Control plane: weak fairness of the observer, whose send ends by the heartbeat if
  by nothing else, of viewers that wait for the lock and of the queues of the API's
  viewers. No event, request or change need come.
* Skill files and executor: no fairness and no liveness; see section 6.

### Disagreements between text and code

`evolution_promoted` ends in a counterexample to a sentence of the repository's
README ("only promoted when they beat the current version"): a candidate is tested
by installing it in the place of the skill, and when it loses, nothing is put back.
`PROJECT.json` "findings" quotes it.

Seven more are stated in the modules but belong to no run. Each is reproduced by
adding the definition, as an invariant or a property, to the named `.cfg`:

| Definition | Text | What the code does | Add to |
|---|---|---|---|
| `HigherPriorityRunsFirst` | `lisa/conductor.py:36` "Higher numeric priority should run first" | line 248: jobs leave the queue at once and wait at a first-come-first-served semaphore | `TaskConductorArms.cfg` |
| `RetryIsHeard` | `lisa/hub.py:472` "Please retry shortly" | the refused message is in the replay guard, and its retry is a replay | `MessageHub.cfg` |
| `FirstPressIsHeard` | `lisa/hub.py:589` "press the buttons below" | line 963: presses below one message share its message id; the second is a replay | `MessageHub.cfg` |
| `MutualExclusion` | `docs/SECURITY.md:66` lock files prevent duplicate instances | `utils/process_lock.py:53`: a lock file without its pid yet is taken for stale | `Supervisor.cfg` |
| `RefusedOnlyWhenHeld` | `docs/TROUBLESHOOTING.md:43` a refused start met a holder | `utils/process_lock.py:51`: a stale lock with the process's own pid refuses it | `Supervisor.cfg` |
| `ForgivesPayloads` | `lisa/local_inference.py:124` "Keep the XML support deliberately forgiving" | line 129 catches ValueError, but XML that is not well-formed (222) raises a SyntaxError: the answer's other calls and its text are lost with it | `ModelClient.cfg` |
| `ApiViewersCatchUp` | `interfaces/dashboard.py:173` "Realtime metrics" | `lisa/api.py:1215`: a viewer's own queue wakes it, maybe before the observer has taken the event; the last snapshot may be older than the last event | `ControlPlane.cfg` |

## 4. Properties worth reading

`OwedJobsCarried`: `owed` records every accepted or restored job until its arm
has finished; it always equals the disjoint union of queue, hand and arms.
`ImplementsService`: every behaviour, crashes included, is one of `JobService`.
`LedgerInTurnOrder`: concurrent arms of one session still write rows in the order
of turns, because turn and enqueueing are one step; stated while no session is
evicted, which resets its turns. `AdmittedOnce`: an update with a key that lasts, of its request or of its message, is
admitted once per lifetime of the guard's entry unless the guard had to evict the key
or the process died; it says nothing of updates without one (section 6).
`AnswersStayWithUser`: the session is the only link from a job to its address, so
mixing is excluded by what sessions own. `AnswersAccounted`: every answer that was published in this life, also that of a job
that has ended since, is queued, being sent, sent, dropped by a full queue, or belongs
to a session without an address, which is from before a restart and nobody's any
more; there is no sixth case. `ActiveAccounted`: the hub's table of active jobs and the
jobs at work differ only by events that are on their way or were dropped, so a job
stays active for ever only when its last event was dropped. `CloseKeepsJobs`: what a
close could not finish comes back with the next start, unless its save raised or the
file cannot be read; the first draft had no failing save and promised too much.
`GivesUpAfterRow`: what the counter decides is what
the row of children since the last stable one, kept apart from it, says. `SettledStays`: exclusion fails while a lock is
being won; once it has been won and nobody is between two of its file operations,
it holds. A process that has read an older pid counts as one between two operations:
it may remove the lock of a winner it has never seen. `RunsAreAudited`: also across time-outs, failing inserts and dying
workers. `OnceAlone`: a task alone in its session completes a call once; with
company the next message empties the cache, which is the code's behaviour.

`ReadMissesOne`: `flush_pending` looks at the queue only, so the row in the writer's
hand escapes it; the property says that this is all that does. `ImplementsLedger`:
places are computed for a batch and still right when other rows come in between.
`ServedAsOnDisk`: the registry and the directory are two copies of one thing, kept
together by hand; `apart` names the faults that separate them, and every one of
them was a counterexample first. `OverwritesTheArchived`: the second attempt after
a failing import finds the broken file in place and has to archive that too; a call
that another one overlaps has no such promise. What earlier calls have archived is
outside the property: see section 6.
`DisabledIsDown`: the status of a record is looked at once, before the file is
verified and imported, so a load that has begun may bring a disabled skill back;
`late` names these loads. `EnabledCanLoad`: the cycle puts back URL, checksum and
status that it read before it stored candidates, and that pair still fits unless
two contents were stored in one second. `RaceTakesAnAnswer`: the first failure of a
race must not decide it. `AnswersKept`: what a caller was told of a user holds
through deaths at any system call, on the list and in the verdict: who was put out is
refused unless the list is empty, which opens it to all. `"doubt"` is what a caller
knows whose change raised, or who was let in when a file was lost that could not be
read. `OverIsOver`: against what was issued, whatever purges have left.
`HubViewersCatchUp`: with viewers that stall, leave and come during a broadcast.
`CallsEnd`: the condition is what the bucket owes its missing queue; under it a call
ends also beside requests that never fit and tasks whose callers have given up.
`ParserFindsEachOnce`: three passes see some payloads twice, and the cut may turn a
tag into bare JSON or into nothing; the property ties what was found to the pieces
seen, and an exception to a malformed one among them.

## 5. Proofs

All theorems hold for every value of the constants, assuming only the named
assumptions of the modules (types of the constant functions, positive sizes).
`NoCallCompletesTwice` has one more hypothesis, which is said below.

* `TaskConductor_proofs`. The inductive invariant `IInv` adds to `TypeOK`: the
  places of a job (`Places`: down is empty, owed jobs are carried, the worker
  holds one job), `KnownJobs` (what is anywhere was submitted, and a fresh job
  has no history), `WaitersWait` (the semaphore's queue holds waiting arms, each
  once), `SemaphoreState` (permits plus running arms, and a finite set of these),
  `RunCounts` (a job yet to begin has run in earlier lives only) and
  `WaitingCallerHasJob`. `TypeOK` alone is not inductive: that permits stay
  natural needs the count of running arms, that a job runs once per life needs
  that it is in one place. `SemaphoreSound` (permits and running arms add up) is
  proved and in no run: a permit that is not given back shows in `OwedJobsFinish`. `AnswerAfterLedger`, `AnswerIsFinal` and
  `CloseKeepsJobs` are action properties proved from the same invariant; the last one
  with the failing save and the unreadable file of the model, so it is about what was
  saved and can be read.
  `ConductorImplementsService` shows every step to be a step of `JobService` or to
  leave it alone. It needs more than `IInv` (`ServiceInv`): a job has one outcome in
  a life and is nowhere else once it has it, for only then does a crash, which drops
  rows that are not written, lead to a stage the service allows.
  `LedgerOrdered` needs `TurnInv`: the session table and its snapshot list a session
  once, so that moving it to the front takes no other out, and no row, written or
  waiting, has a turn that its session has yet to reach.
* `MessageHub_proofs`. `RouteInv` is `SessionsSeparate`, `AnswersStayWithUser` and the
  types of what carries an answer. `SessionsSeparate` alone is not inductive: that
  a fresh session is nobody else's needs every session in use, by a user, an
  address or a job, to be at most the counter; and that an answer goes to the
  user who asked needs events, deliveries and history to name existing jobs.
  `GuardInv` is behind `MessagesAdmittedOnce`: while a message counts as admitted, the
  guard's table has each of its lasting keys until the entry's time is over, or has
  given it up; for an update without a lasting key there is nothing to prove. That
  pruning drops what has expired and nothing else is proved by induction on the
  length of the table (`LiveEntries`). `AnswerInv` is behind `NoAnswerVanishes`: only a
  restart makes sessions without an address, and then no user has them. `ActiveInv` is
  behind `ActivityAccounted`: the queue has a job's start, answer and end once at most
  and in this order. `HubTypes` gives the types of
  everything, from those of the routes and of the guard.
* `Supervisor_proofs`. A settled lock stays, for any processes that hold older pids, first for the lock protocol and then
  for the supervised system, whose steps are shown to be steps of the protocol
  or to leave it alone. Types of the supervisor, with the bound on attempts.
  `RowInv`: the counter equals the row of children that have ended without a stable
  run, plus the one at work; it is what makes `GivesUpAfterRow` inductive, since that
  the counter is in step with the past while a child runs decides the next attempt.
* `ToolExecutor_proofs`. `IInv` adds to the properties: a thinking task has begun
  a turn (`TurnsCounted`); a task has at most one job in the queue and the
  workers' hands together (`OneJobEach`); the task of such a job waits for it in
  that turn or has left its session without `clear_task` (`JobsAwaited`); a worker
  has a job exactly when it is at work (`WorkersAtWork`).
  `RunsAreAudited`, `WaiterHasJob` and `MemoryFreed` follow. Memory needs the
  history `left`, because several code paths really leave without `clear_task`.
  `NoCallCompletesTwice` (`OnceAlone`) assumes `CacheLimit + 1 >= MaxIterations`: the
  code has 100 results for 10 turns, and with fewer the oldest result is gone when a
  later turn repeats its call, which TLC shows for a limit of 1 and 3 turns. `OnceInv`
  says, of a task that is alone in its session, that every call it has completed is
  in the cache, or with the worker about to put it there, as long as the task has a
  turn to come (`Remembers`), and that the cache has room for what this turn may add
  (`RoomLeft`).
* `Storage_proofs`, the writer. Three inductive invariants, each with `TypeOK`.
  `EndedIsEmpty`: an ended writer has nothing in hand and a queue of late rows only,
  which `ClosedIsComplete` needs. `TypedPlaces`: a told place is the row's, which
  needs that nothing in the ledger ever moves. `OwedIsOnItsWay`: what a flushing
  reader is still owed is in hand or in the queue, so that an empty queue leaves the
  hand, which holds one row at most. The refinement of `LedgerService` needs `TypeOK`
  only: `Write` is `Commit` of the row in hand and the rows taken behind it, `Get`
  moves a row from one side of `hand \o queue` to the other.
* `Storage_proofs`, skill files. `FilesInv` has four parts. Types, and with them what
  calls carry (`NamesOk`: a snapshot that a call or the journal names is there, and a
  manifest copy to be written has the skill's record). `HandlersOk` carries
  `ServedAsOnDisk` through the steps of a call: from the writing of its file to its
  import a skill is unsettled; between its import and the manifest's record the
  handler is the file's already, although a restart would not load it; everywhere
  else the handler is what the manifest serves. `AloneOk`: of a call that knows of no
  other there is no other, and what it is about to overwrite is in the archive.
  The proof needs no bound on calls or on the clock's seconds beyond the model's.
* `SkillEvolution_proofs`. `EvolutionInv` adds to the properties what a call has
  seen (`CallOk`: the record it will register or load names a file that has its
  checksum, and a load is of a skill that is enabled or late), what the cycle has
  planned (`PlansOk`: it will put back only metadata that was enabled and whose file
  is still there) and what records name (`RecordsOk`, for disabled ones too, and a
  served skill has a record). `EnabledCanLoad` alone is not inductive: `Promote`
  writes what was read many steps before. The steps are proved once for every
  process (`FilesStay`: no step takes a file or a record away).
* `ModelClient_proofs`. `BucketInv`: what has been handed out and not refilled,
  plus what is left, is at most the capacity; `RateLimited` alone says nothing of
  the level. `BranchInv`: a call that is not over has no cancelled branch and a call
  to one backend has one branch, from which both properties of calls follow.
  `AnswersParsedRight` is about `AnswerParser`, for answers of any length with any cut:
  what is kept of a sequence at given places is computed piece by piece (`KeptTo`), so
  its elements, and that none is there twice, follow by induction on the length.
  `ParserInv` carries this to what is seen of the answer; what a cut leaves holds no
  tag and no fence (`AnswersAssumption`), so it cannot make the parser raise.
* `ControlPlane_proofs`. `AccessInv`: the file agrees with what callers were told
  at any time, doubts left aside, the table in memory while the process runs; the file is needed since
  a start reads it. `SessionInv`: what is in the table was issued, is not logged out
  and ends when it was to end at its issue.

The library's theorem of induction takes an operator as a parameter, which the
provers cannot instantiate. The inductions above go through sets instead: a set of
numbers that has zero, and with a number the next one, has them all (`AllNumbers`),
because the numbers outside of it would have a least element. Likewise the function
that a recursive definition chooses is shown to exist before it is used
(`FilterExists`, `KeptExists`), and the largest element of a bounded set (`MaxIn`).
`MessageHub`, `SkillFiles` and `AnswerParser` therefore select from sequences with
recursive functions or by places, not with `SelectSeq`.

Only model-checked: liveness (`OwedJobsFinish`, `CallersAnswered`, both
`CloseReturns`, `AnswersFlow`, `OverLimitEnds`, `ServiceRestored`, `CloseEnds`,
`RowsGetPlaces`, `CallsEnd`, `HubViewersCatchUp`), since fairness and ENABLED are
beyond these provers. Every invariant and every action property of the runs, and
both refinements, have a theorem.

## 6. Not modelled

* The tool executor's queue limit of 256: a task has one job at most (`OneJobEach`),
  so only calls left behind by timed-out tasks could fill it, and a caller cannot
  tell waiting in `put` from waiting in the queue. `execute_many` has no caller
  in the default agent. A failing `mkdir` in `sandbox.prepare` is left out.
* Liveness of tool calls after `_shed_memory_runtime`: the stop flag stays set, so
  the new workers leave at the next empty queue. The model has this behaviour;
  the property would not hold and no document promises it. The endpoint exists
  only with `enable_unsafe_admin_endpoints`.
* A job whose message no longer validates when its summary is built; a writer
  whose batch raises.
* Contents: prompts, thoughts, answers, embeddings, message formats; scores only as
  the numbers a cycle compares.
* Messages that name their session themselves: `dispatch_request` and payloads with
  a `session_id` (no provider's updates have one). They set the address of the
  session they name, so `AnswersStayWithUser` speaks of provider messages only. The
  typing indicator is left out too.
* `AdmittedOnce` and its siblings assume that the clock does not go back
  (`time.monotonic`); sessions and skill names assume the same of `time.time`.
* The event bus cuts its history at 100 events; the `control` run has fewer.
* Two processes with one allow-list file. `main.lock` excludes them once it is
  settled; the `_FileLock` of the list would order their writes, but each writes its
  whole table.
* A revocation whose write has raised and that is repeated is answered "not
  updated" (`channel_access.py:64`): the user is out of the table and still in the
  file. The model has this. `AnswersKept` speaks of answers to changes that were
  made, so it leaves such a user in doubt.
* When a cycle of the evolution is due: the idle test and the time window are a
  free choice, so the model has more interleavings than the program. The emergency
  count of failures only publishes an event.
* Preloading of skills for a task, the MCP client (`tools.py:789-1081`) and the
  handlers of the other tools (files, terminal, browser).
* How long an archived version lives. Archived files and snapshots are named by the
  second: when the first attempt of `add_skill` fails and the second follows within
  the same second, the broken file replaces the good one in the archive, and its
  snapshot that of the first attempt. The model has this (`Archive`, `Zipped`); no
  document promises a number of versions, so no property speaks of it.
* Liveness of calls that work on skill files: a step of a file system either comes
  back or raises; that the call ends is the shape of the code.
* Signatures of tokens and of webhooks: pure functions of one request.
* The self-directed conductor: a loop that submits at most one goal a minute
  through `try_submit_message`.
* Slack events that are delivered again. Each delivery has a new time and a new
  signature, hence a new key (`replay_guard.py:86-92`); in the standalone hub only the
  inner event is passed on, which has no id (`hub.py:765-770`, `1043-1049`), so
  `check_message` registers nothing. Such a message is admitted as often as it is
  delivered. The model has this (`KeyOf`, `Numbered`), and `AdmittedOnce` claims nothing
  for it; no document says that Slack is covered.
* Users of two providers with one id: sessions are keyed by `user_id` alone
  (`hub.py:918`), and the model's users are all different.
* The branch of the conductor for a ledger row that raises (`conductor.py:668-674`),
  for the reason given for a raising batch above.
* A tool whose time-out leaves its thread at work while `invoke` makes its second
  attempt; the two would write the same skill's files at once.
* An exception in `observe` that ends the observer's task (`hub.py:325`): viewers and
  answers would stop for good. The fairness of the observer assumes that it does not.
* The rate limiter is one per provider's name (`llm.py:644-662`). `RateLimited` is about
  one such name; two names with one endpoint have two limits.
* In `evolution_promoted` the candidate of the counterexample may have the same content
  as a version that was promoted before, since one of two contents can be imported.
  Nothing in the code compares contents.
* Lists of calls within one payload and payloads within payloads: a piece makes one
  call at most. A residue of a cut may be of several pieces.
* A new call of a caller whose race was given up and is still under way: it waits for
  the branches to end. Another caller's calls have that interleaving.
* Sessions: a request with an unknown host or user agent passes the binding
  (`session_auth.py:193-196`); `Valid` has this, `OverIsOver` does not depend on it.

## 7. Plan

Written, in this order: conductor with its abstract service; hub, guard and events;
lock and supervisor; tool executor with the ReAct loop; skill files; artifact
skills and evolution; notepad writer with its abstract ledger; model client; its
parser; channel access, sessions and viewers, composed.

Next:

1. Proofs, in the modules that are there: what stands behind liveness, stated without
   ENABLED. While a job is owed, the guard of a step of the worker, of an arm or of
   the writer is true; likewise for a tool call and for a row.
2. MCP client: requests and responses matched by id over one process's pipes, its
   time-outs and its end.
3. Hub: `dispatch_request` and its second delivery; the self-directed conductor as a
   caller of `try_submit_message`.
4. Preloading of skills, beside the calls of `SkillEvolution`.

New modules are composed into the existing runs where they interact, so that each
run still asks one question.

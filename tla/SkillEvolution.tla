--------------------------- MODULE SkillEvolution ---------------------------
(* Artifact-backed skills and the nightly evolution.  A skill is a file named *)
(* by the second it was stored in, a record that names the file and carries  *)
(* its checksum, and a handler in the tool registry that was imported from   *)
(* it.  Agents use, add and roll back skills; the scheduler's cycle adds      *)
(* candidates through the same tool.  Loading, storing and counting errors    *)
(* run in threads, so each of their parts is a step.                          *)
EXTENDS Naturals, FiniteSets

CONSTANTS
  Skills, Codes,
  Broken,        \* contents that raise when they are imported
  Agents,        \* concurrent tool calls of agents
  Cycle,         \* the scheduler's task
  None,
  Scores,        \* scores a test can give (24..44 when it fails, 74..94)
  Threshold,     \* skills below this rate are weak (60)
  Trip,          \* failures within an hour that disable a skill (3)
  MaxCalls,      \* bound: calls started by agents
  MaxCycles,     \* bound: cycles of the scheduler
  MaxClock       \* bound: seconds

ASSUME EvolutionAssumption ==
  /\ Broken \subseteq Codes /\ None \notin Codes \union Agents /\ Cycle \notin Agents
  /\ Scores \subseteq Nat /\ Threshold \in Nat /\ Trip \in Nat \ {0}
  /\ MaxCalls \in Nat /\ MaxCycles \in Nat /\ MaxClock \in Nat

Times == 0..MaxClock
Procs == Agents \union {Cycle}

VARIABLES
  now,
  artifact,  \* files by skill and second
  record,    \* the memory's record of each skill
  handler,   \* the registry's handlers, as the code they were imported from
  failures,  \* failures of the last hour
  call,      \* the running tool call of each process, with the record it loads by
  scored,    \* the runtime has an engine that scores candidates
  stage,     \* what the cycle's running call is for
  todo, cur, \* skills the cycle has still to treat, and the one it treats
  stop,      \* the scheduler's stop event
  started, cycles,
  late,      \* history: skills disabled while a load of them was under way
  clash      \* history: skills with two contents stored in one second

files    == <<artifact, record, handler, failures>>
cycleVars == <<stage, todo, cur>>
counters == <<started, cycles>>
vars     == <<now, files, call, scored, cycleVars, stop, counters, late, clash>>

Record == [url : Times, sum : Codes, enabled : BOOLEAN, rate : Scores \union {0},
           content : Codes \union {None}]

ASSUME NoneAssumption == None \notin Record

Idle == [pc |-> "idle", skill |-> None, code |-> None, tries |-> 0, seen |-> None]

Init ==
  /\ now = 0
  /\ artifact = [s \in Skills |-> [t \in Times |-> None]]
  /\ record = [s \in Skills |-> None]
  /\ handler = [s \in Skills |-> None] /\ failures = [s \in Skills |-> 0]
  /\ call = [p \in Procs |-> IF p = Cycle THEN [Idle EXCEPT !.pc = "waiting"] ELSE Idle]
  /\ scored \in BOOLEAN /\ stage = None /\ todo = {} /\ cur = None
  /\ stop = FALSE /\ started = 0 /\ cycles = 0 /\ late = {} /\ clash = {}

Imports(c) == c \in Codes \ Broken
Enabled(s) == IF record[s] = None THEN FALSE ELSE record[s].enabled
At(p, at)   == call[p].pc = at
Goes(p, to) == call' = [call EXCEPT ![p].pc = to]

\* The cycle takes its next skill, or reports.
Onward(left) == IF left = {} THEN "report" ELSE "evolving"

\* A part of p's work is over; it forgets what it has loaded.
Moves(p, to) ==
  call' = [call EXCEPT ![p] = [pc |-> to, skill |-> call[p].skill, code |-> call[p].code,
                               tries |-> 0, seen |-> None]]

\* The skill that was added is invoked as any other.
Checks == Moves(Cycle, "lookup") /\ stage' = "check" /\ UNCHANGED <<todo, cur>>

\* add_skill has returned or raised.  A candidate that could not be added ends a
\* scored cycle with an exception and is passed over in the other.
Added(ok) ==
  \/ ok /\ scored /\ Moves(Cycle, "test") /\ UNCHANGED cycleVars
  \/ ok /\ ~scored /\ Checks
  \/ ~ok /\ scored /\ Moves(Cycle, "report") /\ UNCHANGED cycleVars
  \/ /\ ~ok /\ ~scored /\ Moves(Cycle, Onward(todo \ {cur}))
     /\ todo' = todo \ {cur} /\ UNCHANGED <<stage, cur>>

\* A skill that fails its check is rolled back.
Checked(ok) ==
  \/ ok /\ Moves(Cycle, "report") /\ UNCHANGED cycleVars
  \/ ~ok /\ Moves(Cycle, "disable") /\ stage' = "rollback" /\ UNCHANGED <<todo, cur>>

\* A tool call of p is over.
Over(p, ok) ==
  \/ p \in Agents /\ call' = [call EXCEPT ![p] = Idle] /\ UNCHANGED cycleVars
  \/ p = Cycle /\ stage = "add" /\ Added(ok)
  \/ p = Cycle /\ stage = "check" /\ Checked(ok)
  \/ p = Cycle /\ stage = "rollback" /\ Moves(Cycle, "reload") /\ UNCHANGED cycleVars

Begin(u, first, s, c) ==
  /\ At(u, "idle") /\ started < MaxCalls
  /\ call' = [call EXCEPT ![u] = [Idle EXCEPT !.pc = first, !.skill = s, !.code = c,
                                             !.tries = 1]]
  /\ started' = started + 1
  /\ UNCHANGED <<now, files, scored, cycleVars, stop, cycles, late, clash>>
-----------------------------------------------------------------------------
(* add_skill with artifact storage *)

Add(u, s, c) == Begin(u, "write", s, c)

\* Two stores of one second share a file.
WriteArtifact(p) ==
  LET s == call[p].skill
      c == call[p].code
  IN /\ At(p, "write")
     /\ artifact' = [artifact EXCEPT ![s][now] = c]
     /\ clash' = IF artifact[s][now] \in {None, c} THEN clash ELSE clash \union {s}
     /\ call' = [call EXCEPT ![p].pc = "register",
                             ![p].seen = [url |-> now, sum |-> c, enabled |-> TRUE, rate |-> 0,
                                          content |-> None]]
     /\ UNCHANGED <<now, record, handler, failures, scored, cycleVars, stop, counters, late>>

\* Whatever record the skill had is replaced, a disabled one too.
Registered(s, r) == record' = [record EXCEPT ![s] = r]

RegisterRecord(p) ==
  /\ At(p, "register") /\ Goes(p, "load")
  /\ Registered(call[p].skill, call[p].seen)
  /\ UNCHANGED <<now, artifact, handler, failures, scored, cycleVars, stop, counters, late, clash>>

There(p)    == artifact[call[p].skill][call[p].seen.url]
Verified(p) == There(p) = call[p].seen.sum
Serves(p)   == handler' = [handler EXCEPT ![call[p].skill] = There(p)]

\* On the event loop: verify, import, register.  A failure is tried once more.
LoadStored(p) ==
  /\ At(p, "load")
  /\ IF Verified(p) /\ Imports(There(p))
     THEN Serves(p) /\ Over(p, TRUE)
     ELSE /\ UNCHANGED handler
          /\ IF call[p].tries = 1
             THEN call' = [call EXCEPT ![p].pc = "write", ![p].tries = 2] /\ UNCHANGED cycleVars
             ELSE Over(p, FALSE)
  /\ UNCHANGED <<now, artifact, record, failures, scored, stop, counters, late, clash>>
-----------------------------------------------------------------------------
(* A skill is used; it is loaded first when the registry does not have it. *)

Use(u, s) == Begin(u, "lookup", s, None)

\* In the loading thread.  The record's status is looked at once, here.
Lookup(p) ==
  LET s == call[p].skill IN
  /\ At(p, "lookup")
  /\ \/ handler[s] # None /\ Goes(p, "run") /\ UNCHANGED cycleVars
     \/ /\ handler[s] = None /\ Enabled(s)
        /\ call' = [call EXCEPT ![p].pc = "verify", ![p].seen = record[s]]
        /\ UNCHANGED cycleVars
     \/ handler[s] = None /\ ~Enabled(s) /\ Over(p, FALSE)
  /\ UNCHANGED <<now, files, scored, stop, counters, late, clash>>

Verify(p) ==
  /\ At(p, "verify")
  /\ IF Verified(p) THEN Goes(p, "import") /\ UNCHANGED cycleVars ELSE Over(p, FALSE)
  /\ UNCHANGED <<now, files, scored, stop, counters, late, clash>>

\* The import reads the file again.
Import(p) ==
  /\ At(p, "import")
  /\ IF Imports(There(p))
     THEN Serves(p) /\ Goes(p, "run") /\ UNCHANGED cycleVars
     ELSE Over(p, FALSE) /\ UNCHANGED handler
  /\ UNCHANGED <<now, artifact, record, failures, scored, stop, counters, late, clash>>

\* The handler may be gone again; else it runs, and returns or raises twice.
Run(p) ==
  LET there == handler[call[p].skill] # None IN
  /\ At(p, "run")
  /\ \/ ~there /\ Over(p, FALSE)
     \/ there /\ Over(p, TRUE)
     \/ there /\ Goes(p, "track") /\ UNCHANGED cycleVars
  /\ UNCHANGED <<now, files, scored, stop, counters, late, clash>>
-----------------------------------------------------------------------------
(* Failing skills are counted and disabled; rollback_skill disables too. *)

\* Failures older than an hour are dropped; so is one that another thread's
\* assignment has overwritten.
Track(p) ==
  LET s == call[p].skill IN
  /\ At(p, "track")
  /\ \E n \in 1..failures[s] + 1 :
       /\ failures' = [failures EXCEPT ![s] = IF n < Trip THEN n ELSE Trip]
       /\ IF n >= Trip THEN Goes(p, "trip") /\ UNCHANGED cycleVars ELSE Over(p, FALSE)
  /\ UNCHANGED <<now, artifact, record, handler, scored, stop, counters, late, clash>>

\* rollback_skill of a skill with a record.  The version is not looked at.
Rollback(u, s) == record[s] # None /\ Begin(u, "disable", s, None)

Loading(s) == \E p \in Procs : call[p].skill = s /\ call[p].pc \in {"verify", "import", "load"}

\* Fault: the handler of a disabled skill is left in the registry.
PopForgotten(p) ==
  LET s == call[p].skill IN
  /\ At(p, "pop") \/ At(p, "drop")
  /\ failures' = [failures EXCEPT ![s] = IF At(p, "drop") THEN 0 ELSE @]
  /\ Over(p, FALSE)
  /\ UNCHANGED <<now, artifact, record, handler, scored, stop, counters, late, clash>>

Disable(p) ==
  LET s == call[p].skill IN
  /\ \/ At(p, "disable") /\ Goes(p, "pop")
     \/ At(p, "trip") /\ Goes(p, "drop")
  /\ record' = [record EXCEPT ![s].enabled = FALSE]
  /\ late' = IF Loading(s) THEN late \union {s} ELSE late \ {s}
  /\ UNCHANGED <<now, artifact, handler, failures, scored, cycleVars, stop, counters, clash>>

Pop(p) ==
  LET s == call[p].skill IN
  /\ At(p, "pop") \/ At(p, "drop")
  /\ handler' = [handler EXCEPT ![s] = None]
  /\ failures' = [failures EXCEPT ![s] = IF At(p, "drop") THEN 0 ELSE @]
  /\ Over(p, FALSE)
  /\ UNCHANGED <<now, artifact, record, scored, stop, counters, late, clash>>

\* reload_manifest_skills drops every artifact skill's handler with the others.
Reload(p) ==
  /\ At(p, "reload") /\ Goes(p, "report")
  /\ handler' = [s \in Skills |-> None]
  /\ UNCHANGED <<now, artifact, record, failures, scored, cycleVars, stop, counters, late, clash>>
-----------------------------------------------------------------------------
(* The nightly cycle *)

Weak == {[skill |-> s, was |-> record[s]] :
           s \in {r \in Skills : Enabled(r) /\ record[r].rate < Threshold}}

\* The loop looks whether the system is idle.  How long the conductor and the
\* users have been quiet is not modelled, so a cycle may begin at any time.
Due == At(Cycle, "waiting") /\ ~stop /\ cycles < MaxCycles

\* With an engine: the weak skills are read once, with their metadata.
WakeScored ==
  /\ scored /\ Due /\ cycles' = cycles + 1
  /\ todo' = Weak
  /\ Goes(Cycle, Onward(todo'))
  /\ UNCHANGED <<now, files, scored, stage, cur, stop, started, late, clash>>

\* Without: failures of the last days are grouped; any group may come up.
WakeClusters ==
  /\ ~scored /\ Due /\ cycles' = cycles + 1
  /\ \E names \in SUBSET Skills : todo' = {[skill |-> s, was |-> None] : s \in names}
  /\ Goes(Cycle, Onward(todo'))
  /\ UNCHANGED <<now, files, scored, stage, cur, stop, started, late, clash>>

\* add_skill with artifact storage, called by the cycle.
Candidate(s, c) == [Idle EXCEPT !.pc = "write", !.skill = s, !.code = c, !.tries = 1]

\* The weakest first.  The model's answer may lack code, or the call may
\* raise: add_skill then raises too, and the cycle ends.
Evolve ==
  /\ scored /\ At(Cycle, "evolving")
  /\ \E w \in todo :
       /\ \A v \in todo : w.was.rate <= v.was.rate
       /\ cur' = w /\ stage' = "add"
       /\ \/ \E c \in Codes : call' = [call EXCEPT ![Cycle] = Candidate(w.skill, c)]
          \/ Goes(Cycle, "report")
  /\ UNCHANGED <<now, files, scored, todo, stop, counters, late, clash>>

\* Without an answer that parses: a helper named for the group, which imports.
Fallback(w) == [skill : {w.skill}, code : Codes \ Broken]

\* The model's answer, from what was found out, names a skill and has code.
Answers == [skill : Skills, code : Codes]

\* The group's name stands in for one that the answer lacks.
Proposals(w) == Answers \union [skill : {w.skill}, code : Codes] \union Fallback(w)

\* The next group.  What raises in the research and in the answer is caught.
Synthesize ==
  /\ ~scored /\ At(Cycle, "evolving")
  /\ \E w \in todo : \E p \in Proposals(w) :
       /\ cur' = w
       /\ call' = [call EXCEPT ![Cycle] = [Candidate(p.skill, p.code) EXCEPT !.pc = "staged"]]
  /\ stage' = "add"
  /\ UNCHANGED <<now, files, scored, todo, stop, counters, late, clash>>

\* The staged file passes its test and is added.
StagePasses ==
  /\ At(Cycle, "staged") /\ Goes(Cycle, "write")
  /\ UNCHANGED <<now, files, scored, cycleVars, stop, counters, late, clash>>

\* It does not pass, which ends the cycle.
StageFails ==
  /\ At(Cycle, "staged") /\ Goes(Cycle, "report")
  /\ UNCHANGED <<now, files, scored, cycleVars, stop, counters, late, clash>>

\* Writing or testing it raises: the next group is tried.
StageRaises ==
  /\ At(Cycle, "staged")
  /\ todo' = todo \ {cur} /\ Goes(Cycle, Onward(todo'))
  /\ UNCHANGED <<now, files, scored, stage, cur, stop, counters, late, clash>>

\* The record that is there is not looked at; only its creation time is kept.
Upsert(s, r) == record' = [record EXCEPT ![s] = r]

\* Fault: the candidate's checksum goes with the old file.
PromoteMixed(score) ==
  Upsert(cur.skill, [cur.was EXCEPT !.rate = score, !.sum = call[Cycle].code])

\* replace_skill keeps the metadata that was read when the cycle began: the
\* file and checksum of the version before the candidate, and its status.
Promote(score) ==
  Upsert(cur.skill, [cur.was EXCEPT !.rate = score, !.content = call[Cycle].code])

\* The audit row follows; when it cannot be written, the cycle ends.
Audit == Goes(Cycle, Onward(todo')) \/ Goes(Cycle, "report")

\* The candidate was tested, in its place.  It is kept when it scored better.
Judge ==
  /\ At(Cycle, "test")
  /\ \E score \in Scores :
       IF score > cur.was.rate THEN Promote(score) ELSE UNCHANGED record
  /\ todo' = todo \ {cur} /\ Audit
  /\ UNCHANGED <<now, artifact, handler, failures, scored, stage, cur, stop, counters, late, clash>>

\* The test raises, and with it the cycle; the candidate stays where it is.
TestRaises ==
  /\ At(Cycle, "test") /\ Goes(Cycle, "report")
  /\ UNCHANGED <<now, files, scored, cycleVars, stop, counters, late, clash>>

\* The cycle's row is written; the loop waits for its interval or the stop.
Report ==
  /\ At(Cycle, "report")
  /\ call' = [call EXCEPT ![Cycle] = [Idle EXCEPT !.pc = "waiting"]]
  /\ todo' = {} /\ cur' = None /\ stage' = None
  /\ UNCHANGED <<now, files, scored, stop, counters, late, clash>>

\* Fault: a stop set while a cycle ran is missed by the wait.
LeaveLate == /\ stop /\ cycles = 0 /\ At(Cycle, "waiting") /\ Goes(Cycle, "closed")
             /\ UNCHANGED <<now, files, scored, cycleVars, stop, counters, late, clash>>

Leave == /\ stop /\ At(Cycle, "waiting") /\ Goes(Cycle, "closed")
         /\ UNCHANGED <<now, files, scored, cycleVars, stop, counters, late, clash>>

\* close sets the event and waits for the task; it does not cancel it.
Close == ~stop /\ stop' = TRUE
         /\ UNCHANGED <<now, files, call, scored, cycleVars, counters, late, clash>>

Second == now < MaxClock /\ now' = now + 1
          /\ UNCHANGED <<files, call, scored, cycleVars, stop, counters, late, clash>>
-----------------------------------------------------------------------------
Step(p) ==
  \/ WriteArtifact(p) \/ RegisterRecord(p) \/ LoadStored(p)
  \/ Lookup(p) \/ Verify(p) \/ Import(p) \/ Run(p)
  \/ Track(p) \/ Disable(p) \/ Pop(p) \/ Reload(p)

CycleStep ==
  \/ Step(Cycle) \/ Evolve \/ Judge \/ TestRaises
  \/ Synthesize \/ StagePasses \/ StageFails \/ StageRaises
  \/ Report \/ Leave

Next ==
  \/ \E u \in Agents : \/ \E s \in Skills : \/ \E c \in Codes : Add(u, s, c)
                                            \/ Use(u, s) \/ Rollback(u, s)
                       \/ Step(u)
  \/ WakeScored \/ WakeClusters \/ CycleStep \/ Close \/ Second

Spec     == Init /\ [][Next]_vars
FairSpec == Spec /\ WF_vars(CycleStep)
-----------------------------------------------------------------------------
(* Properties *)

\* Types.
TypeOK ==
  /\ artifact \in [Skills -> [Times -> Codes \union {None}]]
  /\ \A s \in Skills : record[s] = None \/ record[s] \in Record
  /\ handler \in [Skills -> (Codes \ Broken) \union {None}]
  /\ failures \in [Skills -> 0..Trip]
  /\ late \subseteq Skills /\ clash \subseteq Skills

\* A skill that was disabled is not served: unless its handler is about to be
\* dropped, or a load that had seen the record enabled was under way.
DisabledIsDown ==
  \A s \in Skills :
    handler[s] # None /\ ~Enabled(s)
      => s \in late \/ \E p \in Procs : call[p].skill = s /\ call[p].pc \in {"pop", "drop"}

\* The file of an enabled record is there with the record's checksum, also after
\* a cycle has put old metadata back: unless two contents shared a second.
EnabledCanLoad ==
  \A s \in Skills :
    Enabled(s) => s \in clash \/ artifact[s][record[s].url] = record[s].sum

\* Closing the scheduler ends its task, whatever cycle is running.
CloseEnds == stop ~> At(Cycle, "closed")

\* A candidate that was judged not to be better does not serve calls ("only
\* promoted when they beat the current version").
PromotedWhenBetter ==
  [][At(Cycle, "test") /\ todo' # todo /\ record' = record
       => handler[cur.skill] # call[Cycle].code \/ artifact[cur.skill][cur.was.url] = call[Cycle].code]_vars
=============================================================================

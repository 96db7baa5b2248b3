----------------------- MODULE SkillEvolution_proofs -----------------------
(* Proofs about skills that are used, added, disabled and evolved at the same *)
(* time, for any number of agents, skills and cycles: a disabled skill is not *)
(* served, and an enabled record's file is there.                            *)
EXTENDS SkillEvolution, TLAPS

-----------------------------------------------------------------------------
(* The inductive invariant.  What a call has seen of a record is still true   *)
(* of the files when it uses it, and the cycle puts back only metadata that   *)
(* was enabled; a load that goes on while its skill is disabled is late.      *)

PCs == {"idle", "waiting", "closed", "report", "evolving", "lookup", "verify", "import",
        "run", "track", "trip", "drop", "pop", "disable", "write", "register", "load",
        "staged", "test", "reload"}

CallType == [pc : PCs, skill : Skills \union {None}, code : Codes \union {None},
             tries : Nat, seen : Record \union {None}]

Resting == {"idle", "waiting", "closed", "report", "evolving"}
LoadPcs == {"verify", "import", "load"}

\* A record's file is there with its checksum, or was overwritten in its second.
Ref(s, r) == s \in clash \/ artifact[s][r.url] = r.sum

Safe(s) == Enabled(s) \/ s \in late

FileTypes ==
  /\ now \in Times
  /\ artifact \in [Skills -> [Times -> Codes \union {None}]]
  /\ record \in [Skills -> Record \union {None}]
  /\ handler \in [Skills -> (Codes \ Broken) \union {None}]
  /\ failures \in [Skills -> 0..Trip]
  /\ late \subseteq Skills /\ clash \subseteq Skills

CallTypes == call \in [Procs -> CallType] /\ scored \in BOOLEAN

CallOk(p) ==
  /\ call[p].pc \notin Resting => call[p].skill \in Skills
  /\ call[p].pc \in {"write", "register", "load", "staged"} => call[p].code \in Codes
  /\ call[p].pc = "register" =>
       /\ call[p].seen \in Record /\ call[p].seen.enabled
       /\ Ref(call[p].skill, call[p].seen)
  /\ call[p].pc \in LoadPcs => call[p].seen \in Record /\ Safe(call[p].skill)
  /\ call[p].pc \in LoadPcs \union {"track", "trip", "disable"} =>
       record[call[p].skill] # None
  /\ call[p].pc = "test" => p = Cycle /\ scored /\ stage = "add"

WeakOne(w) ==
  /\ w \in [skill : Skills, was : Record \union {None}]
  /\ scored => w.was \in Record /\ w.was.enabled /\ Ref(w.skill, w.was)

PlansOk ==
  /\ \A w \in todo : WeakOne(w)
  /\ call[Cycle].pc \notin Resting /\ stage = "add" => WeakOne(cur)
  /\ call[Cycle].pc \notin Resting /\ stage = "check" => record[call[Cycle].skill] # None

RecordsOk ==
  \A s \in Skills : /\ record[s] # None => Ref(s, record[s])
                    /\ handler[s] # None => record[s] # None

EvolutionInv == /\ FileTypes /\ CallTypes /\ PlansOk /\ RecordsOk /\ DisabledIsDown
                /\ \A p \in Procs : CallOk(p)
-----------------------------------------------------------------------------
(* What no step takes away: records, and the files they name.                *)

FilesStay ==
  /\ \A s \in Skills : record[s] # None => record'[s] # None
  /\ \A s \in Skills, r \in Record : Ref(s, r) => Ref(s, r)'
  /\ scored' = scored

\* When files and records are left alone, they stay.
LEMMA UntouchedStay == UNCHANGED <<artifact, record, clash, scored>> => FilesStay
BY DEF FilesStay, Ref

\* A call that does not move keeps its part of the invariant.
LEMMA CallKept ==
  ASSUME NEW q \in Procs, CallTypes, CallOk(q), FilesStay, call'[q] = call[q],
         stage' = stage \/ q # Cycle,
         call[q].pc \in LoadPcs /\ Safe(call[q].skill) => Safe(call[q].skill)'
  PROVE  CallOk(q)'
<1>1. call[q].pc \in LoadPcs \union {"track", "trip", "disable", "register"} =>
        call[q].skill \in Skills
  BY DEF CallOk, LoadPcs, Resting
<1> QED
  BY <1>1 DEF CallOk, FilesStay, LoadPcs

\* What the cycle plans stays good when it takes no new skill.
LEMMA PlansKept ==
  ASSUME EvolutionInv, FilesStay, todo' \subseteq todo, cur' = cur,
         call'[Cycle].pc \notin Resting =>
           /\ call[Cycle].pc \notin Resting
           /\ call'[Cycle].skill = call[Cycle].skill
           /\ stage' = stage \/ (stage' = "check" /\ record[call[Cycle].skill] # None)
                \/ stage' = "rollback"
  PROVE  PlansOk'
<1>1. ASSUME NEW w, WeakOne(w) PROVE WeakOne(w)'
  BY <1>1 DEF WeakOne, FilesStay
<1>2. \A w \in todo' : WeakOne(w)'
  BY <1>1 DEF EvolutionInv, PlansOk
<1>3. ASSUME WeakOne(cur) PROVE WeakOne(cur)'
  BY <1>3 DEF WeakOne, FilesStay
<1>4. call[Cycle].pc \notin Resting => call[Cycle].skill \in Skills
  BY DEF EvolutionInv, CallOk, Procs
<1>5. call'[Cycle].pc \notin Resting /\ stage' = "add" => WeakOne(cur)'
  BY <1>3 DEF EvolutionInv, PlansOk
<1>6. call'[Cycle].pc \notin Resting /\ stage' = "check" => record'[call'[Cycle].skill] # None
  BY <1>4 DEF EvolutionInv, PlansOk, FilesStay
<1> QED
  BY <1>2, <1>5, <1>6 DEF PlansOk

\* A process that moves on keeps its skill, and the others stay where they are.
LEMMA MovesOne ==
  ASSUME CallTypes, NEW p \in Procs, NEW to \in PCs, Moves(p, to)
  PROVE  /\ call' \in [Procs -> CallType]
         /\ \A q \in Procs \ {p} : call'[q] = call[q]
         /\ call'[p].pc = to /\ call'[p].skill = call[p].skill
<1> DEFINE moved == [pc |-> to, skill |-> call[p].skill, code |-> call[p].code,
                     tries |-> 0, seen |-> None]
<1>1. moved \in CallType /\ moved.pc = to /\ moved.skill = call[p].skill
  BY DEF CallTypes, CallType
<1>2. call' = [call EXCEPT ![p] = moved] /\ call \in [Procs -> CallType]
  BY DEF Moves, CallTypes
<1> HIDE DEF moved
<1> QED
  BY <1>1, <1>2

\* An agent's process that is done is as it was at first.
LEMMA IdlesOne ==
  ASSUME CallTypes, NEW p \in Procs, call' = [call EXCEPT ![p] = Idle]
  PROVE  /\ call' \in [Procs -> CallType]
         /\ \A q \in Procs \ {p} : call'[q] = call[q]
         /\ call'[p].pc = "idle"
<1>1. Idle \in CallType /\ Idle.pc = "idle"
  BY DEF Idle, CallType, PCs
<1> QED
  BY <1>1 DEF CallTypes

\* A tool call that is over leaves its process resting, or its cycle at the
\* next stage with the same skill.
LEMMA OverMoves ==
  ASSUME CallTypes, NEW p \in Procs, NEW ok \in BOOLEAN, Over(p, ok)
  PROVE  /\ call' \in [Procs -> CallType]
         /\ \A q \in Procs \ {p} : call'[q] = call[q]
         /\ call'[p].pc \in Resting \union {"test", "lookup", "disable", "reload"}
         /\ call'[p].pc \notin Resting => p = Cycle /\ call'[p].skill = call[p].skill
         /\ call'[p].pc = "test" => scored /\ stage' = "add"
         /\ call'[p].pc = "disable" => stage = "check"
         /\ todo' \subseteq todo /\ cur' = cur
         /\ p # Cycle => stage' = stage
         /\ stage' = stage \/ (stage' = "check" /\ ok) \/ stage' = "rollback"
<1>1. CASE p \in Agents /\ call' = [call EXCEPT ![p] = Idle] /\ UNCHANGED cycleVars
  BY <1>1, IdlesOne DEF Resting, cycleVars
<1>2. CASE p = Cycle /\ stage = "add" /\ Added(ok)
  <2>1. CASE ok /\ scored /\ Moves(Cycle, "test") /\ UNCHANGED cycleVars
    BY <1>2, <2>1, MovesOne DEF cycleVars, PCs, Resting
  <2>2. CASE ok /\ ~scored /\ Checks
    BY <1>2, <2>2, MovesOne DEF Checks, PCs, Resting
  <2>3. CASE ~ok /\ scored /\ Moves(Cycle, "report") /\ UNCHANGED cycleVars
    BY <1>2, <2>3, MovesOne DEF cycleVars, PCs, Resting
  <2>4. CASE /\ Moves(Cycle, Onward(todo \ {cur}))
             /\ todo' = todo \ {cur} /\ UNCHANGED <<stage, cur>>
    <3>1. Onward(todo \ {cur}) \in {"report", "evolving"}
      BY DEF Onward
    <3>2. Onward(todo \ {cur}) \in PCs
      BY <3>1 DEF PCs
    <3> QED
      BY <1>2, <2>4, <3>1, <3>2, MovesOne DEF Resting
  <2> QED
    BY <1>2, <2>1, <2>2, <2>3, <2>4 DEF Added
<1>3. CASE p = Cycle /\ stage = "check" /\ Checked(ok)
  BY <1>3, MovesOne DEF Checked, cycleVars, PCs, Resting
<1>4. CASE p = Cycle /\ stage = "rollback" /\ Moves(Cycle, "reload") /\ UNCHANGED cycleVars
  BY <1>4, MovesOne DEF cycleVars, PCs, Resting
<1> QED
  BY <1>1, <1>2, <1>3, <1>4 DEF Over
-----------------------------------------------------------------------------
(* Steps of one process, from what they do to its call.                      *)

CallsOk == CallTypes /\ PlansOk /\ \A q \in Procs : CallOk(q)

\* A step that ends with the end of a tool call.
LEMMA OverKeeps ==
  ASSUME EvolutionInv, FilesStay, NEW p \in Procs, NEW ok \in BOOLEAN, Over(p, ok),
         call[p].pc \notin Resting, ok => record[call[p].skill] # None,
         \A s \in Skills : Safe(s) => Safe(s)'
  PROVE  CallsOk'
<1>1. CallTypes /\ PlansOk /\ \A q \in Procs : CallOk(q)
  BY DEF EvolutionInv
<1>2. /\ call' \in [Procs -> CallType]
      /\ \A q \in Procs \ {p} : call'[q] = call[q]
      /\ call'[p].pc \in Resting \union {"test", "lookup", "disable", "reload"}
      /\ call'[p].pc \notin Resting => p = Cycle /\ call'[p].skill = call[p].skill
      /\ call'[p].pc = "test" => scored /\ stage' = "add"
      /\ call'[p].pc = "disable" => stage = "check"
      /\ todo' \subseteq todo /\ cur' = cur
      /\ p # Cycle => stage' = stage
      /\ stage' = stage \/ (stage' = "check" /\ ok) \/ stage' = "rollback"
  BY <1>1, OverMoves
<1>3. CallTypes'
  BY <1>1, <1>2 DEF CallTypes, FilesStay
<1>4. PlansOk'
  <2>1. Cycle \in Procs
    BY DEF Procs
  <2>2. CASE p = Cycle
    BY <1>2, <2>2, PlansKept
  <2>3. CASE p # Cycle
    BY <1>2, <2>1, <2>3, PlansKept
  <2> QED
    BY <2>2, <2>3
<1>5. CallOk(p)'
  <2>1. call[p].skill \in Skills
    BY <1>1 DEF CallOk
  <2>2. call'[p].pc = "disable" => record'[call'[p].skill] # None
    BY <1>1, <1>2, <2>1 DEF PlansOk, FilesStay, Resting
  <2> QED
    BY <1>2, <2>1, <2>2 DEF CallOk, LoadPcs, Resting, FilesStay
<1>6. ASSUME NEW q \in Procs \ {p} PROVE CallOk(q)'
  <2>1. stage' = stage \/ q # Cycle
    BY <1>2
  <2>2. call[q].pc \in LoadPcs /\ Safe(call[q].skill) => Safe(call[q].skill)'
    <3>1. call[q].pc \in LoadPcs => call[q].skill \in Skills
      BY <1>1 DEF CallOk, LoadPcs, Resting
    <3> QED
      BY <1>2, <3>1 DEF Safe, Enabled
  <2> QED
    BY <1>1, <1>2, <2>1, <2>2, CallKept
<1> QED
  BY <1>3, <1>4, <1>5, <1>6 DEF CallsOk

\* A step within a tool call, or of an agent that begins one.
LEMMA CallStepKeeps ==
  ASSUME EvolutionInv, FilesStay, NEW p \in Procs, call' \in [Procs -> CallType],
         \A q \in Procs \ {p} : call'[q] = call[q],
         CallOk(p)', UNCHANGED cycleVars,
         \/ p # Cycle
         \/ call'[p].pc \in Resting
         \/ call[p].pc \notin Resting /\ call'[p].skill = call[p].skill,
         \A q \in Procs \ {p} : call[q].pc \in LoadPcs /\ Safe(call[q].skill)
                                  => Safe(call[q].skill)'
  PROVE  CallsOk'
<1>1. CallTypes /\ PlansOk /\ \A q \in Procs : CallOk(q)
  BY DEF EvolutionInv
<1>2. CallTypes'
  BY <1>1 DEF CallTypes, FilesStay
<1>3. PlansOk'
  <2>1. Cycle \in Procs
    BY DEF Procs
  <2>2. todo' = todo /\ cur' = cur /\ stage' = stage
    BY DEF cycleVars
  <2> QED
    BY <2>1, <2>2, PlansKept
<1>4. ASSUME NEW q \in Procs \ {p} PROVE CallOk(q)'
  BY <1>1, CallKept DEF cycleVars
<1> QED
  BY <1>2, <1>3, <1>4 DEF CallsOk

\* A step to another place of the same call.
LEMMA GoesOne ==
  ASSUME CallTypes, NEW p \in Procs, NEW to \in PCs, Goes(p, to)
  PROVE  /\ call' \in [Procs -> CallType]
         /\ \A q \in Procs \ {p} : call'[q] = call[q]
         /\ call'[p] = [call[p] EXCEPT !.pc = to]
         /\ call'[p].pc = to /\ call'[p].skill = call[p].skill
         /\ call'[p].code = call[p].code /\ call'[p].seen = call[p].seen
<1>1. call[p] \in CallType /\ call \in [Procs -> CallType]
  BY DEF CallTypes
<1>2. [call[p] EXCEPT !.pc = to] \in CallType
  BY <1>1 DEF CallType
<1> QED
  BY <1>1, <1>2 DEF Goes, CallType

\* Who is about to drop a handler.
Dropping(q) == call[q].pc \in {"pop", "drop"}

\* A disabled skill stays down when no handler comes up without its record, and
\* whoever was about to drop one still is.
LEMMA DownKept ==
  ASSUME EvolutionInv, late' = late,
         \A s \in Skills : handler'[s] # None /\ ~Enabled(s)'
                            => (handler[s] # None /\ ~Enabled(s)) \/ s \in late,
         \A q \in Procs : Dropping(q) => call'[q] = call[q]
  PROVE  DisabledIsDown'
BY DEF EvolutionInv, DisabledIsDown, Dropping

\* What has to be shown of a step.
LEMMA Together ==
  FileTypes' /\ RecordsOk' /\ DisabledIsDown' /\ CallsOk' => EvolutionInv'
BY DEF EvolutionInv, CallsOk
-----------------------------------------------------------------------------
(* One lemma for each step.                                                  *)

\* A call begins.
LEMMA BeginKeeps ==
  ASSUME EvolutionInv, NEW u \in Agents, NEW s \in Skills,
         \/ \E c \in Codes : Add(u, s, c)
         \/ Use(u, s) \/ Rollback(u, s)
  PROVE  EvolutionInv'
<1>1. PICK first \in {"write", "lookup", "disable"}, c \in Codes \union {None} :
        /\ Begin(u, first, s, c)
        /\ first = "write" => c \in Codes
        /\ first = "disable" => record[s] # None
  BY DEF Add, Use, Rollback
<1> DEFINE fresh == [Idle EXCEPT !.pc = first, !.skill = s, !.code = c, !.tries = 1]
<1>2. fresh \in CallType /\ fresh.pc = first /\ fresh.skill = s /\ fresh.code = c
  BY DEF Idle, CallType, PCs
<1>3. /\ call' = [call EXCEPT ![u] = fresh] /\ call[u].pc = "idle"
      /\ UNCHANGED <<now, files, scored, cycleVars, late, clash>>
  BY <1>1 DEF Begin, At
<1> HIDE DEF fresh
<1>4. u \in Procs /\ u # Cycle /\ call \in [Procs -> CallType]
  BY EvolutionAssumption DEF Procs, EvolutionInv, CallTypes
<1>5. FilesStay /\ \A t \in Skills : Safe(t) <=> Safe(t)'
  BY <1>3, UntouchedStay DEF files, Safe, Enabled
<1>6. call'[u] = fresh /\ call' \in [Procs -> CallType]
      /\ \A q \in Procs \ {u} : call'[q] = call[q]
  BY <1>2, <1>3, <1>4
<1>7. CallOk(u)'
  BY <1>1, <1>2, <1>3, <1>6 DEF CallOk, Resting, LoadPcs, files
<1>8. CallsOk'
  <2>1. \A q \in Procs \ {u} : call[q].pc \in LoadPcs /\ Safe(call[q].skill)
                               => Safe(call[q].skill)'
    BY <1>3, <1>6 DEF Safe, Enabled, files
  <2> QED
    BY <1>3, <1>4, <1>5, <1>6, <1>7, <2>1, CallStepKeeps
<1>9. FileTypes' /\ RecordsOk'
  BY <1>3 DEF EvolutionInv, FileTypes, RecordsOk, Ref, files
<1>10. DisabledIsDown'
  <2>1. \A q \in Procs : Dropping(q) => call'[q] = call[q]
    BY <1>3, <1>6 DEF Dropping
  <2> QED
    BY <1>3, <2>1, DownKept DEF files, Enabled
<1> QED
  BY <1>8, <1>9, <1>10, Together

\* A file is written.  What it overwrites has clashed.
LEMMA WriteArtifactKeeps ==
  ASSUME EvolutionInv, NEW p \in Procs, WriteArtifact(p) PROVE EvolutionInv'
<1> DEFINE s == call[p].skill
           c == call[p].code
           stored == [url |-> now, sum |-> c, enabled |-> TRUE, rate |-> 0, content |-> None]
<1>1. s \in Skills /\ c \in Codes /\ call[p] \in CallType /\ call[p].pc = "write"
  BY DEF EvolutionInv, CallTypes, CallOk, Resting, WriteArtifact, At
<1>2. stored \in Record
  BY <1>1 DEF Record, EvolutionInv, FileTypes
<1>3. /\ artifact' = [artifact EXCEPT ![s] = [artifact[s] EXCEPT ![now] = c]]
      /\ clash' = IF artifact[s][now] \in {None, c} THEN clash ELSE clash \union {s}
      /\ UNCHANGED <<now, record, handler, failures, scored, cycleVars, late>>
  BY DEF WriteArtifact
<1>4. artifact \in [Skills -> [Times -> Codes \union {None}]] /\ now \in Times
  BY DEF EvolutionInv, FileTypes
<1>5. artifact' \in [Skills -> [Times -> Codes \union {None}]] /\ artifact'[s][now] = c
  BY <1>1, <1>3, <1>4
<1>6. ASSUME NEW t \in Skills, NEW r \in Record, Ref(t, r) PROVE Ref(t, r)'
  <2>1. r.url \in Times /\ r.sum \in Codes /\ r.sum # None
    BY EvolutionAssumption DEF Record
  <2>2. CASE t \in clash
    BY <1>3, <2>2 DEF Ref
  <2>3. CASE t = s /\ r.url = now /\ t \notin clash
    BY <1>3, <1>5, <1>6, <2>1, <2>3 DEF Ref
  <2>4. CASE ~(t = s /\ r.url = now) /\ t \notin clash
    BY <1>1, <1>3, <1>4, <1>6, <2>1, <2>4 DEF Ref
  <2> QED
    BY <2>2, <2>3, <2>4
<1>7. FilesStay
  BY <1>3, <1>6 DEF FilesStay
<1>8. /\ call' \in [Procs -> CallType] /\ \A q \in Procs \ {p} : call'[q] = call[q]
      /\ call'[p].pc = "register" /\ call'[p].skill = s /\ call'[p].code = c
      /\ call'[p].seen = stored
  <2>1. call' = [call EXCEPT ![p] = [call[p] EXCEPT !.pc = "register", !.seen = stored]]
    BY DEF WriteArtifact
  <2>2. call \in [Procs -> CallType]
    BY DEF EvolutionInv, CallTypes
  <2> DEFINE new == [call[p] EXCEPT !.pc = "register", !.seen = stored]
  <2>3. /\ new \in CallType /\ new.pc = "register" /\ new.skill = s /\ new.code = c
        /\ new.seen = stored
    BY <1>1, <1>2 DEF CallType, PCs
  <2> HIDE DEF new
  <2> QED
    BY <2>1, <2>2, <2>3 DEF new
<1>9. CallOk(p)'
  <2>1. stored.enabled /\ stored.url = now /\ stored.sum = c
    OBVIOUS
  <2> HIDE DEF stored, s, c
  <2>3. Ref(call[p].skill, call[p].seen)'
    BY <1>5, <1>8, <2>1 DEF Ref
  <2> QED
    BY <1>1, <1>2, <1>8, <2>1, <2>3 DEF CallOk, LoadPcs, Resting
<1>10. CallsOk'
  <2>1. \A q \in Procs \ {p} : call[q].pc \in LoadPcs /\ Safe(call[q].skill)
                               => Safe(call[q].skill)'
    BY <1>3, <1>8 DEF Safe, Enabled
  <2> QED
    BY <1>1, <1>3, <1>7, <1>8, <1>9, <2>1, CallStepKeeps DEF Resting
<1>11. FileTypes'
  BY <1>1, <1>3, <1>5 DEF EvolutionInv, FileTypes
<1>12. RecordsOk'
  BY <1>3, <1>6 DEF EvolutionInv, FileTypes, RecordsOk
<1>13. DisabledIsDown'
  <2>1. \A q \in Procs : Dropping(q) => call'[q] = call[q]
    BY <1>1, <1>8 DEF Dropping
  <2> QED
    BY <1>3, <2>1, DownKept DEF Enabled
<1> QED
  BY <1>10, <1>11, <1>12, <1>13, Together

\* The record of what was stored replaces the old one.
LEMMA RegisterRecordKeeps ==
  ASSUME EvolutionInv, NEW p \in Procs, RegisterRecord(p) PROVE EvolutionInv'
<1> DEFINE s == call[p].skill
           r == call[p].seen
<1>1. /\ s \in Skills /\ r \in Record /\ r.enabled /\ Ref(s, r) /\ r # None
      /\ call[p].pc = "register" /\ call[p].code \in Codes
  BY NoneAssumption DEF EvolutionInv, CallOk, Resting, RegisterRecord, At
<1>2. /\ record' = [record EXCEPT ![s] = r] /\ Goes(p, "load")
      /\ UNCHANGED <<now, artifact, handler, failures, scored, cycleVars, late, clash>>
  BY DEF RegisterRecord, Registered
<1>3. record' \in [Skills -> Record \union {None}] /\ record'[s] = r
      /\ \A t \in Skills \ {s} : record'[t] = record[t]
  BY <1>1, <1>2 DEF EvolutionInv, FileTypes
<1>4. FilesStay
  BY <1>1, <1>2, <1>3 DEF FilesStay, Ref
<1>5. \A t \in Skills : Safe(t) => Safe(t)'
  BY <1>1, <1>2, <1>3 DEF Safe, Enabled
<1>6. /\ call' \in [Procs -> CallType] /\ \A q \in Procs \ {p} : call'[q] = call[q]
      /\ call'[p].pc = "load" /\ call'[p].skill = s /\ call'[p].seen = r
      /\ call'[p].code = call[p].code
  BY <1>2, GoesOne DEF EvolutionInv, PCs
<1>7. CallOk(p)'
  BY <1>1, <1>3, <1>6 DEF CallOk, LoadPcs, Resting, Safe, Enabled
<1>8. CallsOk'
  <2>1. \A q \in Procs \ {p} : call[q].pc \in LoadPcs /\ Safe(call[q].skill)
                               => Safe(call[q].skill)'
    <3>1. \A q \in Procs \ {p} : call[q].pc \in LoadPcs => call[q].skill \in Skills
      BY DEF EvolutionInv, CallOk, LoadPcs, Resting
    <3> QED
      BY <1>5, <1>6, <3>1 DEF Safe, Enabled
  <2> QED
    BY <1>1, <1>2, <1>4, <1>6, <1>7, <2>1, CallStepKeeps DEF Resting
<1>9. FileTypes'
  BY <1>2, <1>3 DEF EvolutionInv, FileTypes
<1>10. RecordsOk'
  BY <1>1, <1>2, <1>3 DEF EvolutionInv, RecordsOk, Ref
<1>11. DisabledIsDown'
  <2>1. \A q \in Procs : Dropping(q) => call'[q] = call[q]
    BY <1>1, <1>6 DEF Dropping
  <2>2. \A t \in Skills : ~Enabled(t)' => ~Enabled(t)
    BY <1>1, <1>3 DEF Enabled
  <2> QED
    BY <1>2, <2>1, <2>2, DownKept
<1> QED
  BY <1>8, <1>9, <1>10, <1>11, Together
\* Steps that leave files, records and handlers alone.
LEMMA FilesUntouched ==
  ASSUME EvolutionInv, UNCHANGED <<now, files, scored, late, clash>>,
         \A q \in Procs : Dropping(q) => call'[q] = call[q]
  PROVE  /\ FileTypes' /\ RecordsOk' /\ DisabledIsDown' /\ FilesStay
         /\ \A s \in Skills : Safe(s) => Safe(s)'
<1>1. FileTypes' /\ RecordsOk'
  BY DEF EvolutionInv, FileTypes, RecordsOk, Ref, files
<1>2. DisabledIsDown'
  BY DownKept DEF files, Enabled
<1>3. FilesStay
  BY UntouchedStay DEF files
<1> QED
  BY <1>1, <1>2, <1>3 DEF Safe, Enabled, files

\* Skills that stay safe are safe for whoever loads them.
LEMMA SafeOthers ==
  ASSUME EvolutionInv, NEW p \in Procs, \A q \in Procs \ {p} : call'[q] = call[q],
         \A s \in Skills : Safe(s) => Safe(s)'
  PROVE  \A q \in Procs \ {p} : call[q].pc \in LoadPcs /\ Safe(call[q].skill)
                                => Safe(call[q].skill)'
<1>1. \A q \in Procs \ {p} : call[q].pc \in LoadPcs => call[q].skill \in Skills
  BY DEF EvolutionInv, CallOk, LoadPcs, Resting
<1> QED
  BY <1>1 DEF Safe, Enabled

\* A step of p to another place that leaves the files alone.
LEMMA GoesKeeps ==
  ASSUME EvolutionInv, NEW p \in Procs, NEW to \in PCs, Goes(p, to),
         UNCHANGED <<now, files, scored, late, clash, cycleVars>>,
         ~Dropping(p), CallOk(p)', to \in Resting \/ call[p].pc \notin Resting
  PROVE  EvolutionInv'
<1>1. /\ call' \in [Procs -> CallType] /\ \A q \in Procs \ {p} : call'[q] = call[q]
      /\ call'[p].pc = to /\ call'[p].skill = call[p].skill
  BY GoesOne DEF EvolutionInv
<1>2. \A q \in Procs : Dropping(q) => call'[q] = call[q]
  BY <1>1
<1>3. /\ FileTypes' /\ RecordsOk' /\ DisabledIsDown' /\ FilesStay
      /\ \A s \in Skills : Safe(s) => Safe(s)'
  BY <1>2, FilesUntouched
<1>4. CallsOk'
  BY <1>1, <1>3, SafeOthers, CallStepKeeps
<1> QED
  BY <1>3, <1>4, Together

\* A tool call ends and leaves the files alone.
LEMMA OverAlone ==
  ASSUME EvolutionInv, NEW p \in Procs, NEW ok \in BOOLEAN, Over(p, ok),
         UNCHANGED <<now, files, scored, late, clash>>,
         ~Dropping(p), call[p].pc \notin Resting, ok => record[call[p].skill] # None
  PROVE  EvolutionInv'
<1>1. \A q \in Procs \ {p} : call'[q] = call[q]
  BY OverMoves DEF EvolutionInv
<1>2. /\ FileTypes' /\ RecordsOk' /\ DisabledIsDown' /\ FilesStay
      /\ \A s \in Skills : Safe(s) => Safe(s)'
  BY <1>1, FilesUntouched
<1>3. CallsOk'
  BY <1>2, OverKeeps
<1> QED
  BY <1>2, <1>3, Together

\* A handler comes up for a skill that was safe when its record was looked at.
LEMMA ServesKeeps ==
  ASSUME EvolutionInv, NEW p \in Procs, call[p].pc \in LoadPcs, Imports(There(p)), Serves(p),
         UNCHANGED <<now, artifact, record, failures, scored, late, clash>>,
         \A q \in Procs : Dropping(q) => call'[q] = call[q]
  PROVE  /\ FileTypes' /\ RecordsOk' /\ DisabledIsDown' /\ FilesStay
         /\ \A s \in Skills : Safe(s) => Safe(s)'
<1> DEFINE s == call[p].skill
<1>1. s \in Skills /\ Safe(s) /\ record[s] # None
  BY DEF EvolutionInv, CallOk, LoadPcs, Resting
<1>2. There(p) \in Codes \ Broken
  BY DEF Imports
<1>3. /\ handler' = [handler EXCEPT ![s] = There(p)]
      /\ handler \in [Skills -> (Codes \ Broken) \union {None}]
  BY DEF Serves, EvolutionInv, FileTypes
<1> HIDE DEF s
<1>4. FileTypes'
  BY <1>1, <1>2, <1>3 DEF EvolutionInv, FileTypes
<1>5. RecordsOk'
  BY <1>1, <1>3 DEF EvolutionInv, RecordsOk, Ref
<1>6. DisabledIsDown'
  <2>1. \A t \in Skills : handler'[t] # None /\ ~Enabled(t)'
                         => (handler[t] # None /\ ~Enabled(t)) \/ t \in late
    BY <1>1, <1>3 DEF Safe, Enabled
  <2> QED
    BY <2>1, DownKept
<1> QED
  BY <1>4, <1>5, <1>6, UntouchedStay DEF Safe, Enabled

\* A stored skill is loaded, or stored once more, or not added.
LEMMA LoadStoredKeeps ==
  ASSUME EvolutionInv, NEW p \in Procs, LoadStored(p) PROVE EvolutionInv'
<1>1. /\ call[p].pc = "load" /\ call[p].skill \in Skills /\ call[p].code \in Codes
      /\ record[call[p].skill] # None /\ call[p] \in CallType
  BY DEF EvolutionInv, CallTypes, CallOk, LoadPcs, Resting, LoadStored, At
<1>2. UNCHANGED <<now, artifact, record, failures, scored, late, clash>>
  BY DEF LoadStored
<1>3. ~Dropping(p) /\ call[p].pc \notin Resting /\ call[p].pc \in LoadPcs
  BY <1>1 DEF Dropping, Resting, LoadPcs
<1>4. CASE Imports(There(p)) /\ Serves(p) /\ Over(p, TRUE)
  <2>1. \A q \in Procs \ {p} : call'[q] = call[q]
    BY <1>4, OverMoves DEF EvolutionInv
  <2>2. /\ FileTypes' /\ RecordsOk' /\ DisabledIsDown' /\ FilesStay
        /\ \A s \in Skills : Safe(s) => Safe(s)'
    BY <1>2, <1>3, <1>4, <2>1, ServesKeeps
  <2>3. CallsOk'
    BY <1>1, <1>3, <1>4, <2>2, OverKeeps
  <2> QED
    BY <2>2, <2>3, Together
<1>5. CASE UNCHANGED handler /\ Over(p, FALSE)
  BY <1>2, <1>3, <1>5, OverAlone DEF files
<1>6. CASE /\ UNCHANGED <<handler, cycleVars>>
           /\ call' = [call EXCEPT ![p].pc = "write", ![p].tries = 2]
  <2> DEFINE again == [call[p] EXCEPT !.pc = "write", !.tries = 2]
  <2>1. again \in CallType /\ again.pc = "write" /\ again.skill = call[p].skill
        /\ again.code = call[p].code
    BY <1>1 DEF CallType, PCs
  <2>2. call' = [call EXCEPT ![p] = again] /\ call \in [Procs -> CallType]
    BY <1>6 DEF EvolutionInv, CallTypes
  <2> HIDE DEF again
  <2>3. /\ call' \in [Procs -> CallType] /\ \A q \in Procs \ {p} : call'[q] = call[q]
        /\ call'[p] = again
    BY <2>1, <2>2
  <2>4. CallOk(p)'
    BY <1>1, <2>1, <2>3 DEF CallOk, LoadPcs, Resting
  <2>5. \A q \in Procs : Dropping(q) => call'[q] = call[q]
    BY <1>3, <2>3
  <2>6. /\ FileTypes' /\ RecordsOk' /\ DisabledIsDown' /\ FilesStay
        /\ \A s \in Skills : Safe(s) => Safe(s)'
    BY <1>2, <1>6, <2>5, FilesUntouched DEF files
  <2>7. CallsOk'
    BY <1>3, <1>6, <2>1, <2>3, <2>4, <2>6, SafeOthers, CallStepKeeps
  <2> QED
    BY <2>6, <2>7, Together
<1> QED
  BY <1>4, <1>5, <1>6 DEF LoadStored

\* A skill that is used is found, or its enabled record is taken to load it by.
LEMMA LookupKeeps ==
  ASSUME EvolutionInv, NEW p \in Procs, Lookup(p) PROVE EvolutionInv'
<1> DEFINE s == call[p].skill
<1>1. s \in Skills /\ call[p] \in CallType /\ call[p].pc = "lookup"
  BY DEF EvolutionInv, CallTypes, CallOk, Resting, Lookup, At
<1>2. UNCHANGED <<now, files, scored, late, clash>>
  BY DEF Lookup
<1>3. ~Dropping(p) /\ call[p].pc \notin Resting
  BY <1>1 DEF Dropping, Resting
<1>4. CASE Goes(p, "run") /\ UNCHANGED cycleVars
  <2>1. "run" \in PCs
    BY DEF PCs
  <2>2. CallOk(p)'
    BY <1>1, <1>4, <2>1, GoesOne DEF EvolutionInv, CallOk, LoadPcs, Resting
  <2> QED
    BY <1>2, <1>3, <1>4, <2>1, <2>2, GoesKeeps
<1>5. CASE Over(p, FALSE)
  BY <1>2, <1>3, <1>5, OverAlone
<1>6. CASE /\ Enabled(s) /\ UNCHANGED cycleVars
           /\ call' = [call EXCEPT ![p].pc = "verify", ![p].seen = record[s]]
  <2> DEFINE seeing == [call[p] EXCEPT !.pc = "verify", !.seen = record[s]]
  <2>1. record[s] \in Record /\ record[s] # None
    BY <1>1, <1>6 DEF Enabled, EvolutionInv, FileTypes
  <2>2. seeing \in CallType /\ seeing.pc = "verify" /\ seeing.skill = s
        /\ seeing.seen = record[s]
    BY <1>1, <2>1 DEF CallType, PCs
  <2>3. call' = [call EXCEPT ![p] = seeing] /\ call \in [Procs -> CallType]
    BY <1>6 DEF EvolutionInv, CallTypes
  <2> HIDE DEF seeing
  <2>4. /\ call' \in [Procs -> CallType] /\ \A q \in Procs \ {p} : call'[q] = call[q]
        /\ call'[p] = seeing
    BY <2>2, <2>3
  <2> HIDE DEF s
  <2>5. CallOk(p)'
    BY <1>1, <1>2, <1>6, <2>1, <2>2, <2>4 DEF CallOk, LoadPcs, Resting, Safe, Enabled, files
  <2>6. \A q \in Procs : Dropping(q) => call'[q] = call[q]
    BY <1>3, <2>4
  <2>7. /\ FileTypes' /\ RecordsOk' /\ DisabledIsDown' /\ FilesStay
        /\ \A t \in Skills : Safe(t) => Safe(t)'
    BY <1>2, <2>6, FilesUntouched
  <2>8. call'[p].skill = call[p].skill
    BY <2>2, <2>4 DEF s
  <2>9. CallsOk'
    BY <1>3, <1>6, <2>4, <2>5, <2>7, <2>8, SafeOthers, CallStepKeeps
  <2> QED
    BY <2>7, <2>9, Together
<1> QED
  BY <1>4, <1>5, <1>6 DEF Lookup
\* The file is verified.
LEMMA VerifyKeeps ==
  ASSUME EvolutionInv, NEW p \in Procs, Verify(p) PROVE EvolutionInv'
<1>1. /\ call[p].pc = "verify" /\ ~Dropping(p) /\ call[p].pc \notin Resting
      /\ UNCHANGED <<now, files, scored, late, clash>>
  BY DEF Verify, At, Dropping, Resting
<1>2. CASE Goes(p, "import") /\ UNCHANGED cycleVars
  <2>1. "import" \in PCs
    BY DEF PCs
  <2>2. CallOk(p)'
    BY <1>1, <1>2, <2>1, GoesOne DEF EvolutionInv, CallOk, LoadPcs, Resting, Safe, Enabled, files
  <2> QED
    BY <1>1, <1>2, <2>1, <2>2, GoesKeeps
<1>3. CASE Over(p, FALSE)
  BY <1>1, <1>3, OverAlone
<1> QED
  BY <1>2, <1>3 DEF Verify

\* It is imported.
LEMMA ImportKeeps ==
  ASSUME EvolutionInv, NEW p \in Procs, Import(p) PROVE EvolutionInv'
<1>1. /\ call[p].pc = "import" /\ ~Dropping(p) /\ call[p].pc \notin Resting
      /\ call[p].pc \in LoadPcs
      /\ UNCHANGED <<now, artifact, record, failures, scored, late, clash>>
  BY DEF Import, At, Dropping, Resting, LoadPcs
<1>2. CASE Imports(There(p)) /\ Serves(p) /\ Goes(p, "run") /\ UNCHANGED cycleVars
  <2>1. "run" \in PCs
    BY DEF PCs
  <2>2. /\ call' \in [Procs -> CallType] /\ \A q \in Procs \ {p} : call'[q] = call[q]
        /\ call'[p].pc = "run" /\ call'[p].skill = call[p].skill
    BY <1>2, <2>1, GoesOne DEF EvolutionInv
  <2>3. \A q \in Procs : Dropping(q) => call'[q] = call[q]
    BY <1>1, <2>2
  <2>4. /\ FileTypes' /\ RecordsOk' /\ DisabledIsDown' /\ FilesStay
        /\ \A s \in Skills : Safe(s) => Safe(s)'
    BY <1>1, <1>2, <2>3, ServesKeeps
  <2>5. CallOk(p)'
    BY <1>1, <2>2 DEF EvolutionInv, CallOk, LoadPcs, Resting
  <2>6. CallsOk'
    BY <1>1, <1>2, <2>2, <2>4, <2>5, SafeOthers, CallStepKeeps
  <2> QED
    BY <2>4, <2>6, Together
<1>3. CASE Over(p, FALSE) /\ UNCHANGED handler
  BY <1>1, <1>3, OverAlone DEF files
<1> QED
  BY <1>2, <1>3 DEF Import

\* The handler runs.
LEMMA RunKeeps ==
  ASSUME EvolutionInv, NEW p \in Procs, Run(p) PROVE EvolutionInv'
<1>1. /\ call[p].pc = "run" /\ ~Dropping(p) /\ call[p].pc \notin Resting
      /\ UNCHANGED <<now, files, scored, late, clash>>
  BY DEF Run, At, Dropping, Resting
<1>2. handler[call[p].skill] # None => record[call[p].skill] # None
  BY <1>1 DEF EvolutionInv, CallOk, RecordsOk
<1>3. CASE Over(p, FALSE)
  BY <1>1, <1>3, OverAlone
<1>4. CASE handler[call[p].skill] # None /\ Over(p, TRUE)
  BY <1>1, <1>2, <1>4, OverAlone
<1>5. CASE handler[call[p].skill] # None /\ Goes(p, "track") /\ UNCHANGED cycleVars
  <2>1. "track" \in PCs
    BY DEF PCs
  <2>2. CallOk(p)'
    BY <1>1, <1>2, <1>5, <2>1, GoesOne DEF EvolutionInv, CallOk, LoadPcs, Resting, files
  <2> QED
    BY <1>1, <1>5, <2>1, <2>2, GoesKeeps
<1> QED
  BY <1>3, <1>4, <1>5 DEF Run

\* A failure is counted.
LEMMA TrackKeeps ==
  ASSUME EvolutionInv, NEW p \in Procs, Track(p) PROVE EvolutionInv'
<1>1. /\ call[p].pc = "track" /\ ~Dropping(p) /\ call[p].pc \notin Resting
      /\ call[p].skill \in Skills
      /\ UNCHANGED <<now, artifact, record, handler, scored, late, clash>>
  BY DEF Track, At, Dropping, Resting, EvolutionInv, CallOk
<1>2. PICK n \in 1..failures[call[p].skill] + 1 :
        /\ failures' = [failures EXCEPT ![call[p].skill] = IF n < Trip THEN n ELSE Trip]
        /\ IF n >= Trip THEN Goes(p, "trip") /\ UNCHANGED cycleVars ELSE Over(p, FALSE)
  BY DEF Track
<1>3. FileTypes'
  <2>1. (IF n < Trip THEN n ELSE Trip) \in 0..Trip
    BY <1>1, EvolutionAssumption DEF EvolutionInv, FileTypes
  <2> QED
    BY <1>1, <1>2, <2>1 DEF EvolutionInv, FileTypes
<1>4. RecordsOk' /\ FilesStay /\ \A s \in Skills : Safe(s) => Safe(s)'
  BY <1>1, UntouchedStay DEF EvolutionInv, RecordsOk, Ref, Safe, Enabled
<1>5. /\ \A q \in Procs \ {p} : call'[q] = call[q]
      /\ CallsOk'
  <2>1. CASE Goes(p, "trip") /\ UNCHANGED cycleVars
    <3>1. "trip" \in PCs
      BY DEF PCs
    <3>2. /\ call' \in [Procs -> CallType] /\ \A q \in Procs \ {p} : call'[q] = call[q]
          /\ call'[p].pc = "trip" /\ call'[p].skill = call[p].skill
      BY <2>1, <3>1, GoesOne DEF EvolutionInv
    <3>3. CallOk(p)'
      BY <1>1, <3>2 DEF EvolutionInv, CallOk, LoadPcs, Resting
    <3>4. CallsOk'
      BY <1>1, <1>4, <2>1, <3>2, <3>3, SafeOthers, CallStepKeeps
    <3> QED
      BY <3>2, <3>4
  <2>2. CASE Over(p, FALSE)
    BY <1>1, <1>4, <2>2, OverKeeps, OverMoves DEF EvolutionInv
  <2> QED
    BY <1>2, <2>1, <2>2
<1>6. DisabledIsDown'
  <2>1. \A q \in Procs : Dropping(q) => call'[q] = call[q]
    BY <1>1, <1>5
  <2> QED
    BY <1>1, <2>1, DownKept DEF Enabled
<1> QED
  BY <1>3, <1>4, <1>5, <1>6, Together

\* A skill is disabled: whoever is loading it is late, and its handler is to be
\* dropped next.
LEMMA DisableKeeps ==
  ASSUME EvolutionInv, NEW p \in Procs, Disable(p) PROVE EvolutionInv'
<1> DEFINE s == call[p].skill
<1>1. PICK to \in {"pop", "drop"} : Goes(p, to)
  BY DEF Disable
<1>2. /\ call[p].pc \in {"disable", "trip"} /\ ~Dropping(p) /\ call[p].pc \notin Resting
      /\ call[p].pc \notin LoadPcs
      /\ UNCHANGED <<now, artifact, handler, failures, scored, cycleVars, clash>>
  BY DEF Disable, At, Dropping, Resting, LoadPcs
<1>3. /\ s \in Skills /\ record[s] # None /\ record[s] \in Record
      /\ record \in [Skills -> Record \union {None}]
  BY <1>2 DEF EvolutionInv, CallOk, Resting, FileTypes
<1> DEFINE off == [record[s] EXCEPT !.enabled = FALSE]
<1>4. /\ off \in Record /\ off.url = record[s].url /\ off.sum = record[s].sum
      /\ off.enabled = FALSE /\ off # None
  BY <1>3, NoneAssumption DEF Record
<1>5. /\ record' = [record EXCEPT ![s] = off]
      /\ late' = IF Loading(s) THEN late \union {s} ELSE late \ {s}
  BY DEF Disable
<1>6. to \in PCs
  BY DEF PCs
<1>7. /\ call' \in [Procs -> CallType] /\ \A q \in Procs \ {p} : call'[q] = call[q]
      /\ call'[p].pc = to /\ call'[p].skill = s
  BY <1>1, <1>6, GoesOne DEF EvolutionInv
<1> HIDE DEF off, s
<1>8. record'[s] = off /\ \A t \in Skills \ {s} : record'[t] = record[t]
  BY <1>3, <1>5
<1>9. FilesStay
  BY <1>2, <1>4, <1>8 DEF FilesStay, Ref
<1>10. CallOk(p)'
  BY <1>3, <1>7 DEF CallOk, LoadPcs, Resting
<1>11. CallsOk'
  <2>1. ASSUME NEW q \in Procs \ {p}, call[q].pc \in LoadPcs, Safe(call[q].skill)
        PROVE  Safe(call[q].skill)'
    <3>1. call[q].skill \in Skills
      BY <2>1 DEF EvolutionInv, CallOk, LoadPcs, Resting
    <3>2. CASE call[q].skill = s
      <4>1. Loading(s)
        BY <2>1, <3>2 DEF Loading, LoadPcs
      <4> QED
        BY <1>5, <1>7, <3>2, <4>1 DEF Safe
    <3>3. CASE call[q].skill # s
      BY <1>5, <1>7, <1>8, <2>1, <3>1, <3>3 DEF Safe, Enabled
    <3> QED
      BY <3>2, <3>3
  <2>2. call'[p].skill = call[p].skill
    BY <1>7 DEF s
  <2> QED
    BY <1>2, <1>7, <1>9, <1>10, <2>1, <2>2, CallStepKeeps
<1>12. FileTypes'
  BY <1>2, <1>3, <1>4, <1>5 DEF EvolutionInv, FileTypes
<1>13. RecordsOk'
  BY <1>2, <1>3, <1>4, <1>8 DEF EvolutionInv, RecordsOk, Ref
<1>14. DisabledIsDown'
  <2> SUFFICES ASSUME NEW t \in Skills, handler'[t] # None, ~Enabled(t)'
               PROVE  t \in late' \/ \E q \in Procs : call'[q].skill = t /\ Dropping(q)'
    BY DEF DisabledIsDown, Dropping
  <2>1. CASE t = s
    BY <1>7, <2>1 DEF Dropping
  <2>2. CASE t # s
    <3>1. handler[t] # None /\ ~Enabled(t)
      BY <1>2, <1>8, <2>2 DEF Enabled
    <3>2. CASE t \in late
      BY <1>5, <2>2, <3>2
    <3>3. CASE t \notin late
      <4>1. PICK q \in Procs : call[q].skill = t /\ Dropping(q)
        BY <3>1, <3>3 DEF EvolutionInv, DisabledIsDown, Dropping
      <4>2. q # p
        BY <1>2, <4>1
      <4> QED
        BY <1>7, <4>1, <4>2 DEF Dropping
    <3> QED
      BY <3>2, <3>3
  <2> QED
    BY <2>1, <2>2
<1> QED
  BY <1>11, <1>12, <1>13, <1>14, Together
\* The handler of a disabled skill is dropped.
LEMMA PopKeeps ==
  ASSUME EvolutionInv, NEW p \in Procs, Pop(p) PROVE EvolutionInv'
<1> DEFINE s == call[p].skill
<1>1. /\ call[p].pc \notin Resting /\ s \in Skills /\ Over(p, FALSE)
      /\ handler' = [handler EXCEPT ![s] = None]
      /\ UNCHANGED <<now, artifact, record, scored, late, clash>>
  BY DEF Pop, At, Resting, EvolutionInv, CallOk
<1>2. FilesStay /\ \A t \in Skills : Safe(t) => Safe(t)'
  BY <1>1, UntouchedStay DEF Safe, Enabled
<1>3. CallsOk' /\ \A q \in Procs \ {p} : call'[q] = call[q]
  BY <1>1, <1>2, OverKeeps, OverMoves DEF EvolutionInv
<1>4. FileTypes'
  <2>1. failures' \in [Skills -> 0..Trip]
    <3>1. 0 \in 0..Trip
      BY EvolutionAssumption
    <3>2. failures' = [failures EXCEPT ![s] = 0] \/ failures' = [failures EXCEPT ![s] = @]
      BY DEF Pop
    <3> QED
      BY <1>1, <3>1, <3>2 DEF EvolutionInv, FileTypes
  <2> QED
    BY <1>1, <2>1 DEF EvolutionInv, FileTypes
<1>5. RecordsOk'
  BY <1>1 DEF EvolutionInv, RecordsOk, FileTypes, Ref
<1>6. DisabledIsDown'
  <2> SUFFICES ASSUME NEW t \in Skills, handler'[t] # None, ~Enabled(t)'
               PROVE  t \in late' \/ \E q \in Procs : call'[q].skill = t /\ Dropping(q)'
    BY DEF DisabledIsDown, Dropping
  <2>1. t # s /\ handler[t] # None /\ ~Enabled(t)
    BY <1>1 DEF EvolutionInv, FileTypes, Enabled
  <2>2. CASE t \in late
    BY <1>1, <2>2
  <2>3. CASE t \notin late
    <3>1. PICK q \in Procs : call[q].skill = t /\ Dropping(q)
      BY <2>1, <2>3 DEF EvolutionInv, DisabledIsDown, Dropping
    <3> QED
      BY <1>3, <2>1, <3>1 DEF Dropping
  <2> QED
    BY <2>2, <2>3
<1> QED
  BY <1>3, <1>4, <1>5, <1>6, Together

\* All handlers are dropped.
LEMMA ReloadKeeps ==
  ASSUME EvolutionInv, NEW p \in Procs, Reload(p) PROVE EvolutionInv'
<1>1. /\ call[p].pc = "reload" /\ Goes(p, "report") /\ "report" \in PCs
      /\ handler' = [s \in Skills |-> None]
      /\ UNCHANGED <<now, artifact, record, failures, scored, cycleVars, late, clash>>
  BY DEF Reload, At, PCs
<1>2. /\ call' \in [Procs -> CallType] /\ \A q \in Procs \ {p} : call'[q] = call[q]
      /\ call'[p].pc = "report"
  BY <1>1, GoesOne DEF EvolutionInv
<1>3. FilesStay /\ \A t \in Skills : Safe(t) => Safe(t)'
  BY <1>1, UntouchedStay DEF Safe, Enabled
<1>4. CallOk(p)'
  BY <1>2 DEF CallOk, LoadPcs, Resting
<1>5. CallsOk'
  BY <1>1, <1>2, <1>3, <1>4, SafeOthers, CallStepKeeps DEF Resting
<1>6. FileTypes' /\ RecordsOk' /\ DisabledIsDown'
  BY <1>1 DEF EvolutionInv, FileTypes, RecordsOk, DisabledIsDown, Ref
<1> QED
  BY <1>5, <1>6, Together

\* A step within a tool call.
LEMMA StepKeeps ==
  ASSUME EvolutionInv, NEW p \in Procs, Step(p) PROVE EvolutionInv'
BY WriteArtifactKeeps, RegisterRecordKeeps, LoadStoredKeeps, LookupKeeps, VerifyKeeps,
   ImportKeeps, RunKeeps, TrackKeeps, DisableKeeps, PopKeeps, ReloadKeeps DEF Step
-----------------------------------------------------------------------------
(* The cycle between its calls.                                              *)

\* The cycle's own steps: what it plans is good, and its call begins well.
LEMMA CycleKeeps ==
  ASSUME EvolutionInv, call' \in [Procs -> CallType],
         \A q \in Procs \ {Cycle} : call'[q] = call[q],
         UNCHANGED <<now, files, scored, late, clash>>,
         ~Dropping(Cycle), CallOk(Cycle)', PlansOk'
  PROVE  EvolutionInv'
<1>1. \A q \in Procs : Dropping(q) => call'[q] = call[q]
  OBVIOUS
<1>2. /\ FileTypes' /\ RecordsOk' /\ DisabledIsDown' /\ FilesStay
      /\ \A s \in Skills : Safe(s) => Safe(s)'
  BY <1>1, FilesUntouched
<1>3. \A q \in Procs \ {Cycle} : call[q].pc \in LoadPcs /\ Safe(call[q].skill)
                               => Safe(call[q].skill)'
  BY <1>2, SafeOthers DEF Procs
<1>4. ASSUME NEW q \in Procs \ {Cycle} PROVE CallOk(q)'
  BY <1>2, <1>3, CallKept DEF EvolutionInv
<1>5. CallsOk'
  BY <1>4 DEF EvolutionInv, CallsOk, CallTypes
<1> QED
  BY <1>2, <1>5, Together

\* Plans that are good stay good when no file or record changes.
LEMMA WeakStays ==
  ASSUME UNCHANGED <<files, scored, clash>>, NEW w, WeakOne(w) PROVE WeakOne(w)'
BY DEF WeakOne, Ref, files

\* A cycle that rests after its step, with no more plans than before.
LEMMA RestKeeps ==
  ASSUME EvolutionInv, UNCHANGED <<now, files, scored, late, clash>>, ~Dropping(Cycle),
         NEW to \in Resting, Goes(Cycle, to), \A w \in todo' : WeakOne(w)
  PROVE  EvolutionInv'
<1>1. Cycle \in Procs /\ to \in PCs
  BY DEF Procs, PCs, Resting
<1>2. /\ call' \in [Procs -> CallType] /\ \A q \in Procs \ {Cycle} : call'[q] = call[q]
      /\ call'[Cycle].pc = to
  BY <1>1, GoesOne DEF EvolutionInv
<1>3. CallOk(Cycle)'
  BY <1>2 DEF CallOk, LoadPcs, Resting
<1>4. PlansOk'
  <2>1. \A w \in todo' : WeakOne(w)'
    BY WeakStays
  <2> QED
    BY <1>2, <2>1 DEF PlansOk, Resting
<1> QED
  BY <1>2, <1>3, <1>4, CycleKeeps

\* The cycle wakes with skills that are enabled, or with groups.
LEMMA WakeKeeps ==
  ASSUME EvolutionInv, WakeScored \/ WakeClusters PROVE EvolutionInv'
<1>1. /\ ~Dropping(Cycle) /\ UNCHANGED <<now, files, scored, late, clash>>
      /\ Goes(Cycle, Onward(todo'))
  BY DEF WakeScored, WakeClusters, Due, At, Dropping
<1>2. Onward(todo') \in Resting
  BY DEF Onward, Resting
<1>3. CASE WakeScored
  <2>1. ASSUME NEW w \in todo' PROVE WeakOne(w)
    <3>1. PICK s \in Skills : /\ Enabled(s) /\ w = [skill |-> s, was |-> record[s]]
      BY <1>3, <2>1 DEF WakeScored, Weak
    <3>2. record[s] # None /\ record[s].enabled /\ record[s] \in Record /\ Ref(s, record[s])
      BY <3>1 DEF Enabled, EvolutionInv, FileTypes, RecordsOk
    <3> QED
      BY <3>1, <3>2 DEF WeakOne
  <2> QED
    BY <1>1, <1>2, <2>1, RestKeeps
<1>4. CASE WakeClusters
  <2>1. \A w \in todo' : WeakOne(w)
    BY <1>4 DEF WakeClusters, WeakOne
  <2> QED
    BY <1>1, <1>2, <2>1, RestKeeps
<1> QED
  BY <1>3, <1>4

\* The cycle's call for a candidate begins.
LEMMA CandidateKeeps ==
  ASSUME EvolutionInv, NEW w \in todo, NEW s \in Skills, NEW c \in Codes,
         NEW to \in {"write", "staged"}, At(Cycle, "evolving"),
         call' = [call EXCEPT ![Cycle] = [Candidate(s, c) EXCEPT !.pc = to]],
         cur' = w, UNCHANGED <<now, files, scored, todo, late, clash>>,
         stage' = "add"
  PROVE  EvolutionInv'
<1> DEFINE new == [Candidate(s, c) EXCEPT !.pc = to]
<1>1. new \in CallType /\ new.pc = to /\ new.skill = s /\ new.code = c
  BY DEF Candidate, Idle, CallType, PCs
<1>2. Cycle \in Procs /\ call \in [Procs -> CallType] /\ ~Dropping(Cycle)
  BY DEF Procs, EvolutionInv, CallTypes, At, Dropping
<1> HIDE DEF new
<1>3. /\ call' \in [Procs -> CallType] /\ \A q \in Procs \ {Cycle} : call'[q] = call[q]
      /\ call'[Cycle] = new
  BY <1>1, <1>2 DEF new
<1>4. CallOk(Cycle)'
  BY <1>1, <1>3 DEF CallOk, LoadPcs, Resting
<1>5. PlansOk'
  <2>1. \A v \in todo : WeakOne(v)'
    BY WeakStays DEF EvolutionInv, PlansOk
  <2>2. WeakOne(cur)'
    BY <2>1 DEF WeakOne, Ref
  <2> QED
    BY <2>1, <2>2 DEF PlansOk
<1> QED
  BY <1>2, <1>3, <1>4, <1>5, CycleKeeps

\* The model is asked for a better version of the weakest skill.
LEMMA EvolveKeeps == ASSUME EvolutionInv, Evolve PROVE EvolutionInv'
<1>1. PICK w \in todo :
        /\ cur' = w /\ stage' = "add"
        /\ \/ \E c \in Codes : call' = [call EXCEPT ![Cycle] = Candidate(w.skill, c)]
           \/ Goes(Cycle, "report")
  BY DEF Evolve
<1>2. At(Cycle, "evolving") /\ UNCHANGED <<now, files, scored, todo, late, clash>>
  BY DEF Evolve
<1>3. w.skill \in Skills
  BY DEF EvolutionInv, PlansOk, WeakOne
<1>4. CASE Goes(Cycle, "report")
  <2>1. "report" \in Resting /\ ~Dropping(Cycle)
    BY <1>2 DEF Resting, At, Dropping
  <2> QED
    BY <1>2, <1>4, <2>1, RestKeeps DEF EvolutionInv, PlansOk
<1>5. ASSUME NEW c \in Codes, call' = [call EXCEPT ![Cycle] = Candidate(w.skill, c)]
      PROVE  EvolutionInv'
  <2>1. Candidate(w.skill, c) = [Candidate(w.skill, c) EXCEPT !.pc = "write"]
    BY DEF Candidate, Idle
  <2> QED
    BY <1>1, <1>2, <1>3, <1>5, <2>1, CandidateKeeps
<1> QED
  BY <1>1, <1>4, <1>5

\* A skill is made up for a group of failures.
LEMMA SynthesizeKeeps == ASSUME EvolutionInv, Synthesize PROVE EvolutionInv'
<1>0. PICK w \in todo : \E p \in Proposals(w) :
        /\ cur' = w
        /\ call' = [call EXCEPT ![Cycle] = [Candidate(p.skill, p.code) EXCEPT !.pc = "staged"]]
  BY DEF Synthesize
<1>1. PICK p \in Proposals(w) :
        /\ cur' = w
        /\ call' = [call EXCEPT ![Cycle] = [Candidate(p.skill, p.code) EXCEPT !.pc = "staged"]]
  BY <1>0
<1>2. /\ At(Cycle, "evolving") /\ UNCHANGED <<now, files, scored, todo, late, clash>>
      /\ stage' = "add"
  BY DEF Synthesize
<1>3. w.skill \in Skills
  BY DEF EvolutionInv, PlansOk, WeakOne
<1>4. p.skill \in Skills /\ p.code \in Codes
  BY <1>3 DEF Proposals, Answers, Fallback
<1> QED
  BY <1>1, <1>2, <1>4, CandidateKeeps

\* The staged file passes its test, does not, or raises.
LEMMA StageKeeps ==
  ASSUME EvolutionInv, StagePasses \/ StageFails \/ StageRaises PROVE EvolutionInv'
<1>1. /\ call[Cycle].pc = "staged" /\ ~Dropping(Cycle) /\ call[Cycle].pc \notin Resting
      /\ UNCHANGED <<now, files, scored, late, clash>>
  BY DEF StagePasses, StageFails, StageRaises, At, Dropping, Resting
<1>2. Cycle \in Procs
  BY DEF Procs
<1>3. CASE StagePasses
  <2>1. "write" \in PCs /\ Goes(Cycle, "write") /\ UNCHANGED cycleVars
    BY <1>3 DEF StagePasses, PCs
  <2>2. CallOk(Cycle)'
    BY <1>1, <1>2, <2>1, GoesOne DEF EvolutionInv, CallOk, LoadPcs, Resting
  <2> QED
    BY <1>1, <1>2, <2>1, <2>2, GoesKeeps
<1>4. CASE StageFails
  <2>1. "report" \in Resting /\ Goes(Cycle, "report") /\ todo' = todo
    BY <1>4 DEF StageFails, Resting, cycleVars
  <2> QED
    BY <1>1, <2>1, RestKeeps DEF EvolutionInv, PlansOk
<1>5. CASE StageRaises
  <2>1. Onward(todo') \in Resting /\ Goes(Cycle, Onward(todo')) /\ todo' \subseteq todo
    BY <1>5 DEF StageRaises, Resting, Onward
  <2> QED
    BY <1>1, <2>1, RestKeeps DEF EvolutionInv, PlansOk
<1> QED
  BY <1>3, <1>4, <1>5

\* A candidate is judged.  What is put back was enabled and names its file.
LEMMA JudgeKeeps == ASSUME EvolutionInv, Judge PROVE EvolutionInv'
<1> DEFINE s == cur.skill
<1>1. /\ call[Cycle].pc = "test" /\ ~Dropping(Cycle) /\ call[Cycle].pc \notin Resting
      /\ todo' = todo \ {cur} /\ cur' = cur
      /\ UNCHANGED <<now, artifact, handler, failures, scored, stage, late, clash>>
  BY DEF Judge, At, Dropping, Resting
<1>2. PICK to \in Resting : Goes(Cycle, to)
  BY DEF Judge, Audit, Onward, Resting
<1>3. Cycle \in Procs /\ to \in PCs
  BY DEF Procs, PCs, Resting
<1>4. /\ s \in Skills /\ cur.was \in Record /\ cur.was.enabled /\ Ref(s, cur.was)
  BY <1>1, <1>3 DEF EvolutionInv, CallOk, PlansOk, WeakOne
<1>5. \/ record' = record
      \/ \E score \in Scores :
           record' = [record EXCEPT ![s] = [cur.was EXCEPT !.rate = score,
                                                           !.content = call[Cycle].code]]
  BY DEF Judge, Promote, Upsert
<1>6. /\ record' \in [Skills -> Record \union {None}]
      /\ \A t \in Skills \ {s} : record'[t] = record[t]
      /\ \/ record'[s] = record[s]
         \/ record'[s] \in Record /\ record'[s].enabled /\ record'[s] # None
              /\ record'[s].url = cur.was.url /\ record'[s].sum = cur.was.sum
  <2>1. call[Cycle].code \in Codes \union {None}
    BY <1>3 DEF EvolutionInv, CallTypes, CallType
  <2>2. record \in [Skills -> Record \union {None}]
    BY DEF EvolutionInv, FileTypes
  <2>3. ASSUME NEW score \in Scores,
               record' = [record EXCEPT ![s] = [cur.was EXCEPT !.rate = score,
                                                               !.content = call[Cycle].code]]
        PROVE  /\ record'[s] \in Record /\ record'[s].enabled /\ record'[s] # None
               /\ record'[s].url = cur.was.url /\ record'[s].sum = cur.was.sum
               /\ record' \in [Skills -> Record \union {None}]
               /\ \A t \in Skills \ {s} : record'[t] = record[t]
    <3> DEFINE new == [cur.was EXCEPT !.rate = score, !.content = call[Cycle].code]
    <3>1. /\ new \in Record /\ new.enabled /\ new.url = cur.was.url /\ new.sum = cur.was.sum
      BY <1>4, <2>1 DEF Record
    <3>2. new # None
      BY <3>1, NoneAssumption
    <3>3. record' = [record EXCEPT ![s] = new]
      BY <2>3
    <3> HIDE DEF new, s
    <3> QED
      BY <1>4, <2>2, <3>1, <3>2, <3>3
  <2> QED
    BY <1>5, <2>2, <2>3
<1> HIDE DEF s
<1>7. FilesStay /\ \A t \in Skills : Safe(t) => Safe(t)'
  BY <1>1, <1>4, <1>6 DEF FilesStay, Ref, Safe, Enabled
<1>8. FileTypes'
  BY <1>1, <1>6 DEF EvolutionInv, FileTypes
<1>9. RecordsOk'
  BY <1>1, <1>4, <1>6 DEF EvolutionInv, RecordsOk, Ref
<1>10. /\ call' \in [Procs -> CallType] /\ \A q \in Procs \ {Cycle} : call'[q] = call[q]
       /\ call'[Cycle].pc = to
  BY <1>2, <1>3, GoesOne DEF EvolutionInv
<1>11. DisabledIsDown'
  <2>1. \A q \in Procs : Dropping(q) => call'[q] = call[q]
    BY <1>1, <1>10
  <2>2. \A t \in Skills : ~Enabled(t)' => ~Enabled(t)
    BY <1>4, <1>6 DEF Enabled
  <2> QED
    BY <1>1, <2>1, <2>2, DownKept
<1>12. CallsOk'
  <2>1. CallOk(Cycle)'
    BY <1>10 DEF CallOk, LoadPcs, Resting
  <2>2. PlansOk'
    BY <1>1, <1>7, <1>10, PlansKept
  <2>3. ASSUME NEW q \in Procs \ {Cycle} PROVE CallOk(q)'
    BY <1>3, <1>7, <1>10, SafeOthers, CallKept DEF EvolutionInv
  <2> QED
    BY <1>1, <1>10, <2>1, <2>2, <2>3 DEF CallsOk, CallTypes, EvolutionInv
<1> QED
  BY <1>8, <1>9, <1>11, <1>12, Together

\* The test raises, the cycle reports, or its task ends.
LEMMA RestingKeeps ==
  ASSUME EvolutionInv, TestRaises \/ Report \/ Leave PROVE EvolutionInv'
<1>1. ~Dropping(Cycle) /\ UNCHANGED <<now, files, scored, late, clash>>
  BY DEF TestRaises, Report, Leave, At, Dropping
<1>2. CASE TestRaises
  <2>1. "report" \in Resting /\ Goes(Cycle, "report") /\ todo' = todo
    BY <1>2 DEF TestRaises, Resting, cycleVars
  <2> QED
    BY <1>1, <2>1, RestKeeps DEF EvolutionInv, PlansOk
<1>3. CASE Leave
  <2>1. "closed" \in Resting /\ Goes(Cycle, "closed") /\ todo' = todo
    BY <1>3 DEF Leave, Resting, cycleVars
  <2> QED
    BY <1>1, <2>1, RestKeeps DEF EvolutionInv, PlansOk
<1>4. CASE Report
  <2> DEFINE new == [Idle EXCEPT !.pc = "waiting"]
  <2>1. new \in CallType /\ new.pc = "waiting"
    BY DEF Idle, CallType, PCs
  <2>2. call' = [call EXCEPT ![Cycle] = new] /\ todo' = {}
    BY <1>4 DEF Report
  <2> HIDE DEF new
  <2>3. Cycle \in Procs /\ call \in [Procs -> CallType]
    BY DEF Procs, EvolutionInv, CallTypes
  <2>4. /\ call' \in [Procs -> CallType] /\ \A q \in Procs \ {Cycle} : call'[q] = call[q]
        /\ call'[Cycle].pc = "waiting"
    BY <2>1, <2>2, <2>3
  <2>5. CallOk(Cycle)' /\ PlansOk'
    BY <2>2, <2>4 DEF CallOk, PlansOk, LoadPcs, Resting
  <2> QED
    BY <1>1, <2>4, <2>5, CycleKeeps
<1> QED
  BY <1>2, <1>3, <1>4

\* Closing, the clock, and steps of nobody.
LEMMA OutsideKeeps ==
  ASSUME EvolutionInv, Close \/ Second \/ UNCHANGED vars PROVE EvolutionInv'
<1>1. /\ UNCHANGED <<files, call, scored, cycleVars, late, clash>>
      /\ now' \in Times
  BY EvolutionAssumption DEF Close, Second, vars, EvolutionInv, FileTypes, Times
<1>2. ASSUME NEW w, WeakOne(w) PROVE WeakOne(w)'
  BY <1>1, <1>2, WeakStays
<1>3. FilesStay
  BY <1>1, UntouchedStay DEF files
<1>4. FileTypes' /\ RecordsOk' /\ DisabledIsDown'
  BY <1>1 DEF EvolutionInv, FileTypes, RecordsOk, DisabledIsDown, Ref, Enabled, files
<1>5. CallTypes' /\ PlansOk'
  BY <1>1, <1>2 DEF EvolutionInv, CallTypes, PlansOk, WeakOne, Ref, files, cycleVars
<1>6. ASSUME NEW q \in Procs PROVE CallOk(q)'
  BY <1>1 DEF EvolutionInv, CallOk, Safe, Enabled, Ref, files, cycleVars
<1> QED
  BY <1>4, <1>5, <1>6 DEF EvolutionInv
-----------------------------------------------------------------------------
\* At first there are no records, files or plans.
LEMMA FirstEvolution == Init => EvolutionInv
<1> SUFFICES ASSUME Init PROVE EvolutionInv
  OBVIOUS
<1>1. FileTypes
  <2>1. 0 \in Times /\ 0 \in 0..Trip
    BY EvolutionAssumption DEF Times
  <2> QED
    BY <2>1 DEF Init, FileTypes
<1>2. /\ CallTypes /\ \A p \in Procs : call[p].pc \in {"idle", "waiting"}
  <2>1. Idle \in CallType /\ Idle.pc = "idle"
    BY DEF Idle, CallType, PCs
  <2>2. [Idle EXCEPT !.pc = "waiting"] \in CallType
        /\ [Idle EXCEPT !.pc = "waiting"].pc = "waiting"
    BY DEF Idle, CallType, PCs
  <2> QED
    BY <2>1, <2>2 DEF Init, CallTypes
<1>3. \A p \in Procs : CallOk(p)
  BY <1>2 DEF CallOk, LoadPcs, Resting
<1>4. PlansOk
  BY <1>2 DEF Init, PlansOk, Procs, Resting
<1>5. RecordsOk /\ DisabledIsDown
  BY DEF Init, RecordsOk, DisabledIsDown
<1> QED
  BY <1>1, <1>2, <1>3, <1>4, <1>5 DEF EvolutionInv

\* The invariant.
LEMMA EvolutionInvariance == Spec => []EvolutionInv
<1>1. EvolutionInv /\ [Next]_vars => EvolutionInv'
  <2> SUFFICES ASSUME EvolutionInv, [Next]_vars PROVE EvolutionInv'
    OBVIOUS
  <2>1. ASSUME NEW u \in Agents, NEW s \in Skills,
               (\E c \in Codes : Add(u, s, c)) \/ Use(u, s) \/ Rollback(u, s)
        PROVE  EvolutionInv'
    BY <2>1, BeginKeeps
  <2>2. ASSUME NEW u \in Agents, Step(u) PROVE EvolutionInv'
    BY <2>2, StepKeeps DEF Procs
  <2>3. CASE WakeScored \/ WakeClusters
    BY <2>3, WakeKeeps
  <2>4. CASE CycleStep
    <3>1. Cycle \in Procs
      BY DEF Procs
    <3> QED
      BY <2>4, <3>1, StepKeeps, EvolveKeeps, JudgeKeeps, SynthesizeKeeps, StageKeeps, RestingKeeps
         DEF CycleStep
  <2>5. CASE Close \/ Second \/ UNCHANGED vars
    BY <2>5, OutsideKeeps
  <2> QED
    BY <2>1, <2>2, <2>3, <2>4, <2>5 DEF Next
<1> QED
  BY <1>1, FirstEvolution, PTL DEF Spec

\* For any number of agents, skills and cycles: a disabled skill is not served,
\* except while its handler is being dropped, or by a load that had begun.
THEOREM DisabledIsNotServed == Spec => []DisabledIsDown
<1>1. EvolutionInv => DisabledIsDown
  BY DEF EvolutionInv
<1> QED
  BY <1>1, EvolutionInvariance, PTL

\* An enabled record's file is there with the record's checksum, whatever the
\* cycle has put back, unless two contents were stored in one second.
THEOREM EnabledHasItsFile == Spec => []EnabledCanLoad
<1>1. EvolutionInv => EnabledCanLoad
  BY DEF EvolutionInv, RecordsOk, EnabledCanLoad, Enabled, Ref
<1> QED
  BY <1>1, EvolutionInvariance, PTL

\* Files, records, handlers and counters keep their types.
THEOREM EvolutionTypes == Spec => []TypeOK
<1>1. EvolutionInv => TypeOK
  BY DEF EvolutionInv, FileTypes, TypeOK
<1> QED
  BY <1>1, EvolutionInvariance, PTL
=============================================================================

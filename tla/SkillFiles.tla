----------------------------- MODULE SkillFiles -----------------------------
(* Skills stored as files: the skills directory with its manifest and its    *)
(* archive, the snapshots of the whole directory, the journal that names the *)
(* snapshot of each deployment, and the handlers that the tool registry      *)
(* serves.  Calls of add_skill and rollback_skill and failing skills run     *)
(* concurrently: their file work happens in threads, so each of its parts is *)
(* a step.                                                                   *)
EXTENDS Naturals, Sequences, FiniteSetsExt, SequencesExt

CONSTANTS
  Skills,        \* slugs of skills
  Codes,         \* contents a skill file can have
  Broken,        \* contents that compile but raise when they are imported
  Calls,         \* tool calls that may run at the same time
  None,
  KeepVersions,  \* versions kept in a manifest record (10 in the code)
  Trip,          \* errors within an hour that trigger a rollback (3)
  MaxCalls,      \* bound: calls started
  MaxClock       \* bound: seconds, the resolution of archive and snapshot names

ASSUME FilesAssumption ==
  /\ Broken \subseteq Codes /\ None \notin Codes
  /\ KeepVersions \in Nat \ {0} /\ Trip \in Nat \ {0}
  /\ MaxCalls \in Nat /\ MaxClock \in Nat

Times   == 0..MaxClock
Current == MaxClock + 1      \* a version entry that names the skill's own file
Latest  == MaxClock + 1      \* rollback_skill without a version

\* What a manifest holds, and what a zip file holds of the directory.
Records  == [Skills -> Seq(Times \union {Current}) \union {None}]
Contents == Codes \union {None}
Zipfile  == [file : [Skills -> Contents], archive : [Skills -> [Times -> Contents]],
             manifest : Records]

ASSUME NoneAssumption ==
  None \notin Times /\ None \notin Seq(Times \union {Current}) /\ None \notin Zipfile

VARIABLES
  now,
  file,       \* <slug>.py in the skills directory
  archive,    \* archive/<slug>/<second>.py
  manifest,   \* versions of each skill's record, None without one
  snaps,      \* zip files of the backup directory, by second
  journal,    \* snapshot named by the skill's last deployment that had one
  handler,    \* the registry's handler, as the code it was imported from
  errors,     \* errors of the last hour, up to Trip
  call,       \* the state of each running call
  started,
  apart       \* history: skills whose file and handler a named fault separated

dir      == <<file, archive, manifest>>
store    == <<snaps, journal>>
filesVars == <<now, dir, store, handler, errors, call, started, apart>>

Phases == {"idle", "snapshot", "archive", "write", "install", "record", "writing",
           "restore", "reinstall", "clear", "unpack", "reload"}
Call   == [phase : Phases, kind : {None, "add", "rollback", "guard"},
           skill : Skills \union {None}, code : Codes \union Times \union {Latest, None},
           tries : 0..2, snap : Times \union {None}, old : Times \union {None},
           copy : Records \union {None}, alone : BOOLEAN]

\* The variables keep their types.
FilesTypeOK ==
  /\ now \in Times
  /\ file \in [Skills -> Contents]
  /\ archive \in [Skills -> [Times -> Contents]]
  /\ manifest \in Records
  /\ snaps \in [Times -> Zipfile \union {None}] /\ journal \in [Skills -> Times \union {None}]
  /\ handler \in [Skills -> (Codes \ Broken) \union {None}]
  /\ errors \in [Skills -> 0..Trip]
  /\ call \in [Calls -> Call]
  /\ started \in Nat /\ apart \subseteq Skills

\* An attempt at a call, with nothing done yet.
Attempt(phase, kind, skill, code, tries) ==
  [phase |-> phase, kind |-> kind, skill |-> skill, code |-> code, tries |-> tries,
   snap |-> None, old |-> None, copy |-> None, alone |-> TRUE]

Idle == Attempt("idle", None, None, None, 0)

NoRecords == [s \in Skills |-> None]
Emptied   == [s \in Skills |-> [t \in Times |-> None]]

FilesInit ==
  /\ now = 0
  /\ file = [s \in Skills |-> None] /\ archive = Emptied /\ manifest = NoRecords
  /\ snaps = [t \in Times |-> None] /\ journal = [s \in Skills |-> None]
  /\ handler = [s \in Skills |-> None] /\ errors = [s \in Skills |-> 0]
  /\ call = [o \in Calls |-> Idle] /\ started = 0 /\ apart = {}

Phase(o) == call[o].phase
Becomes(o, c) == call' = [call EXCEPT ![o] = c]
To(o, p) == Becomes(o, [call[o] EXCEPT !.phase = p])
Imports(c) == c \in Codes \ Broken

\* While a manifest is rewritten it is empty or cut short: no JSON, no records.
Torn     == \E o \in Calls : Phase(o) = "writing"
Readable == IF Torn THEN {manifest, NoRecords} ELSE {manifest}

\* What reading the manifest anew serves.
Loadable(records) ==
  [s \in Skills |-> IF records[s] # None /\ Imports(file[s]) THEN file[s] ELSE None]

\* Calls that overlap know of it (history).
Begin(o, first) ==
  call' = [p \in Calls |->
             IF p = o THEN [first EXCEPT !.alone = \A q \in Calls \ {o} : Phase(q) = "idle"]
             ELSE IF Phase(p) = "idle" THEN Idle ELSE [call[p] EXCEPT !.alone = FALSE]]

\* An exception in a tool call: the registry calls the handler once more.
Raised(o) ==
  IF call[o].tries = 1
  THEN LET first == IF call[o].kind = "add" THEN "snapshot" ELSE "restore"
       IN [Attempt(first, call[o].kind, call[o].skill, call[o].code, 2)
             EXCEPT !.alone = call[o].alone]
  ELSE Idle
Raises(o) == Becomes(o, Raised(o))
-----------------------------------------------------------------------------
(* add_skill *)

Add(o, s, c) ==
  /\ Phase(o) = "idle" /\ started < MaxCalls
  /\ Begin(o, Attempt("snapshot", "add", s, c, 1))
  /\ started' = started + 1
  /\ UNCHANGED <<now, dir, store, handler, errors, apart>>

\* Fault: the second attempt takes the file of the first for archived.
SnapshotThenWrite(o) ==
  /\ Phase(o) = "snapshot"
  /\ snaps' = [snaps EXCEPT ![now] = [file |-> file, archive |-> archive,
                                      manifest |-> manifest]]
  /\ Becomes(o, [call[o] EXCEPT !.snap = now,
                                !.phase = IF file[call[o].skill] # None /\ call[o].tries = 1
                                          THEN "archive" ELSE "write"])
  /\ UNCHANGED <<now, dir, journal, handler, errors, started, apart>>

\* A second snapshot of the same second replaces the first.
Zipped(read) == [snaps EXCEPT ![now] = [file |-> file, archive |-> archive, manifest |-> read]]

\* A failing one is only logged.  Whether there is a file to archive is decided
\* on return.
Snapshot(o) ==
  /\ Phase(o) = "snapshot"
  /\ \E ok \in BOOLEAN, read \in Readable :
       /\ snaps' = IF ok THEN Zipped(read) ELSE snaps
       /\ Becomes(o, [call[o] EXCEPT !.snap = IF ok THEN now ELSE None,
                                     !.phase = IF file[call[o].skill] # None
                                               THEN "archive" ELSE "write"])
  /\ UNCHANGED <<now, dir, journal, handler, errors, started, apart>>

Archive(o) ==
  LET s == call[o].skill IN
  /\ Phase(o) = "archive"
  /\ IF file[s] # None
     THEN /\ archive' = [archive EXCEPT ![s][now] = file[s]]
          /\ Becomes(o, [call[o] EXCEPT !.old = now, !.phase = "write"])
     ELSE Raises(o) /\ UNCHANGED archive
  /\ UNCHANGED <<now, file, manifest, store, handler, errors, started, apart>>

WriteFile(o) ==
  /\ Phase(o) = "write"
  /\ file' = [file EXCEPT ![call[o].skill] = call[o].code]
  /\ To(o, "install")
  /\ UNCHANGED <<now, archive, manifest, store, handler, errors, started, apart>>

\* The import reads the path again, whatever is there by now.
Register(o, s) ==
  IF Imports(file[s])
  THEN handler' = [handler EXCEPT ![s] = file[s]] /\ apart' = apart \ {s}
  ELSE UNCHANGED handler /\ apart' = apart \union {s}

\* The deployment is in the journal before the import can raise.
Install(o) ==
  LET s == call[o].skill IN
  /\ Phase(o) = "install"
  /\ journal' = IF call[o].snap = None THEN journal
                ELSE [journal EXCEPT ![s] = call[o].snap]
  /\ Register(o, s)
  /\ IF Imports(file[s]) THEN To(o, "record") ELSE Raises(o)
  /\ UNCHANGED <<now, dir, snaps, errors, started>>

Truncated(versions) ==
  SubSeq(versions, 1 + Max({0, Len(versions) - KeepVersions}), Len(versions))

\* The deployed version and the one it replaced join a record.
Added(o, versions) ==
  LET self == IF file[call[o].skill] # None THEN <<Current>> ELSE <<>>
      prev == IF call[o].old # None THEN <<call[o].old>> ELSE <<>>
  IN Truncated((IF versions = None THEN <<>> ELSE versions) \o self \o prev)

\* The whole manifest is read, changed and, in a later step, written.
Record(o) ==
  /\ Phase(o) = "record"
  /\ \E read \in Readable :
       Becomes(o, [call[o] EXCEPT !.phase = "writing",
                                  !.copy = [read EXCEPT ![call[o].skill] = Added(o, @)]])
  /\ UNCHANGED <<now, dir, store, handler, errors, started, apart>>

\* Other skills' records that the copy does not have are lost.
Forgotten(o) == {s \in Skills \ {call[o].skill} : manifest[s] # call[o].copy[s]}

WriteManifest(o) ==
  /\ Phase(o) = "writing"
  /\ manifest' = call[o].copy
  /\ apart' = apart \union Forgotten(o)
  /\ Becomes(o, Idle)
  /\ UNCHANGED <<now, file, archive, store, handler, errors, started>>
-----------------------------------------------------------------------------
(* rollback_skill *)

Rollback(o, s, v) ==
  /\ Phase(o) = "idle" /\ started < MaxCalls
  /\ Begin(o, Attempt("restore", "rollback", s, v, 1))
  /\ started' = started + 1
  /\ UNCHANGED <<now, dir, store, handler, errors, apart>>

Exists(s, v) == IF v = Current THEN file[s] # None ELSE archive[s][v] # None

\* The requested version if the record has it, else the last one that exists.
Chosen(s, versions, v) ==
  IF (v = Latest \/ Contains(versions, v)) /\ Exists(s, v) THEN v
  ELSE LET there == {i \in DOMAIN versions : Exists(s, versions[i])}
       IN IF there = {} THEN None ELSE versions[Max(there)]

\* Copying the skill's file onto itself raises, so the latest version of a
\* skill whose file exists cannot be restored.
Restore(o) ==
  LET s == call[o].skill
      From(versions) == IF versions = None THEN None ELSE Chosen(s, versions, call[o].code)
  IN /\ Phase(o) = "restore"
     /\ \E read \in Readable :
          IF From(read[s]) \in {None, Current}
          THEN Raises(o) /\ UNCHANGED file
          ELSE /\ file' = [file EXCEPT ![s] = archive[s][From(read[s])]]
               /\ Becomes(o, [call[o] EXCEPT !.phase = "reinstall", !.copy = read])
     /\ UNCHANGED <<now, archive, manifest, store, handler, errors, started, apart>>

Reinstall(o) ==
  LET s == call[o].skill IN
  /\ Phase(o) = "reinstall"
  /\ Register(o, s)
  /\ IF Imports(file[s]) THEN To(o, "writing") ELSE Raises(o)
  /\ UNCHANGED <<now, dir, store, errors, started>>
-----------------------------------------------------------------------------
(* A skill fails: the guard counts, and may put a snapshot back. *)

\* The snapshot of the skill's last deployment, else the youngest there is.
Target(s) ==
  IF journal[s] # None THEN journal[s]
  ELSE LET there == {t \in Times : snaps[t] # None}
       IN IF there = {} THEN None ELSE Max(there)

\* Both attempts raised.  Errors older than an hour have left the count.
Fail(o, s) ==
  /\ Phase(o) = "idle" /\ started < MaxCalls
  /\ handler[s] # None
  /\ \E n \in 1..errors[s] + 1 :
       /\ errors' = [errors EXCEPT ![s] = Min({n, Trip})]
       /\ IF n >= Trip /\ Target(s) # None
          THEN Begin(o, [Attempt("clear", "guard", s, None, 0) EXCEPT !.snap = Target(s)])
          ELSE UNCHANGED call
  /\ started' = started + 1
  /\ UNCHANGED <<now, dir, store, handler, apart>>

\* The directory is emptied before the archive is unpacked.
Clear(o) ==
  /\ Phase(o) = "clear"
  /\ file' = [s \in Skills |-> None] /\ archive' = Emptied /\ manifest' = NoRecords
  /\ To(o, "unpack")
  /\ UNCHANGED <<now, store, handler, errors, started, apart>>

\* Unpacking leaves files that are not in the archive alone.  When it raises,
\* the directory stays without them and nothing is reloaded.
Over(new, old) == IF new # None THEN new ELSE old
Unpack(o) ==
  LET kept == snaps[call[o].snap] IN
  /\ Phase(o) = "unpack"
  /\ \/ /\ file' = [s \in Skills |-> Over(kept.file[s], file[s])]
        /\ archive' = [s \in Skills |->
                         [t \in Times |-> Over(kept.archive[s][t], archive[s][t])]]
        /\ manifest' = kept.manifest
        /\ errors' = [errors EXCEPT ![call[o].skill] = 0]
        /\ To(o, "reload")
        /\ UNCHANGED apart
     \/ /\ Becomes(o, Idle)
        /\ apart' = Skills
        /\ UNCHANGED <<dir, errors>>
  /\ UNCHANGED <<now, store, handler, started>>

\* Fault: the handlers of before the rollback go on.
ReloadForgotten(o) ==
  /\ Phase(o) = "reload"
  /\ Becomes(o, Idle)
  /\ UNCHANGED <<now, dir, store, handler, errors, started, apart>>

\* Everything that is not built in is dropped and read anew.  A skill whose
\* deployment is between its file and its manifest entry is dropped too.
Reload(o) ==
  /\ Phase(o) = "reload"
  /\ \E read \in Readable : handler' = Loadable(read)
  /\ Becomes(o, Idle)
  /\ apart' = {call[p].skill : p \in {q \in Calls \ {o} :
                 Phase(q) \in {"install", "record", "reinstall"}}}
             \union (IF Torn THEN Skills ELSE {})
  /\ UNCHANGED <<now, dir, store, errors, started>>
-----------------------------------------------------------------------------
\* The process ends anywhere and starts again from the directory.
Restart ==
  /\ started < MaxCalls
  /\ started' = started + 1
  /\ \E read \in Readable : manifest' = read /\ handler' = Loadable(read)
  /\ errors' = [s \in Skills |-> 0]
  /\ call' = [o \in Calls |-> Idle]
  /\ apart' = {}
  /\ UNCHANGED <<now, file, archive, store>>

Second == now < MaxClock /\ now' = now + 1
          /\ UNCHANGED <<dir, store, handler, errors, call, started, apart>>

FilesNext ==
  \/ \E o \in Calls :
       \/ \E s \in Skills : \/ \E c \in Codes : Add(o, s, c)
                            \/ \E v \in Times \union {Latest} : Rollback(o, s, v)
                            \/ Fail(o, s)
       \/ Snapshot(o) \/ Archive(o) \/ WriteFile(o) \/ Install(o) \/ Record(o)
       \/ WriteManifest(o) \/ Restore(o) \/ Reinstall(o)
       \/ Clear(o) \/ Unpack(o) \/ Reload(o)
  \/ Restart \/ Second

FilesSpec == FilesInit /\ [][FilesNext]_filesVars
-----------------------------------------------------------------------------
(* Properties *)

\* When no call is running, the registry serves what a restart would serve,
\* but for the skills that a named fault has separated from their files: an
\* import that raised after its file was written, a manifest written over from
\* a stale copy, a snapshot that could not be unpacked, a reload in the middle
\* of a deployment.
ServedAsOnDisk ==
  (\A o \in Calls : Phase(o) = "idle") =>
    \A s \in Skills : handler[s] = Loadable(manifest)[s] \/ s \in apart

\* A deployment that no other call overlaps has the file it overwrites in the
\* archive: also when it is the second attempt, after a failed import.
OverwritesTheArchived ==
  [][\A o \in Calls : LET s == call[o].skill IN
       Phase(o) = "write" /\ Phase(o)' = "install" /\ call[o].alone /\ file[s] # None
         => \E t \in Times : archive[s][t] = file[s]]_filesVars
-----------------------------------------------------------------------------
(* The inductive invariants *)

\* What a call carries from one part of its work to the next.
CallOk(o) ==
  /\ Phase(o) # "idle" => call[o].skill \in Skills
  /\ Phase(o) \in {"snapshot", "archive", "write", "install", "record"} => call[o].kind = "add"
  /\ Phase(o) \in {"restore", "reinstall"} => call[o].kind = "rollback"
  /\ Phase(o) \in {"clear", "unpack"} => call[o].snap # None
  /\ Phase(o) # "idle" /\ call[o].kind = "add" => call[o].code \in Codes
  /\ Phase(o) # "idle" /\ call[o].kind = "rollback" => call[o].code \in Times \union {Latest}
  /\ call[o].snap # None => snaps[call[o].snap] # None
  /\ Phase(o) \in {"writing", "reinstall"} =>
       call[o].copy \in Records /\ call[o].copy[call[o].skill] # None

\* What is named is there.
NamesOk ==
  /\ \A o \in Calls : CallOk(o)
  /\ \A s \in Skills : journal[s] # None => snaps[journal[s]] # None

At(o, s, phases) == call[o].skill = s /\ Phase(o) \in phases

\* Something is under way, or has gone wrong, between a skill's file and its
\* handler.
Unsettled(s) ==
  \/ s \in apart
  \/ \E o \in Calls : Phase(o) \in {"unpack", "reload"} \/ At(o, s, {"install", "reinstall"})

\* The registry has a skill's handler from its file before the manifest names
\* it, and serves what the manifest has when no deployment is on its way there.
HandlerOk(s) ==
  IF \E o \in Calls : At(o, s, {"record", "writing"})
  THEN Imports(file[s]) /\ handler[s] = file[s]
  ELSE handler[s] = Loadable(manifest)[s]

HandlersOk == \A s \in Skills : Unsettled(s) \/ HandlerOk(s)

\* A call that is alone is the only one, and has archived what it overwrites.
AloneOk ==
  \A o \in Calls : Phase(o) # "idle" /\ call[o].alone =>
    /\ \A q \in Calls \ {o} : Phase(q) = "idle"
    /\ Phase(o) = "write" /\ file[call[o].skill] # None =>
         \E t \in Times : archive[call[o].skill][t] = file[call[o].skill]

FilesInv == FilesTypeOK /\ NamesOk /\ HandlersOk /\ AloneOk
=============================================================================

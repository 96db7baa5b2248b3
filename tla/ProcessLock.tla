----------------------------- MODULE ProcessLock -----------------------------
(***************************************************************************)
(* The lock file that keeps a second main.py, supervisor or bridge from    *)
(* starting, utils/process_lock.py, step by step: between two steps of one *)
(* process any other may run, and a process may die at any step and leave  *)
(* the file as it is. The file is made empty by open(O_EXCL) and filled by *)
(* a later write; whoever finds it reads the pid, and then asks the system *)
(* whether such a process exists, by when the file may be another.         *)
(***************************************************************************)
EXTENDS Naturals

CONSTANTS
  Procs,      \* places for processes that take the lock
  Pids,       \* process ids, given out again when free
  None,       \* no file, no pid, no process
  MaxStarts   \* bound: starts of processes

ASSUME LockAssumption ==
  /\ None \notin Procs /\ None \notin Pids
  /\ None \notin [by : Procs, pid : Pids \cup {None}]
  /\ MaxStarts \in Nat

VARIABLES
  pc,      \* where each process is
  pid,     \* its process id
  found,   \* the pid it has read in the file and not judged yet
  file,    \* the lock file: who made it, and the pid in it if written yet
  starts   \* starts so far

lockVars == <<pc, pid, found, file, starts>>

-----------------------------------------------------------------------------
Pc == {"off", "open", "read", "judge", "remove", "write", "owner", "refused",
       "release", "unlink", "leaving"}

\* A file is told from another by its maker: a process has made at most one
\* that it has not written yet.
File == [by : Procs, pid : Pids \cup {None}]

\* Shape of every variable.
LockTypeOK ==
  /\ pc \in [Procs -> Pc]
  /\ pid \in [Procs -> Pids \cup {None}]
  /\ found \in [Procs -> Pids \cup {None}]
  /\ file \in File \cup {None}
  /\ starts \in Nat

Running(p) == pc[p] # "off"

\* psutil.pid_exists: also true of the asking process itself. Foreign processes
\* and children nobody has waited for yet are left out.
PidExists(n) == \E p \in Procs : Running(p) /\ pid[p] = n

\* _read_holder has a holder only if the file is there and is not empty.
HasHolder == file # None /\ file.pid # None

Goes(p, where) == pc' = [pc EXCEPT ![p] = where]

-----------------------------------------------------------------------------
\* A process starts, with an id no running process has.
Start(p, n) ==
  /\ starts < MaxStarts
  /\ starts' = starts + 1
  /\ ~Running(p)
  /\ ~PidExists(n)
  /\ Goes(p, "open")
  /\ pid' = [pid EXCEPT ![p] = n]
  /\ UNCHANGED <<found, file>>

\* os.open makes an empty file.
Create(p) ==
  /\ pc[p] = "open"
  /\ file = None
  /\ file' = [by |-> p, pid |-> None]
  /\ Goes(p, "write")
  /\ UNCHANGED <<pid, found, starts>>

\* FileExistsError.
Found(p) ==
  /\ pc[p] = "open"
  /\ file # None
  /\ Goes(p, "read")
  /\ UNCHANGED <<pid, found, file, starts>>

\* _read_holder: without a holder the lock counts as stale at once.
ReadHolder(p) ==
  /\ pc[p] = "read"
  /\ IF HasHolder
     THEN Goes(p, "judge") /\ found' = [found EXCEPT ![p] = file.pid]
     ELSE Goes(p, "remove") /\ UNCHANGED found
  /\ UNCHANGED <<pid, file, starts>>

\* Fault: a holder is taken for dead without asking.
StaleAnyHolder(p) == TRUE

\* The holder that was read is not running now.
Stale(p) == ~PidExists(found[p])

\* ProcessLockHeldError, or the lock is to be removed.
Judge(p) ==
  /\ pc[p] = "judge"
  /\ Goes(p, IF Stale(p) THEN "remove" ELSE "refused")
  /\ found' = [found EXCEPT ![p] = None]
  /\ UNCHANGED <<pid, file, starts>>

\* Fault: a lock that cannot be removed is tried again and again.
RemoveInVain(p) ==
  /\ pc[p] = "remove"
  /\ Goes(p, "open")
  /\ UNCHANGED <<pid, found, file, starts>>

\* _remove_stale_lock: whatever file is there by now goes.
RemoveStale(p) ==
  /\ pc[p] = "remove"
  /\ file' = None
  /\ Goes(p, "open")
  /\ UNCHANGED <<pid, found, starts>>

\* os.write: into the file it made, which another may have removed.
WritePid(p) ==
  /\ pc[p] = "write"
  /\ file' = IF file # None /\ file.by = p THEN [file EXCEPT !.pid = pid[p]] ELSE file
  /\ Goes(p, "owner")
  /\ UNCHANGED <<pid, found, starts>>

Exits(p) ==
  /\ Goes(p, "off")
  /\ pid' = [pid EXCEPT ![p] = None]
  /\ found' = [found EXCEPT ![p] = None]
  /\ UNCHANGED <<file, starts>>

\* main and the supervisor exit with status 1 when they are refused.
Refused(p) == pc[p] = "refused" /\ Exits(p)

\* The owner has ended its work and comes to release.
Ends(p) ==
  /\ pc[p] = "owner"
  /\ Goes(p, "release")
  /\ UNCHANGED <<pid, found, file, starts>>

\* release: the file is removed if it has no holder or this one.
ReleaseRead(p) ==
  /\ pc[p] = "release"
  /\ Goes(p, IF HasHolder => file.pid = pid[p] THEN "unlink" ELSE "leaving")
  /\ UNCHANGED <<pid, found, file, starts>>

Unlink(p) ==
  /\ pc[p] = "unlink"
  /\ file' = None
  /\ Goes(p, "leaving")
  /\ UNCHANGED <<pid, found, starts>>

Leaves(p) == pc[p] = "leaving" /\ Exits(p)

\* The process dies where it is: a crash, SIGKILL, or an exception before
\* main's try block.
Dies(p) == Running(p) /\ Exits(p)

-----------------------------------------------------------------------------
LockInit ==
  /\ pc = [p \in Procs |-> "off"]
  /\ pid = [p \in Procs |-> None]
  /\ found = [p \in Procs |-> None]
  /\ file = None
  /\ starts = 0

\* The steps a started process takes without anything happening to it.
Acquires(p) ==
  \/ Create(p) \/ Found(p) \/ ReadHolder(p) \/ Judge(p)
  \/ RemoveStale(p) \/ WritePid(p) \/ Refused(p)

Releases(p) == ReleaseRead(p) \/ Unlink(p) \/ Leaves(p)

LockStep(p) == Acquires(p) \/ Ends(p) \/ Releases(p) \/ Dies(p)

LockNext == \E p \in Procs : LockStep(p) \/ \E n \in Pids : Start(p, n)

LockSpec == LockInit /\ [][LockNext]_lockVars

-----------------------------------------------------------------------------
Owners == {p \in Procs : pc[p] = "owner"}

\* docs/SECURITY.md:66 "now use lock files under data/locks/ to prevent
\* duplicate runtime instances": two processes never own one lock.
MutualExclusion == \A p, q \in Owners : p = q

\* docs/TROUBLESHOOTING.md:43 gives as the cause of a refusal that an instance
\* "tried to start while a lock was already held": some other process has it.
RefusedOnlyWhenHeld ==
  [][\A p \in Procs :
       pc[p] = "judge" /\ pc'[p] = "refused" => \E q \in Procs \ {p} : Running(q)]_lockVars

\* p owns the lock, its pid is in the file, and nobody who looked at the lock
\* before that is still about to make, fill or remove a file, or to judge a pid
\* that it read in an earlier one.
Settled(p) ==
  /\ pc[p] = "owner"
  /\ file = [by |-> p, pid |-> pid[p]]
  /\ \A q \in Procs \ {p} :
       /\ pc[q] \notin {"remove", "write", "owner", "unlink"}
       /\ pc[q] = "judge" => found[q] = pid[p]

\* The lock keeps what it promises once it has been won: whoever comes later,
\* however many, is refused, and nobody else owns the lock, until the owner
\* itself ends or dies.
SettledStays ==
  [][\A p \in Procs : Settled(p) /\ pc'[p] = "owner" /\ pid'[p] = pid[p]
                      => Settled(p)']_lockVars
=============================================================================

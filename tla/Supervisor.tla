------------------------------ MODULE Supervisor ------------------------------
(***************************************************************************)
(* The watchdog, supervisor.py, over the processes of ProcessLock: it      *)
(* starts main.py, notices its end, ends it when it uses too much memory - *)
(* by request, by SIGTERM and by SIGKILL, each when the one before had no  *)
(* effect - and starts it again after a pause, up to a number of times in  *)
(* a row. Other copies of main.py are started by hand. The supervisor      *)
(* itself can be stopped, which leaves its child running.                  *)
(***************************************************************************)
EXTENDS ProcessLock, Sequences

CONSTANTS
  MaxAttempts,    \* MAX_RESTART_ATTEMPTS
  MaxSupervisors  \* bound: starts of the supervisor

ASSUME SupervisorAssumption ==
  MaxAttempts \in Nat \ {0} /\ MaxSupervisors \in Nat

VARIABLES
  watch,    \* where monitor_lisa is
  child,    \* the process it started, until it has noticed the end of it
  attempts, \* restart_attempts
  stable,   \* the child has run for more than 60 s
  terms,    \* starts of the supervisor
  outcomes  \* history: how the children of this supervisor ended

watchVars == <<watch, child, attempts, stable, terms, outcomes>>
vars == <<lockVars, watchVars>>

Outcomes == {"early", "stable", "limit"}

\* Shape of every variable.
TypeOK ==
  /\ LockTypeOK
  /\ watch \in {"down", "loop", "watching", "asking", "waiting", "terminating",
                "backoff", "gaveUp"}
  /\ child \in Procs \cup {None}
  /\ attempts \in 0..MaxAttempts
  /\ stable \in BOOLEAN
  /\ terms \in Nat
  /\ outcomes \in Seq(Outcomes)

-----------------------------------------------------------------------------
\* Another copy is started by hand. Until the supervisor has waited for its
\* child, the place of the child stays taken.
StartByHand(p, n) == p # child /\ Start(p, n) /\ UNCHANGED watchVars

\* The bounds leave no room for another process.
NoRoom == starts = MaxStarts \/ \A p \in Procs : Running(p)

ProcessStep(p) == LockStep(p) /\ UNCHANGED watchVars

StartSupervisor ==
  /\ watch = "down"
  /\ terms < MaxSupervisors
  /\ terms' = terms + 1
  /\ watch' = "loop"
  /\ UNCHANGED <<lockVars, child, attempts, stable, outcomes>>

MayRestart == attempts < MaxAttempts

Spawn(p, n) ==
  /\ watch = "loop"
  /\ MayRestart
  /\ Start(p, n)
  /\ watch' = "watching"
  /\ child' = p
  /\ attempts' = attempts + 1
  /\ stable' = FALSE
  /\ UNCHANGED <<terms, outcomes>>

GiveUp ==
  /\ watch = "loop"
  /\ ~MayRestart
  /\ watch' = "gaveUp"
  /\ UNCHANGED <<lockVars, child, attempts, stable, terms, outcomes>>

\* More than 60 s pass.
Matures ==
  /\ watch = "watching" /\ ~stable
  /\ pc[child] = "owner"
  /\ stable' = TRUE
  /\ UNCHANGED <<lockVars, watch, child, attempts, terms, outcomes>>

\* Fault: the counter is not reset.
AttemptsAfterAny == attempts

\* restart_attempts after the end of a child that was not asked to end.
AttemptsAfter == IF stable THEN 0 ELSE attempts

Collected(outcome) ==
  /\ watch' = "backoff"
  /\ child' = None
  /\ outcomes' = Append(outcomes, outcome)
  /\ stable' = FALSE

\* poll() has a result.
NoticeExit ==
  /\ watch = "watching" /\ ~Running(child)
  /\ Collected(IF stable THEN "stable" ELSE "early")
  /\ attempts' = AttemptsAfter
  /\ UNCHANGED <<lockVars, terms>>

\* More memory than RSS_LIMIT_MB: graceful_shutdown posts to /shutdown.
OverLimit ==
  /\ watch = "watching" /\ Running(child)
  /\ watch' = "asking"
  /\ UNCHANGED <<lockVars, child, attempts, stable, terms, outcomes>>

\* Status 200, and up to ten polls; or any other answer, or none.
Asked ==
  /\ watch = "asking"
  /\ watch' \in {"waiting", "terminating"}
  /\ UNCHANGED <<lockVars, child, attempts, stable, terms, outcomes>>

NotGone ==
  /\ watch = "waiting" /\ Running(child)
  /\ watch' = "terminating"
  /\ UNCHANGED <<lockVars, child, attempts, stable, terms, outcomes>>

Gone ==
  /\ watch \in {"waiting", "terminating"} /\ ~Running(child)
  /\ Collected("limit")
  /\ UNCHANGED <<lockVars, attempts, terms>>

\* Fault: the child is waited for after SIGTERM until it has gone.
KillNever == FALSE /\ UNCHANGED vars

\* SIGTERM had no effect within ten seconds.
KillChild ==
  /\ watch = "terminating" /\ Running(child)
  /\ Exits(child)
  /\ Collected("limit")
  /\ UNCHANGED <<attempts, terms>>

BackedOff ==
  /\ watch = "backoff"
  /\ watch' = "loop"
  /\ UNCHANGED <<lockVars, child, attempts, stable, terms, outcomes>>

\* Ctrl+C, a kill of the supervisor only, or the exit after it has given up:
\* the next one begins from nothing.
StopSupervisor ==
  /\ watch # "down"
  /\ watch' = "down"
  /\ child' = None
  /\ attempts' = 0 /\ stable' = FALSE /\ outcomes' = <<>>
  /\ UNCHANGED <<lockVars, terms>>

-----------------------------------------------------------------------------
Init ==
  /\ LockInit
  /\ watch = "down" /\ child = None
  /\ attempts = 0 /\ stable = FALSE
  /\ terms = 0 /\ outcomes = <<>>

SupervisorStep ==
  \/ \E p \in Procs, n \in Pids : Spawn(p, n)
  \/ GiveUp \/ NoticeExit \/ Asked \/ NotGone \/ Gone \/ KillChild \/ BackedOff

Next ==
  \/ \E p \in Procs : ProcessStep(p) \/ \E n \in Pids : StartByHand(p, n)
  \/ SupervisorStep
  \/ StartSupervisor \/ Matures \/ OverLimit \/ StopSupervisor

Spec == Init /\ [][Next]_vars

\* Processes that run take their steps, and so does the supervisor's loop; that
\* an owner ends, anything dies or memory grows is left open.
Fairness ==
  /\ \A p \in Procs : WF_vars((Acquires(p) \/ Releases(p)) /\ UNCHANGED watchVars)
  /\ WF_vars(SupervisorStep)

FairSpec == Spec /\ Fairness

-----------------------------------------------------------------------------
\* Children since the last one that ran stably; those ended for their memory
\* count, however long they ran.
InARow ==
  LET last == CHOOSE i \in 0..Len(outcomes) :
                /\ i > 0 => outcomes[i] = "stable"
                /\ \A k \in i + 1..Len(outcomes) : outcomes[k] # "stable"
  IN Len(outcomes) - last

\* The supervisor gives up after MaxAttempts children in a row of which none
\* ran stably to its own end, and not before.
GivesUpAfterRow ==
  /\ InARow <= MaxAttempts
  /\ watch = "gaveUp" => InARow = MaxAttempts
  /\ watch = "watching" => InARow < MaxAttempts

\* A child over its limit ends, also when it ignores request and signal.
OverLimitEnds == watch = "asking" ~> watch \in {"backoff", "down"}

\* After the end of a child the supervisor gets a new one that owns the lock,
\* or it has given up or was stopped (or the bounds have no room for one).
ServiceRestored ==
  watch = "backoff" ~> \/ child # None /\ pc[child] = "owner"
                       \/ watch \in {"gaveUp", "down"}
                       \/ NoRoom
=============================================================================

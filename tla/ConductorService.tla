-------------------------- MODULE ConductorService --------------------------
(***************************************************************************)
(* The task conductor implements the job service: its queue, its worker's  *)
(* hand and the arms that wait for the semaphore hold accepted jobs, an    *)
(* arm inside the semaphore is a server, and the ledger is the record.     *)
(***************************************************************************)
EXTENDS TaskConductor

StageOf(j) ==
  CASE j \in queue \cup hand \/ pc[j] = "waiting" -> "accepted"
    [] pc[j] \in {"started", "prepared"}          -> "serving"
    [] pc[j] = "summary"                          ->
         IF SummaryWritten(j, TRUE) THEN "succeeded"
         ELSE IF SummaryWritten(j, FALSE) THEN "failed" ELSE "serving"
    [] OTHER                                      -> "idle"

Stages == [j \in Jobs |-> StageOf(j)]

Service == INSTANCE JobService WITH
  Servers <- MaxArms,
  stage   <- Stages,
  reply   <- future

\* Every behaviour of the conductor, crashes included, is one of the service.
ImplementsService == Service!Spec

-----------------------------------------------------------------------------
(* The inductive invariant behind it                                       *)

Summaries == Keys(rows) \cup Keys(ledger)

\* In one life of the process a job has one outcome, and has it from the end
\* of its run on: it is never queued, held or run again.
OneOutcome ==
  /\ \A r, q \in Summaries : r.job = q.job => r.ok = q.ok
  /\ \A r \in Summaries :
       /\ r.job \in submitted \ putting
       /\ r.job \in owed => pc[r.job] = "summary"

\* A put blocks only while its caller waits, and only callers of submit_brain
\* have a future.
PutsAwaited ==
  /\ \A j \in putting : future[j] = "pending"
  /\ \A j \in Jobs \ BrainJobs : future[j] = "none"

ServiceInv == IInv /\ OneOutcome /\ PutsAwaited
=============================================================================

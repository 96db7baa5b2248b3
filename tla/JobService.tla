----------------------------- MODULE JobService -----------------------------
(***************************************************************************)
(* What the task conductor promises the rest of the assistant, without     *)
(* queues, workers, semaphores or files: a job is accepted, served by one  *)
(* of a bounded number of servers, recorded, and only then answered; an    *)
(* answer is final; when the service stops, every open request is dropped, *)
(* and when it starts again it takes up some jobs of its own accord.       *)
(***************************************************************************)
EXTENDS Naturals, FiniteSets

CONSTANTS
  Jobs,     \* the jobs
  Servers   \* how many jobs may be served at a time

VARIABLES
  stage,    \* where the service has each job
  reply     \* what the client of each job knows

vars == <<stage, reply>>

Stage == {"idle", "accepted", "serving", "succeeded", "failed"}
Reply == {"none", "pending", "result", "error", "cancelled", "gone"}

\* Jobs that hold a server: it is kept until the answer is given.
Held == {j \in Jobs : stage[j] \in {"serving", "succeeded", "failed"}}

Init ==
  /\ stage = [j \in Jobs |-> "idle"]
  /\ reply = [j \in Jobs |-> "none"]

\* A client hands in a job and may wait for its answer.
Submit(j) ==
  /\ stage[j] = "idle"
  /\ reply[j] = "none"
  /\ \E s \in {"idle", "accepted"} : stage' = [stage EXCEPT ![j] = s]
  /\ \E r \in {"none", "pending"} : reply' = [reply EXCEPT ![j] = r]

\* A job whose client already waits is accepted later.
Accept(j) ==
  /\ stage[j] = "idle"
  /\ reply[j] = "pending"
  /\ stage' = [stage EXCEPT ![j] = "accepted"]
  /\ UNCHANGED reply

Serve(j) ==
  /\ stage[j] = "accepted"
  /\ Cardinality(Held) < Servers
  /\ stage' = [stage EXCEPT ![j] = "serving"]
  /\ UNCHANGED reply

\* The outcomes of some served jobs become durable.
Record ==
  /\ stage' \in [Jobs -> Stage]
  /\ \A j \in Jobs :
       stage'[j] # stage[j] =>
         stage[j] = "serving" /\ stage'[j] \in {"succeeded", "failed"}
  /\ UNCHANGED reply

\* The recorded outcome goes to the client, if it still waits.
Finish(j) ==
  /\ stage[j] \in {"succeeded", "failed"}
  /\ stage' = [stage EXCEPT ![j] = "idle"]
  /\ reply' = IF reply[j] # "pending" THEN reply
              ELSE [reply EXCEPT ![j] = IF stage[j] = "succeeded"
                                        THEN "result" ELSE "error"]

\* The client gives up.
Cancel(j) ==
  /\ reply[j] = "pending"
  /\ reply' = [reply EXCEPT ![j] = "cancelled"]
  /\ UNCHANGED stage

\* The service stops: whoever waits is cut off.
Stop ==
  /\ stage' = [j \in Jobs |-> "idle"]
  /\ reply' = [j \in Jobs |-> IF reply[j] = "pending" THEN "gone" ELSE reply[j]]

\* The service starts with some jobs it knows of.
Resume ==
  /\ \A j \in Jobs : stage[j] = "idle" /\ reply[j] # "pending"
  /\ \E S \in SUBSET Jobs :
       stage' = [j \in Jobs |-> IF j \in S THEN "accepted" ELSE "idle"]
  /\ UNCHANGED reply

Next ==
  \/ \E j \in Jobs : Submit(j) \/ Accept(j) \/ Serve(j) \/ Finish(j) \/ Cancel(j)
  \/ Record \/ Stop \/ Resume

Spec == Init /\ [][Next]_vars
=============================================================================

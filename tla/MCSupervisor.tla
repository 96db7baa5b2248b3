---------------------------- MODULE MCSupervisor ----------------------------
(* Bounds for model-checking Supervisor.                                   *)
EXTENDS Supervisor

CONSTANTS third, spare  \* a process and a process id

\* Before there is a supervisor, three processes with three ids and all starts
\* compete for the lock.  Beside a supervisor, two of each, and one start less.
ByHand == watch' = "down" /\ terms' = 0
TwoOnly == /\ starts' < MaxStarts
           /\ pc'[third] = "off" /\ \A p \in Procs : pid'[p] # spare
           /\ file' # None => file'.by # third /\ file'.pid # spare

MCNext == Next /\ (ByHand \/ TwoOnly)
MCSpec == Init /\ [][MCNext]_vars /\ Fairness
=============================================================================

---------------------------- MODULE MCMessageHub ----------------------------
(* Constant values for model-checking MessageHub.                          *)
EXTENDS MessageHub

CONSTANTS
  ask, fresh, other, stray,  \* updates: a task and a "/new" of ann, a task of bob,
                             \* a message of cyd
  ann, bob, cyd,
  home, group, away, yard    \* chats: ann's two, bob's and cyd's

MCUserOf    == [u \in Updates |-> CASE u = other -> bob
                                    [] u = stray -> cyd
                                    [] OTHER     -> ann]
MCChatOf    == [u \in Updates |-> CASE u = fresh -> group
                                    [] u = other -> away
                                    [] u = stray -> yard
                                    [] OTHER     -> home]
MCKeyOf     == [u \in Updates |-> CASE u = other -> "renewed"
                                    [] u = stray -> "none"
                                    [] OTHER     -> "stable"]
MCKindOf    == [u \in Updates |-> IF u = fresh THEN "new" ELSE "task"]

\* Two deliveries go through everything. Four show
\* what the guard forgets: jobs then only leave the conductor's queue to make room
\* for others, for the guard reads nothing of what comes after.
Brief     == deliveries' <= 2
ForGuard  == /\ \A j \in DOMAIN jobs' : jobs'[j].phase \in {"queued", "running", "lost"}
             /\ active' = {} /\ reply'[stray] = "none"
MCNext    == Next /\ (Brief \/ ForGuard)
MCSpec    == Init /\ [][MCNext]_vars
                  /\ WF_vars(Observe) /\ WF_vars(\E j \in sending : Send(j))

\* Ann's updates are buttons of one keyboard.
MCSharedKeyboard == [u \in Updates |-> IF u \in {ask, fresh} THEN 2 ELSE 1]
=============================================================================

---------------------------- MODULE ControlPlane ----------------------------
(* The process behind the dashboard: sessions, the channels' allow-list, and  *)
(* the two ways of watching it live.  Viewers of the hub's listener get a     *)
(* snapshot from the hub's observer, one after the other; viewers of the API  *)
(* have a queue of events each, and are sent a snapshot of what the observer  *)
(* has made of the events so far.                                             *)
EXTENDS ChannelAccess, SessionAuth, SequencesExt

CONSTANTS
  HubViewers, ApiViewers,
  MaxEvents,    \* bound: events of a life, less than any queue holds
  MaxLives,     \* bound: starts of the process
  MaxChanges,   \* bound: changes of the allow-list
  None

VARIABLES
  lives, changes,
  published,   \* events of this life
  seen,        \* events the observer has taken
  todo, at,    \* the broadcast: viewers left, the one being sent to
  snap,        \* what is broadcast
  conn,        \* each viewer: "off", "waiting" for the lock, or "on"
  shows,       \* the events whose effects each viewer shows
  queued       \* events in the queue of each API viewer

watchVars == <<published, seen, todo, at, snap, conn, shows, queued>>
vars == <<accessVars, sessionVars, lives, changes, watchVars>>

Viewers == HubViewers \union ApiViewers

AllOff == [v \in Viewers |-> "off"]

Init ==
  /\ AccessInit /\ SessionInit /\ lives = 0 /\ changes = 0
  /\ published = 0 /\ seen = 0 /\ todo = {} /\ at = None /\ snap = 0
  /\ conn = AllOff /\ shows = [v \in Viewers |-> 0] /\ queued = [v \in ApiViewers |-> 0]
-----------------------------------------------------------------------------
(* The process, and requests *)

Start(result) ==
  /\ lives < MaxLives /\ lives' = lives + 1
  /\ Load(result)
  /\ UNCHANGED <<sessionVars, changes, watchVars>>

\* Whatever the process kept in memory is gone.
Lost ==
  /\ Forget /\ UNCHANGED lives
  /\ published' = 0 /\ seen' = 0 /\ todo' = {} /\ at' = None /\ snap' = 0
  /\ conn' = AllOff /\ shows' = [v \in Viewers |-> 0] /\ queued' = [v \in ApiViewers |-> 0]

Stop == Ends /\ Lost /\ UNCHANGED changes

\* The requests of administrators.
Administer(u, result) ==
  /\ changes < MaxChanges /\ changes' = changes + 1
  /\ Grant(u, result) \/ Revoke(u, result)
  /\ IF result = "died" THEN Lost ELSE UNCHANGED <<sessionVars, lives, watchVars>>

OpenSession(t, host) ==
  /\ up /\ Issue(t, host)
  /\ UNCHANGED <<accessVars, lives, changes, watchVars>>

CloseSession(t) ==
  /\ up /\ LogOut(t)
  /\ UNCHANGED <<accessVars, lives, changes, watchVars>>

\* A request that only reads, or is refused.
Ask(t, host) ==
  /\ up /\ LookUp
  /\ UNCHANGED <<accessVars, lives, changes, watchVars>>

Pass == Tick /\ UNCHANGED <<accessVars, lives, changes, watchVars>>
-----------------------------------------------------------------------------
(* Events *)

Publish ==
  /\ up /\ published < MaxEvents
  /\ published' = published + 1
  /\ queued' = [v \in ApiViewers |-> IF conn[v] = "on" THEN queued[v] + 1 ELSE 0]
  /\ UNCHANGED <<accessVars, sessionVars, lives, changes, seen, todo, at, snap, conn, shows>>

Broadcasting == todo # {} \/ at # None

\* Fault: the snapshot is taken before the event is taken in.
SnapshotFirst == seen

SnapshotAfter == seen + 1

\* The observer takes an event in and a snapshot of the result; then it sends
\* that to one viewer after the other, and takes no other event before the end.
Observe ==
  /\ up /\ ~Broadcasting /\ seen < published
  /\ seen' = seen + 1 /\ snap' = SnapshotAfter
  /\ todo' = {v \in HubViewers : conn[v] = "on"}
  /\ UNCHANGED <<accessVars, sessionVars, lives, changes, published, at, conn, shows, queued>>

TurnTo(v) ==
  /\ at = None /\ v \in todo
  /\ at' = v /\ todo' = todo \ {v}
  /\ UNCHANGED <<accessVars, sessionVars, lives, changes, published, seen, snap, conn, shows,
                 queued>>

\* A slow viewer holds the observer up; one that does not answer the heartbeat
\* is closed, and dropped.
Sent(v) ==
  /\ at = v /\ at' = None
  /\ \/ conn[v] = "on" /\ shows' = [shows EXCEPT ![v] = snap] /\ UNCHANGED conn
     \/ conn' = [conn EXCEPT ![v] = "off"] /\ shows' = [shows EXCEPT ![v] = 0]
  /\ UNCHANGED <<accessVars, sessionVars, lives, changes, published, seen, todo, snap, queued>>
-----------------------------------------------------------------------------
(* Viewers *)

\* What a viewer is sent: the effects of the events that were taken in.
Snapshot == seen

\* The session is looked at once, when the viewer comes.
ConnectHub(v, t, host) ==
  /\ up /\ conn[v] = "off" /\ v \notin todo \union {at}
  /\ Valid(t, host) /\ LookUp
  /\ conn' = [conn EXCEPT ![v] = "waiting"]
  /\ UNCHANGED <<accessVars, lives, changes, published, seen, todo, at, snap, shows, queued>>

\* A subscription begins with the events so far.
Subscribe(v) == queued' = [queued EXCEPT ![v] = published]

\* It comes before the first snapshot.
ConnectApi(v, t, host) ==
  /\ up /\ conn[v] = "off"
  /\ Valid(t, host) /\ LookUp
  /\ conn' = [conn EXCEPT ![v] = "on"]
  /\ Subscribe(v)
  /\ shows' = [shows EXCEPT ![v] = Snapshot]
  /\ UNCHANGED <<accessVars, lives, changes, published, seen, todo, at, snap>>

\* The lock is free: no broadcast is under way.
Joined(v) ==
  /\ conn[v] = "waiting" /\ ~Broadcasting
  /\ conn' = [conn EXCEPT ![v] = "on"] /\ shows' = [shows EXCEPT ![v] = Snapshot]
  /\ UNCHANGED <<accessVars, sessionVars, lives, changes, published, seen, todo, at, snap, queued>>

Push(v) ==
  /\ conn[v] = "on" /\ queued[v] > 0
  /\ queued' = [queued EXCEPT ![v] = @ - 1]
  /\ shows' = [shows EXCEPT ![v] = Snapshot]
  /\ UNCHANGED <<accessVars, sessionVars, lives, changes, published, seen, todo, at, snap, conn>>

Leave(v) ==
  /\ conn[v] # "off"
  /\ conn' = [conn EXCEPT ![v] = "off"] /\ shows' = [shows EXCEPT ![v] = 0]
  /\ queued' = [w \in ApiViewers |-> IF w = v THEN 0 ELSE queued[w]]
  /\ UNCHANGED <<accessVars, sessionVars, lives, changes, published, seen, todo, at, snap>>
-----------------------------------------------------------------------------
Observer == Observe \/ \E v \in HubViewers : TurnTo(v) \/ Sent(v)

Next ==
  \/ \E result \in {"ok", "raised", "died"} :
       Start(result) \/ \E u \in Users : Administer(u, result)
  \/ Stop \/ Pass \/ Publish \/ Observer
  \/ \E t \in Tokens : CloseSession(t) \/ \E h \in Hosts : OpenSession(t, h) \/ Ask(t, h)
  \/ \E v \in Viewers : Leave(v)
  \/ \E v \in HubViewers : Joined(v) \/ \E t \in Tokens, h \in Hosts : ConnectHub(v, t, h)
  \/ \E v \in ApiViewers : Push(v) \/ \E t \in Tokens, h \in Hosts : ConnectApi(v, t, h)

Spec == Init /\ [][Next]_vars

\* The event loop runs the observer and the viewers' tasks; a send ends, by the
\* heartbeat if by nothing else.
FairSpec ==
  /\ Spec /\ WF_vars(Observer)
  /\ \A v \in HubViewers : WF_vars(Joined(v))
  /\ \A v \in ApiViewers : WF_vars(Push(v))
-----------------------------------------------------------------------------
\* A viewer of the hub comes to show every event, or is gone.
HubViewersCatchUp == \A v \in HubViewers : []<>(conn[v] = "off" \/ shows[v] = published)

\* interfaces/dashboard.py: "Realtime metrics from the Message Hub".  The same
\* for a viewer of the API.
ApiViewersCatchUp == \A v \in ApiViewers : []<>(conn[v] = "off" \/ shows[v] = published)
=============================================================================

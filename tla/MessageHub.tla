----------------------------- MODULE MessageHub -----------------------------
(***************************************************************************)
(* The way of a channel message through the assistant, lisa/hub.py with    *)
(* safety/replay_guard.py and lisa/events.py: a provider delivers updates, *)
(* more than once when it is not satisfied; the replay guard refuses those *)
(* it has seen; the hub gives each user a session and each session the     *)
(* address of its last message; the conductor's bounded queue takes the    *)
(* job or refuses it; the answer comes back as an event on a queue that    *)
(* drops its oldest entry when full, and is sent to the address the        *)
(* session has by then.                                                    *)
(*                                                                         *)
(* The conductor appears as phases of jobs; TaskConductor has the rest.    *)
(***************************************************************************)
EXTENDS Naturals, Sequences, FiniteSets

CONSTANTS
  Updates,     \* updates a provider may deliver (a message or a button press)
  Users,       \* their senders
  UserOf,      \* sender of each update
  ChatOf,      \* chat each update comes from, where its answer belongs
  MessageOf,   \* message id: a button press has that of the keyboard's message
  KeyOf,       \* key of its request: "stable"; "renewed" for each delivery (the
               \* signature of Slack); or "none"
  Numbered,    \* updates whose message id the hub finds; not Slack's inner events
  KindOf,      \* "task", "new" or "info" (the other shortcuts)
  Authorized,  \* users the access controller lets in
  TTL,         \* lifetime of an entry of the replay guard
  MaxSeen,     \* max_entries of the replay guard
  QueueRoom,   \* maxsize of the conductor's queue
  EventRoom,   \* maxsize of the hub's event queue
  MaxClock,    \* bound: passage of time
  MaxDeliveries,  \* bound: deliveries in all
  MaxLives     \* bound: starts of the process

ASSUME UpdateAssumption ==
  /\ UserOf \in [Updates -> Users]
  /\ KeyOf \in [Updates -> {"stable", "renewed", "none"}]
  /\ Numbered \subseteq Updates
  /\ KindOf \in [Updates -> {"task", "new", "info"}]
  /\ Authorized \subseteq Users

ASSUME RoomAssumption ==
  /\ TTL \in Nat \ {0}
  /\ MaxSeen \in Nat \ {0}
  /\ QueueRoom \in Nat \ {0}
  /\ EventRoom \in Nat \ {0}
  /\ MaxClock \in Nat /\ MaxDeliveries \in Nat /\ MaxLives \in Nat

VARIABLES
  clock,      \* time.monotonic, in steps
  seen,       \* entries of the replay guard, oldest first
  sessionOf,  \* session of each user, 0 if none
  sessions,   \* number of sessions made so far (uuid4)
  address,    \* for each session the update whose chat gets the answers
  jobs,       \* accepted messages with their session and phase
  events,     \* the hub's event queue, oldest first
  active,     \* active_job_ids of the dashboard
  sending,    \* jobs whose answer a delivery task is about to send
  deliveries, \* number of updates delivered so far
  reply,      \* the hub's last reply to each update, "none" before the first
  lives,      \* starts of the process
  evicted,    \* history: keys the guard gave up before their time
  dropped,    \* history: events of this life that fell out of the full queue
  published,  \* history: jobs whose answer was published in this life
  sent        \* history: the answers sent to the providers

guardVars == <<clock, seen, evicted>>
routeVars == <<sessionOf, sessions, address>>
eventVars == <<events, dropped>>
inputVars == <<deliveries, reply>>
answerVars == <<published, sent>>
vars == <<guardVars, routeVars, jobs, eventVars, active, sending, inputVars,
          lives, answerVars>>

-----------------------------------------------------------------------------
(* Types                                                                   *)

Keys   == ({"webhook"} \X Updates \X Nat)
          \cup {<<"message", UserOf[u], MessageOf[u]>> : u \in Updates}
Entry  == [key : Keys, expiry : Nat]
Phase  == {"queued", "running", "answered", "ended", "lost"}
Job    == [update : Updates, session : Nat, phase : Phase, at : Nat, life : Nat]
Event  == [type : {"started", "responded", "ended", "other"}, job : Nat]
Other  == [type |-> "other", job |-> 0]
Replies == {"none", "conflict", "denied", "shortcut", "failed", "retry", "accepted"}

\* Shape of every variable.
TypeOK ==
  /\ clock \in Nat
  /\ seen \in Seq(Entry)
  /\ sessionOf \in [Users -> 0..sessions]
  /\ sessions \in Nat
  /\ DOMAIN address \subseteq 1..sessions
  /\ \A s \in DOMAIN address : address[s] \in Updates
  /\ jobs \in Seq(Job)
  /\ events \in Seq(Event)
  /\ active \subseteq DOMAIN jobs
  /\ sending \subseteq DOMAIN jobs
  /\ deliveries \in Nat
  /\ reply \in [Updates -> Replies]
  /\ lives \in Nat
  /\ evicted \subseteq Keys
  /\ dropped \subseteq Event
  /\ published \subseteq DOMAIN jobs
  /\ \A a \in sent :
       a \in [job : DOMAIN jobs, chat : {ChatOf[u] : u \in Updates}, life : Nat]

-----------------------------------------------------------------------------
(* The replay guard                                                        *)

\* _build_webhook_key: the key of this delivery of the update.
WebhookKey(u) ==
  <<"webhook", u, IF KeyOf[u] = "renewed" THEN deliveries + 1 ELSE 0>>

MessageKey(u) == <<"message", UserOf[u], MessageOf[u]>>

KeysIn(s) == {s[i].key : i \in DOMAIN s}

\* The entries among the first i of s that have not expired, for each i.
Unexpired(s) ==
  LET kept[i \in 0..Len(s)] ==
        IF i = 0 THEN <<>>
        ELSE IF s[i].expiry > clock THEN Append(kept[i - 1], s[i]) ELSE kept[i - 1]
  IN kept

\* _prune: expired entries go, then the oldest ones beyond max_entries.
Live(s) == Unexpired(s)[Len(s)]

Trim(s) == IF Len(s) > MaxSeen THEN SubSeq(s, Len(s) - MaxSeen + 1, Len(s)) ELSE s

Pruned(s) == Trim(Live(s))

\* register_or_raise, when it does not raise.
Registered(s, key) == Append(Pruned(s), [key |-> key, expiry |-> clock + TTL])

Replayed(s, key) == key \in KeysIn(Pruned(s))

\* Keys that are forgotten although they have not expired.
Forgotten(s) == KeysIn(Live(s)) \ KeysIn(Pruned(s))

-----------------------------------------------------------------------------
(* Ingestion                                                               *)

\* Fault: one session for everybody.
SharedSession(u) == 1

\* _normalize_inbound_message: the user's session, a fresh one for a new user.
SessionFor(u) ==
  IF sessionOf[UserOf[u]] = 0 THEN sessions + 1 ELSE sessionOf[UserOf[u]]

Normalise(u) ==
  /\ sessionOf' = [sessionOf EXCEPT ![UserOf[u]] = SessionFor(u)]
  /\ sessions' = IF SessionFor(u) > sessions THEN SessionFor(u) ELSE sessions

\* The provider delivers u and the hub answers r.
Delivered(u, r) ==
  /\ deliveries < MaxDeliveries
  /\ deliveries' = deliveries + 1
  /\ reply' = [reply EXCEPT ![u] = r]

\* check_webhook: without a key the guard is not asked, nor pruned.
Keyed(u)        == KeyOf[u] # "none"
WebhookSeen(u)  == Keyed(u) /\ Replayed(seen, WebhookKey(u))
AfterWebhook(u) == IF Keyed(u) THEN Registered(seen, WebhookKey(u)) ELSE seen

\* check_message: the same without a message id.
MessageSeen(u)  == u \in Numbered /\ Replayed(AfterWebhook(u), MessageKey(u))
AfterMessage(u) == IF u \in Numbered THEN Registered(AfterWebhook(u), MessageKey(u))
                   ELSE AfterWebhook(u)

\* Keys that the two checks give up before their time.
GivenUp(u) ==
  {k \in Forgotten(seen) : Keyed(u)}
  \cup {k \in Forgotten(AfterWebhook(u)) : u \in Numbered}

\* check_webhook raises: the update itself was seen.
WebhookReplayed(u) ==
  /\ WebhookSeen(u)
  /\ Delivered(u, "conflict")
  /\ seen' = Pruned(seen)
  /\ evicted' = evicted \cup Forgotten(seen)
  /\ UNCHANGED <<clock, routeVars, jobs, eventVars, active, sending, lives,
                 answerVars>>

\* check_message raises: a message with this id was seen. The key of the
\* webhook stays registered.
MessageReplayed(u) ==
  /\ ~WebhookSeen(u)
  /\ MessageSeen(u)
  /\ Delivered(u, "conflict")
  /\ Normalise(u)
  /\ seen' = Pruned(AfterWebhook(u))
  /\ evicted' = evicted \cup GivenUp(u)
  /\ UNCHANGED <<clock, address, jobs, eventVars, active, sending, lives,
                 answerVars>>

\* Fault: the guard registers the keys without looking for them.
PassesAlways(u) ==
  /\ seen' = AfterMessage(u)
  /\ evicted' = evicted \cup GivenUp(u)

\* Both checks pass, and the keys there are are registered.
Passes(u) ==
  /\ ~WebhookSeen(u)
  /\ ~MessageSeen(u)
  /\ seen' = AfterMessage(u)
  /\ evicted' = evicted \cup GivenUp(u)

\* The sender is not authorized; the keys stay registered.
Denied(u) ==
  /\ UserOf[u] \notin Authorized
  /\ Passes(u)
  /\ Delivered(u, "denied")
  /\ Normalise(u)
  /\ UNCHANGED <<clock, address, jobs, eventVars, active, sending, lives,
                 answerVars>>

\* A shortcut is answered at once, or the send raises (status 500). "/new"
\* gives the user a fresh session, after normalisation found or made one.
Shortcut(u) ==
  /\ UserOf[u] \in Authorized
  /\ KindOf[u] \in {"new", "info"}
  /\ Passes(u)
  /\ \E r \in {"shortcut", "failed"} : Delivered(u, r)
  /\ IF KindOf[u] = "info" THEN Normalise(u)
     ELSE LET last == IF SessionFor(u) > sessions THEN SessionFor(u) ELSE sessions
          IN /\ sessions' = last + 1
             /\ sessionOf' = [sessionOf EXCEPT ![UserOf[u]] = last + 1]
  /\ UNCHANGED <<clock, address, jobs, eventVars, active, sending, lives,
                 answerVars>>

QueuedJobs == {j \in DOMAIN jobs : jobs[j].phase = "queued"}

\* A task: the address of the session is set before the conductor is asked,
\* and stays set when its queue is full.
Task(u) ==
  /\ UserOf[u] \in Authorized
  /\ KindOf[u] = "task"
  /\ Passes(u)
  /\ Normalise(u)
  /\ address' = [s \in DOMAIN address \cup {SessionFor(u)} |->
                   IF s = SessionFor(u) THEN u ELSE address[s]]
  /\ IF Cardinality(QueuedJobs) < QueueRoom
     THEN /\ Delivered(u, "accepted")
          /\ jobs' = Append(jobs, [update |-> u, session |-> SessionFor(u),
                                   phase |-> "queued", at |-> clock, life |-> lives])
     ELSE /\ Delivered(u, "retry")
          /\ UNCHANGED jobs
  /\ UNCHANGED <<clock, eventVars, active, sending, lives, answerVars>>

-----------------------------------------------------------------------------
(* Jobs and events                                                         *)

\* EventBus.publish: a full queue loses its oldest event. Events that are not
\* about a job are "other".
Publish(e) ==
  IF Len(events) >= EventRoom
  THEN /\ events' = Append(Tail(events), e)
       /\ dropped' = dropped \cup ({Head(events)} \ {Other})
  ELSE /\ events' = Append(events, e)
       /\ UNCHANGED dropped

Moves(j, phase) == jobs' = [jobs EXCEPT ![j].phase = phase]

\* The conductor hands the job to an arm; its slot in the queue is free.
JobStarts(j) ==
  /\ jobs[j].phase = "queued"
  /\ Moves(j, "running")
  /\ Publish([type |-> "started", job |-> j])
  /\ UNCHANGED <<guardVars, routeVars, active, sending, inputVars, lives, answerVars>>

\* process_enriched_task publishes the answer.
JobAnswers(j) ==
  /\ jobs[j].phase = "running"
  /\ Moves(j, "answered")
  /\ Publish([type |-> "responded", job |-> j])
  /\ published' = published \cup {j}
  /\ UNCHANGED <<guardVars, routeVars, active, sending, inputVars, lives, sent>>

\* job_finished or job_error. A job that failed, timed out or was a
\* constitution command has published no answer.
JobEnds(j) ==
  /\ jobs[j].phase \in {"running", "answered"}
  /\ Moves(j, "ended")
  /\ Publish([type |-> "ended", job |-> j])
  /\ UNCHANGED <<guardVars, routeVars, active, sending, inputVars, lives, answerVars>>

\* Fault: the end of a job is not noted.
ActiveAfterStarts(e) == IF e.type = "started" THEN active \cup {e.job} ELSE active

\* DashboardMetricsState.observe.
ActiveAfter(e) ==
  CASE e.type = "started" -> active \cup {e.job}
    [] e.type = "ended"   -> active \ {e.job}
    [] OTHER              -> active

\* Fault: what is still to be sent is given up when the job ends.
SendingUntilEnded(e) ==
  CASE e.type = "responded" -> sending \cup {e.job}
    [] e.type = "ended"     -> sending \ {e.job}
    [] OTHER                -> sending

\* Fault: an answer is not passed on while another is being sent.
SendingAfterBusy(e) ==
  IF e.type = "responded" /\ sending = {} THEN {e.job} ELSE sending

\* A task of its own delivers the answer.
SendingAfter(e) ==
  IF e.type = "responded" THEN sending \cup {e.job} ELSE sending

\* _observe_events takes the oldest event.
Observe ==
  /\ events # <<>>
  /\ events' = Tail(events)
  /\ active' = ActiveAfter(Head(events))
  /\ sending' = SendingAfter(Head(events))
  /\ UNCHANGED <<guardVars, routeVars, jobs, dropped, inputVars, lives, answerVars>>

\* _deliver_chat_response: to the present address of the session, if it has
\* one; success or failure is published.
Send(j) ==
  /\ j \in sending
  /\ sending' = sending \ {j}
  /\ IF jobs[j].session \in DOMAIN address
     THEN /\ sent' = sent \cup {[job |-> j,
                               chat |-> ChatOf[address[jobs[j].session]],
                               life |-> lives]}
          /\ Publish(Other)
     ELSE UNCHANGED <<sent, eventVars>>
  /\ UNCHANGED <<guardVars, routeVars, jobs, active, inputVars, lives, published>>

-----------------------------------------------------------------------------
Tick ==
  /\ clock < MaxClock
  /\ clock' = clock + 1
  /\ UNCHANGED <<seen, evicted, routeVars, jobs, eventVars, active, sending,
                 inputVars, lives, answerVars>>

\* The process dies and starts again. Some jobs come back from the snapshot of
\* the queue, which may be older than the crash; all else is forgotten.
Restart ==
  /\ lives < MaxLives
  /\ lives' = lives + 1
  /\ \E S \in SUBSET DOMAIN jobs :
       /\ Cardinality(S) <= QueueRoom
       /\ jobs' = [j \in DOMAIN jobs |->
                     [jobs[j] EXCEPT !.phase = IF j \in S THEN "queued"
                                               ELSE IF @ = "ended" THEN @ ELSE "lost"]]
  /\ seen' = <<>> /\ evicted' = {}
  /\ sessionOf' = [x \in Users |-> 0]
  /\ address' = <<>>
  /\ events' = <<>> /\ dropped' = {}
  /\ active' = {} /\ sending' = {} /\ published' = {}
  /\ UNCHANGED <<clock, sessions, inputVars, sent>>

Init ==
  /\ clock = 0 /\ lives = 1
  /\ seen = <<>> /\ evicted = {}
  /\ sessionOf = [x \in Users |-> 0]
  /\ sessions = 0
  /\ address = <<>>
  /\ jobs = <<>>
  /\ events = <<>> /\ dropped = {}
  /\ active = {} /\ sending = {}
  /\ deliveries = 0
  /\ reply = [u \in Updates |-> "none"]
  /\ published = {} /\ sent = {}

Ingest(u) ==
  WebhookReplayed(u) \/ MessageReplayed(u) \/ Denied(u) \/ Shortcut(u) \/ Task(u)

Progress(j) == JobStarts(j) \/ JobAnswers(j) \/ JobEnds(j)

Next ==
  \/ \E u \in Updates : Ingest(u)
  \/ \E j \in DOMAIN jobs : Progress(j)
  \/ Observe
  \/ \E j \in sending : Send(j)
  \/ Tick \/ Restart

Spec == Init /\ [][Next]_vars

\* The observer task and the delivery tasks run when they can.
FairSpec == Spec /\ WF_vars(Observe) /\ WF_vars(\E j \in sending : Send(j))

-----------------------------------------------------------------------------
(* Safety                                                                  *)

\* The keys by which the guard knows another delivery of the same update, or
\* another update of the same message. A Slack event in the standalone hub has
\* none: it is admitted as often as it is delivered.
LastingKeys(u) ==
  {k \in {<<"webhook", u, 0>>} : KeyOf[u] = "stable"}
  \cup {k \in {MessageKey(u)} : u \in Numbered}

\* However often it is delivered, the conductor gets what has a lasting key once
\* in the lifetime of its guard entry, unless so many others came that the guard
\* had to forget the key, or the process died.
AdmittedOnce ==
  \A m, n \in DOMAIN jobs :
    LET first == jobs[m] IN
    LET again == jobs[n] IN
    /\ m < n
    /\ first.life = lives /\ again.life = lives
    /\ \E k \in LastingKeys(first.update) \cap LastingKeys(again.update) : k \notin evicted
    => again.at - first.at >= TTL

\* Whatever the interleaving of users, sessions, "/new" and late answers, an
\* answer goes to a chat the user who asked has written from.
AnswersStayWithUser ==
  \A a \in sent :
    \E u \in Updates :
      /\ UserOf[u] = UserOf[jobs[a.job].update]
      /\ ChatOf[u] = a.chat

\* Sessions never mix: no two users have one session; the address and the jobs
\* of a user's session are that user's; and of a session that "/new" has left
\* behind, the address and the jobs are still of one user.
SessionsSeparate ==
  /\ \A x, y \in Users : sessionOf[x] = sessionOf[y] => x = y \/ sessionOf[x] = 0
  /\ \A x \in Users :
       /\ sessionOf[x] \in DOMAIN address => UserOf[address[sessionOf[x]]] = x
       /\ \A j \in DOMAIN jobs :
            jobs[j].session = sessionOf[x] => UserOf[jobs[j].update] = x
  /\ \A j \in DOMAIN jobs :
       jobs[j].session \in DOMAIN address =>
         UserOf[address[jobs[j].session]] = UserOf[jobs[j].update]

Queued(type, j) == \E i \in DOMAIN events : events[i] = [type |-> type, job |-> j]
Lost(type, j)   == [type |-> type, job |-> j] \in dropped

\* Every answer that was published in this life, also that of a job that has
\* ended since, is on its way, was sent in this life, or its event fell out of
\* the full queue. The only other reason not to send it is a session without an
\* address: such a session is from before a restart, and no user has it any more.
AnswersAccounted ==
  \A j \in published :
    \/ Queued("responded", j)
    \/ j \in sending
    \/ \E a \in sent : a.job = j /\ a.life = lives
    \/ Lost("responded", j)
    \/ /\ jobs[j].session \notin DOMAIN address /\ lives > 1
       /\ \A x \in Users : sessionOf[x] # jobs[j].session

Working == {j \in DOMAIN jobs : jobs[j].phase \in {"running", "answered"}}

\* The dashboard's active jobs, which keep a typing indicator going, are those
\* at work, but for the events the observer has yet to see and those that fell
\* out of the queue: no order of starts, answers and ends leaves another job
\* active for ever, or hides one.
ActiveAccounted ==
  /\ \A j \in active \ Working : Queued("ended", j) \/ Lost("ended", j)
  /\ \A j \in Working \ active : Queued("started", j) \/ Lost("started", j)

-----------------------------------------------------------------------------
(* The inductive invariants behind them                                    *)

\* Nothing has happened in the future.
NothingAhead ==
  \A j \in DOMAIN jobs : jobs[j].at <= clock /\ jobs[j].life <= lives

\* The guard's dict has one entry for a key.
OneEntryPerKey ==
  \A i, k \in DOMAIN seen : seen[i].key = seen[k].key => seen[i] = seen[k]

\* The guard remembers each lasting key it has let in for as long as it should,
\* unless it had to give up the key.
AdmittedRemembered ==
  \A j \in DOMAIN jobs : \A k \in LastingKeys(jobs[j].update) :
    jobs[j].life = lives /\ k \notin evicted =>
      \/ jobs[j].at + TTL <= clock
      \/ \E i \in DOMAIN seen : /\ seen[i].key = k
                               /\ seen[i].expiry >= jobs[j].at + TTL

\* Implies AdmittedOnce.
GuardInv == NothingAhead /\ OneEntryPerKey /\ AdmittedRemembered /\ AdmittedOnce

\* A job has no address only after a restart, and then its session is nobody's
\* any more.
JobsAddressed ==
  /\ lives >= 1
  /\ \A j \in DOMAIN jobs :
       jobs[j].session \notin DOMAIN address =>
         lives > 1 /\ \A x \in Users : sessionOf[x] # jobs[j].session

\* Implies AnswersAccounted.
AnswerInv == JobsAddressed /\ published \subseteq DOMAIN jobs /\ AnswersAccounted

\* Each start in the queue is of a job in W, or its end comes behind.
Ordered(queue, W) ==
  \A i \in DOMAIN queue : queue[i].type = "started" =>
    \/ queue[i].job \in W
    \/ \E k \in DOMAIN queue : k > i /\ queue[k] = [type |-> "ended", job |-> queue[i].job]

\* A job whose end is announced is over; one whose start is still to be seen is
\* at work, or its end comes behind.
EventsInOrder ==
  /\ \A f \in {events[i] : i \in DOMAIN events} \cup dropped :
       f.type = "ended" => f.job \in DOMAIN jobs /\ jobs[f.job].phase = "ended"
  /\ Ordered(events, Working)

\* Implies ActiveAccounted.
ActiveInv == EventsInOrder /\ ActiveAccounted

-----------------------------------------------------------------------------
(* Action properties                                                       *)

\* lisa/hub.py:472 "Queue is full. Please retry shortly.": whoever was told so
\* may retry.
RetryIsHeard ==
  [][\A u \in Updates : reply[u] = "retry" => reply'[u] # "conflict"]_vars

\* lisa/hub.py:589 "You can also press the buttons below": a press that was
\* never delivered before is not refused as a replay.
FirstPressIsHeard ==
  [][\A u \in Updates : reply[u] = "none" => reply'[u] # "conflict"]_vars

-----------------------------------------------------------------------------
(* Liveness                                                                *)

JobIds == 1..MaxDeliveries

\* A published answer is sent, unless its event is lost or the process dies.
AnswersFlow ==
  \A j \in JobIds :
    Queued("responded", j)
    ~> (\E a \in sent : a.job = j) \/ Lost("responded", j) \/ lives > 1
=============================================================================

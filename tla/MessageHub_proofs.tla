-------------------------- MODULE MessageHub_proofs --------------------------
(***************************************************************************)
(* Proofs about MessageHub: sessions never mix, so an answer never reaches *)
(* a user who did not ask; the conductor gets a message once; no published *)
(* answer vanishes. For any users, updates, table and queue sizes, with    *)
(* redelivered updates, fresh sessions and restarts.                       *)
(***************************************************************************)
EXTENDS MessageHub, SequenceTheorems, WellFoundedInduction, NaturalsInduction, TLAPS

\* Types of what carries an answer: the routes, jobs, events and deliveries.
RouteTypes ==
  /\ clock \in Nat /\ lives \in Nat
  /\ sessions \in Nat
  /\ sessionOf \in [Users -> 0..sessions]
  /\ DOMAIN address \subseteq 1..sessions
  /\ \A s \in DOMAIN address : address[s] \in Updates
  /\ jobs \in Seq(Job)
  /\ \A j \in DOMAIN jobs : jobs[j].session \in 1..sessions
  /\ events \in Seq(Event)
  /\ \A i \in DOMAIN events : events[i].type = "responded" => events[i].job \in DOMAIN jobs
  /\ sending \subseteq DOMAIN jobs
  /\ \A a \in sent : a.job \in DOMAIN jobs

\* The inductive invariant. Separate sessions alone are not inductive: a fresh
\* session is separate because its number is above all that are in use.
RouteInv == RouteTypes /\ SessionsSeparate /\ AnswersStayWithUser

USE UpdateAssumption, RoomAssumption DEF answerVars

\* Init satisfies the invariant.
LEMMA RouteInit == Init => RouteInv
<1> SUFFICES ASSUME Init PROVE RouteInv
  OBVIOUS
<1>1. RouteTypes
  BY DEF Init, RouteTypes
<1>2. SessionsSeparate /\ AnswersStayWithUser
  BY DEF Init, SessionsSeparate, AnswersStayWithUser
<1> QED
  BY <1>1, <1>2 DEF RouteInv

\* A user gets back the session it has, or one with a number above all others.
LEMMA NewSession ==
  ASSUME RouteInv, NEW x \in Users, NEW s \in Nat \ {0},
         s = sessionOf[x] \/ s > sessions,
         sessionOf' = [sessionOf EXCEPT ![x] = s],
         sessions' \in Nat, sessions' >= sessions, s <= sessions',
         UNCHANGED <<clock, lives, address, jobs, events, sending, sent>>
  PROVE  RouteInv'
<1>1. RouteTypes'
  BY DEF RouteInv, RouteTypes
<1>2. ASSUME NEW y \in Users
      PROVE  sessionOf'[y] = IF y = x THEN s ELSE sessionOf[y]
  BY DEF RouteInv, RouteTypes
<1>3. /\ DOMAIN address \subseteq 1..sessions
      /\ \A j \in DOMAIN jobs : jobs[j].session \in 1..sessions
      /\ \A y \in Users : sessionOf[y] \in 0..sessions
      /\ sessions \in Nat
  BY DEF RouteInv, RouteTypes
<1>4. SessionsSeparate'
  BY <1>2, <1>3 DEF RouteInv, SessionsSeparate
<1>5. AnswersStayWithUser'
  BY DEF RouteInv, AnswersStayWithUser
<1> QED
  BY <1>1, <1>4, <1>5 DEF RouteInv

\* What normalisation does to the sessions.
LEMMA NormaliseSession ==
  ASSUME RouteInv, NEW u \in Updates, Normalise(u)
  PROVE  /\ SessionFor(u) \in Nat \ {0}
         /\ SessionFor(u) = sessionOf[UserOf[u]] \/ SessionFor(u) > sessions
         /\ sessionOf' = [sessionOf EXCEPT ![UserOf[u]] = SessionFor(u)]
         /\ sessions' \in Nat /\ sessions' >= sessions /\ SessionFor(u) <= sessions'
<1>1. UserOf[u] \in Users
  OBVIOUS
<1>2. sessions \in Nat /\ sessionOf[UserOf[u]] \in 0..sessions
  BY <1>1 DEF RouteInv, RouteTypes
<1> QED
  BY <1>1, <1>2 DEF Normalise, SessionFor

\* A refused delivery and a shortcut touch nothing but the sessions.
LEMMA SessionSteps ==
  ASSUME RouteInv, NEW u \in Updates,
         MessageReplayed(u) \/ Denied(u) \/ Shortcut(u)
  PROVE  RouteInv'
<1> UserOf[u] \in Users
  OBVIOUS
<1> UNCHANGED <<clock, lives, address, jobs, events, sending, sent>>
  BY DEF MessageReplayed, Denied, Shortcut, routeVars, eventVars
<1>1. CASE Normalise(u)
  BY <1>1, NormaliseSession, NewSession
<1>2. CASE ~Normalise(u)
  <2>1. PICK last \in {SessionFor(u), sessions} :
          /\ last >= sessions
          /\ sessions' = last + 1
          /\ sessionOf' = [sessionOf EXCEPT ![UserOf[u]] = last + 1]
    <3>1. sessions \in Nat /\ sessionOf[UserOf[u]] \in 0..sessions
      BY DEF RouteInv, RouteTypes
    <3> QED
      BY <1>2, <3>1 DEF MessageReplayed, Denied, Shortcut, SessionFor
  <2>2. sessions \in Nat /\ sessionOf[UserOf[u]] \in 0..sessions
    BY DEF RouteInv, RouteTypes
  <2>3. last \in Nat
    BY <2>2 DEF SessionFor
  <2> DEFINE s == last + 1
  <2>4. s \in Nat \ {0} /\ s > sessions /\ sessions' \in Nat /\ sessions' >= sessions
        /\ s <= sessions'
    BY <2>1, <2>2, <2>3
  <2> HIDE DEF s
  <2>5. sessionOf' = [sessionOf EXCEPT ![UserOf[u]] = s]
    BY <2>1 DEF s
  <2> QED
    BY <2>4, <2>5, NewSession
<1> QED
  BY <1>1, <1>2

\* A task makes its chat the address of its own user's session.
LEMMA TaskStep ==
  ASSUME RouteInv, NEW u \in Updates, Task(u)
  PROVE  RouteInv'
<1> DEFINE s == SessionFor(u)
           x == UserOf[u]
           job == [update |-> u, session |-> s, phase |-> "queued",
                   at |-> clock, life |-> lives]
<1>1. /\ x \in Users
      /\ s \in Nat \ {0}
      /\ s = sessionOf[x] \/ s > sessions
      /\ sessionOf' = [sessionOf EXCEPT ![x] = s]
      /\ sessions' \in Nat /\ sessions' >= sessions /\ s <= sessions'
  BY NormaliseSession DEF Task
<1>2. /\ address' = [r \in DOMAIN address \cup {s} |-> IF r = s THEN u ELSE address[r]]
      /\ jobs' = jobs \/ jobs' = Append(jobs, job)
      /\ UNCHANGED <<events, sending, sent>>
  BY DEF Task, eventVars
<1> HIDE DEF s, x
<1>3. /\ sessions \in Nat
      /\ sessionOf \in [Users -> 0..sessions]
      /\ DOMAIN address \subseteq 1..sessions
      /\ \A r \in DOMAIN address : address[r] \in Updates
      /\ jobs \in Seq(Job)
      /\ \A j \in DOMAIN jobs : jobs[j].session \in 1..sessions
  BY DEF RouteInv, RouteTypes
<1>4. /\ \A y \in Users : sessionOf'[y] = IF y = x THEN s ELSE sessionOf[y]
      /\ DOMAIN address' = DOMAIN address \cup {s}
      /\ \A r \in DOMAIN address' : address'[r] = IF r = s THEN u ELSE address[r]
  BY <1>1, <1>2, <1>3
<1>5. job \in Job
  BY <1>1, <1>3 DEF Job, Phase, RouteInv, RouteTypes
<1>6. /\ jobs' \in Seq(Job)
      /\ DOMAIN jobs \subseteq DOMAIN jobs'
      /\ \A j \in DOMAIN jobs : jobs'[j] = jobs[j]
      /\ \A j \in DOMAIN jobs' : j \in DOMAIN jobs \/ jobs'[j] = job
  <2> HIDE DEF job
  <2>1. CASE jobs' = jobs
    BY <1>3, <2>1
  <2>2. CASE jobs' = Append(jobs, job)
    BY <1>3, <1>5, <2>2, AppendProperties
  <2> QED
    BY <1>2, <2>1, <2>2
<1>7. \A j \in DOMAIN jobs' :
        \/ j \in DOMAIN jobs /\ jobs'[j] = jobs[j] /\ jobs[j].session \in 1..sessions
        \/ jobs'[j].session = s /\ jobs'[j].update = u
  BY <1>3, <1>6
<1>8. RouteTypes'
  <2>1. clock' \in Nat /\ lives' \in Nat /\ sessions' \in Nat /\ sessionOf' \in [Users -> 0..sessions']
    BY <1>1, <1>3 DEF RouteInv, RouteTypes, Task
  <2>2. /\ DOMAIN address' \subseteq 1..sessions'
        /\ \A r \in DOMAIN address' : address'[r] \in Updates
    BY <1>1, <1>3, <1>4
  <2>3. \A j \in DOMAIN jobs' : jobs'[j].session \in 1..sessions'
    BY <1>1, <1>3, <1>7
  <2>4. /\ events' \in Seq(Event)
        /\ \A i \in DOMAIN events' :
             events'[i].type = "responded" => events'[i].job \in DOMAIN jobs'
        /\ sending' \subseteq DOMAIN jobs'
        /\ \A a \in sent' : a.job \in DOMAIN jobs'
    BY <1>2, <1>6 DEF RouteInv, RouteTypes
  <2> QED
    BY <1>6, <2>1, <2>2, <2>3, <2>4 DEF RouteTypes
<1>9. SessionsSeparate'
  <2>1. \A y \in Users : y # x => sessionOf[y] # s
    BY <1>1, <1>3 DEF RouteInv, SessionsSeparate
  <2>2. \A y, z \in Users : sessionOf'[y] = sessionOf'[z] => y = z \/ sessionOf'[y] = 0
    BY <1>4, <2>1 DEF RouteInv, SessionsSeparate
  <2>3. \A y \in Users :
          sessionOf'[y] \in DOMAIN address' => UserOf[address'[sessionOf'[y]]] = y
    BY <1>4, <2>1 DEF RouteInv, SessionsSeparate, x
  <2>4. \A j \in DOMAIN jobs : jobs[j].session = s => UserOf[jobs[j].update] = x
    BY <1>1, <1>3 DEF RouteInv, SessionsSeparate
  <2>5. \A y \in Users : \A j \in DOMAIN jobs' :
          jobs'[j].session = sessionOf'[y] => UserOf[jobs'[j].update] = y
    BY <1>4, <1>7, <2>1, <2>4 DEF RouteInv, SessionsSeparate, x
  <2>6. \A j \in DOMAIN jobs' :
          jobs'[j].session \in DOMAIN address' =>
            UserOf[address'[jobs'[j].session]] = UserOf[jobs'[j].update]
    BY <1>4, <1>7, <2>4 DEF RouteInv, SessionsSeparate, x
  <2> QED
    BY <2>2, <2>3, <2>5, <2>6 DEF SessionsSeparate
<1>10. AnswersStayWithUser'
  BY <1>2, <1>6 DEF RouteInv, RouteTypes, AnswersStayWithUser
<1> QED
  BY <1>8, <1>9, <1>10 DEF RouteInv

\* Publishing keeps the queue typed, and keeps answers about known jobs.
LEMMA PublishTypes ==
  ASSUME RouteInv, NEW e \in Event, e.type = "responded" => e.job \in DOMAIN jobs,
         Publish(e)
  PROVE  /\ events' \in Seq(Event)
         /\ \A i \in DOMAIN events' :
              events'[i].type = "responded" => events'[i].job \in DOMAIN jobs
<1>1. /\ events \in Seq(Event)
      /\ \A i \in DOMAIN events :
           events[i].type = "responded" => events[i].job \in DOMAIN jobs
  BY DEF RouteInv, RouteTypes
<1>2. PICK old \in {events, Tail(events)} :
        /\ old = events \/ events # <<>>
        /\ events' = Append(old, e)
  BY <1>1 DEF Publish
<1>3. /\ old \in Seq(Event)
      /\ \A i \in DOMAIN old :
           old[i].type = "responded" => old[i].job \in DOMAIN jobs
  <2>1. CASE old = events
    BY <1>1, <2>1
  <2>2. CASE old = Tail(events) /\ events # <<>>
    <3>1. /\ Tail(events) \in Seq(Event)
          /\ Len(Tail(events)) = Len(events) - 1
          /\ \A i \in 1..Len(Tail(events)) : Tail(events)[i] = events[i + 1]
      BY <1>1, <2>2, HeadTailProperties
    <3> QED
      BY <1>1, <2>2, <3>1
  <2> QED
    BY <1>2, <2>1, <2>2
<1>4. /\ Append(old, e) \in Seq(Event)
      /\ Len(Append(old, e)) = Len(old) + 1
      /\ \A i \in 1..Len(old) : Append(old, e)[i] = old[i]
      /\ Append(old, e)[Len(old) + 1] = e
  BY <1>3, AppendProperties
<1>5. \A i \in DOMAIN Append(old, e) : i \in DOMAIN old \/ i = Len(old) + 1
  BY <1>3, <1>4
<1> QED
  BY <1>2, <1>3, <1>4, <1>5

\* Changes of phase, events and delivery tasks leave the invariant alone.
LEMMA PhaseStep ==
  ASSUME RouteInv, UNCHANGED <<clock, lives, sessionOf, sessions, address, sent>>,
         jobs' \in Seq(Job), DOMAIN jobs' = DOMAIN jobs,
         \A j \in DOMAIN jobs : jobs'[j].update = jobs[j].update
                                /\ jobs'[j].session = jobs[j].session,
         events' \in Seq(Event),
         \A i \in DOMAIN events' :
           events'[i].type = "responded" => events'[i].job \in DOMAIN jobs,
         sending' \subseteq DOMAIN jobs
  PROVE  RouteInv'
<1>1. RouteTypes'
  BY DEF RouteInv, RouteTypes
<1>2. SessionsSeparate'
  BY DEF RouteInv, SessionsSeparate
<1>3. AnswersStayWithUser'
  BY DEF RouteInv, RouteTypes, AnswersStayWithUser
<1> QED
  BY <1>1, <1>2, <1>3 DEF RouteInv

\* A job that moves to another phase keeps its update and its session.
LEMMA MovesTypes ==
  ASSUME RouteInv, NEW j \in DOMAIN jobs, NEW phase \in Phase, Moves(j, phase)
  PROVE  /\ jobs' \in Seq(Job) /\ DOMAIN jobs' = DOMAIN jobs
         /\ \A k \in DOMAIN jobs : jobs'[k].update = jobs[k].update
                                   /\ jobs'[k].session = jobs[k].session
<1>1. jobs \in Seq(Job)
  BY DEF RouteInv, RouteTypes
<1>2. [jobs[j] EXCEPT !.phase = phase] \in Job
  <2>1. jobs[j] \in Job
    BY <1>1
  <2> QED
    BY <2>1 DEF Job
<1>3. jobs' = [jobs EXCEPT ![j] = [jobs[j] EXCEPT !.phase = phase]]
  BY DEF Moves
<1>4. jobs' \in Seq(Job) /\ DOMAIN jobs' = DOMAIN jobs
  BY <1>1, <1>2, <1>3
<1>5. [jobs[j] EXCEPT !.phase = phase].update = jobs[j].update
      /\ [jobs[j] EXCEPT !.phase = phase].session = jobs[j].session
  BY <1>1 DEF Job
<1> QED
  BY <1>1, <1>3, <1>4, <1>5

\* The progress of a job, event by event.
LEMMA ProgressStep ==
  ASSUME RouteInv, NEW j \in DOMAIN jobs, Progress(j)
  PROVE  RouteInv'
<1>1. PICK type \in {"started", "responded", "ended"}, phase \in Phase :
        Moves(j, phase) /\ Publish([type |-> type, job |-> j])
  <2>1. CASE JobStarts(j)
    BY <2>1 DEF JobStarts, Phase
  <2>2. CASE JobAnswers(j)
    BY <2>2 DEF JobAnswers, Phase
  <2>3. CASE JobEnds(j)
    BY <2>3 DEF JobEnds, Phase
  <2> QED
    BY <2>1, <2>2, <2>3 DEF Progress
<1>2. /\ UNCHANGED <<clock, lives, sessionOf, sessions, address, sent, sending>>
  BY DEF Progress, JobStarts, JobAnswers, JobEnds, guardVars, routeVars
<1>3. [type |-> type, job |-> j] \in Event
  BY DEF RouteInv, RouteTypes, Event
<1>4. sending' \subseteq DOMAIN jobs
  BY <1>2 DEF RouteInv, RouteTypes
<1> QED
  BY <1>1, <1>2, <1>3, <1>4, MovesTypes, PublishTypes, PhaseStep

\* The observer starts a delivery only for an answer about a known job.
LEMMA ObserveStep ==
  ASSUME RouteInv, Observe
  PROVE  RouteInv'
<1>1. /\ events \in Seq(Event) /\ events # <<>> /\ events' = Tail(events)
      /\ \A i \in DOMAIN events :
           events[i].type = "responded" => events[i].job \in DOMAIN jobs
  BY DEF RouteInv, RouteTypes, Observe
<1>2. /\ Tail(events) \in Seq(Event)
      /\ Len(Tail(events)) = Len(events) - 1
      /\ \A i \in 1..Len(Tail(events)) : Tail(events)[i] = events[i + 1]
      /\ Head(events) = events[1]
  BY <1>1, HeadTailProperties
<1>3. \A i \in DOMAIN events' :
        events'[i].type = "responded" => events'[i].job \in DOMAIN jobs
  BY <1>1, <1>2
<1>4. sending' \subseteq DOMAIN jobs
  <2>1. Head(events).type = "responded" => Head(events).job \in DOMAIN jobs
    BY <1>1, <1>2
  <2> QED
    BY <2>1 DEF Observe, SendingAfter, RouteInv, RouteTypes
<1>5. UNCHANGED <<clock, lives, sessionOf, sessions, address, sent, jobs>>
  BY DEF Observe, guardVars, routeVars
<1>6. jobs \in Seq(Job)
  BY DEF RouteInv, RouteTypes
<1> QED
  BY <1>1, <1>2, <1>3, <1>4, <1>5, <1>6, PhaseStep

\* What is sent goes to the address of the session the job belongs to.
LEMMA SendStep ==
  ASSUME RouteInv, NEW j \in sending, Send(j)
  PROVE  RouteInv'
<1> DEFINE s == jobs[j].session
           answer == [job |-> j, chat |-> ChatOf[address[s]], life |-> lives]
<1>1. j \in DOMAIN jobs
  BY DEF RouteInv, RouteTypes
<1>2. UNCHANGED <<clock, lives, sessionOf, sessions, address, jobs>>
  BY DEF Send, guardVars, routeVars
<1>3. sending' \subseteq DOMAIN jobs
  BY DEF Send, RouteInv, RouteTypes
<1>4. /\ events' \in Seq(Event)
      /\ \A i \in DOMAIN events' :
           events'[i].type = "responded" => events'[i].job \in DOMAIN jobs
  <2>1. CASE UNCHANGED events
    BY <2>1 DEF RouteInv, RouteTypes
  <2>2. CASE Publish(Other)
    <3>1. Other \in Event /\ Other.type # "responded"
      BY DEF Other, Event
    <3> QED
      BY <2>2, <3>1, PublishTypes
  <2> QED
    BY <2>1, <2>2 DEF Send, eventVars
<1>5. sent' = sent \/ (s \in DOMAIN address /\ sent' = sent \cup {answer})
  BY DEF Send
<1>6. s \in DOMAIN address =>
        /\ address[s] \in Updates
        /\ UserOf[address[s]] = UserOf[jobs[j].update]
  BY <1>1 DEF RouteInv, RouteTypes, SessionsSeparate
<1>7. AnswersStayWithUser'
  BY <1>2, <1>5, <1>6 DEF RouteInv, AnswersStayWithUser
<1>8. SessionsSeparate'
  BY <1>2 DEF RouteInv, SessionsSeparate
<1>9. RouteTypes'
  BY <1>1, <1>2, <1>3, <1>4, <1>5 DEF RouteInv, RouteTypes
<1> QED
  BY <1>7, <1>8, <1>9 DEF RouteInv

\* After a restart no user has a session and no session an address.
LEMMA RestartStep ==
  ASSUME RouteInv, Restart
  PROVE  RouteInv'
<1>1. PICK S \in SUBSET DOMAIN jobs :
        jobs' = [j \in DOMAIN jobs |->
                   [jobs[j] EXCEPT !.phase = IF j \in S THEN "queued"
                                             ELSE IF @ = "ended" THEN @ ELSE "lost"]]
  BY DEF Restart
<1>2. jobs \in Seq(Job) /\ \A j \in DOMAIN jobs : jobs[j] \in Job
  BY DEF RouteInv, RouteTypes
<1>3. \A j \in DOMAIN jobs : /\ jobs'[j] \in Job
                             /\ jobs'[j].update = jobs[j].update
                             /\ jobs'[j].session = jobs[j].session
  BY <1>1, <1>2 DEF Job, Phase
<1>4. DOMAIN jobs' = DOMAIN jobs /\ jobs' \in Seq(Job)
  BY <1>1, <1>2, <1>3
<1>5. /\ sessionOf' = [x \in Users |-> 0] /\ address' = <<>>
      /\ events' = <<>> /\ sending' = {} /\ lives' = lives + 1
      /\ UNCHANGED <<clock, sessions, sent>>
  BY DEF Restart
<1>6. \A j \in DOMAIN jobs : jobs[j].session \in 1..sessions
  BY DEF RouteInv, RouteTypes
<1>7. RouteTypes'
  BY <1>3, <1>4, <1>5, <1>6 DEF RouteInv, RouteTypes
<1>8. SessionsSeparate'
  BY <1>3, <1>4, <1>5, <1>6 DEF SessionsSeparate
<1>9. AnswersStayWithUser'
  BY <1>3, <1>5 DEF RouteInv, RouteTypes, AnswersStayWithUser
<1> QED
  BY <1>7, <1>8, <1>9 DEF RouteInv

\* Every step keeps the invariant.
LEMMA RouteNext == RouteInv /\ [Next]_vars => RouteInv'
<1> SUFFICES ASSUME RouteInv, [Next]_vars PROVE RouteInv'
  OBVIOUS
<1>1. ASSUME NEW u \in Updates, Ingest(u) PROVE RouteInv'
  <2>1. CASE WebhookReplayed(u)
    BY <2>1 DEF WebhookReplayed, routeVars, eventVars, RouteInv, RouteTypes,
                SessionsSeparate, AnswersStayWithUser
  <2>2. CASE MessageReplayed(u) \/ Denied(u) \/ Shortcut(u)
    BY <2>2, SessionSteps
  <2>3. CASE Task(u)
    BY <2>3, TaskStep
  <2> QED
    BY <1>1, <2>1, <2>2, <2>3 DEF Ingest
<1>2. CASE \E j \in DOMAIN jobs : Progress(j)
  BY <1>2, ProgressStep
<1>3. CASE Observe
  BY <1>3, ObserveStep
<1>4. CASE \E j \in sending : Send(j)
  BY <1>4, SendStep
<1>5. CASE Tick
  BY <1>5 DEF Tick, routeVars, eventVars, RouteInv, RouteTypes,
              SessionsSeparate, AnswersStayWithUser
<1>6. CASE Restart
  BY <1>6, RestartStep
<1>7. CASE UNCHANGED vars
  BY <1>7 DEF vars, guardVars, routeVars, eventVars, RouteInv, RouteTypes,
              SessionsSeparate, AnswersStayWithUser
<1> QED
  BY <1>1, <1>2, <1>3, <1>4, <1>5, <1>6, <1>7 DEF Next

\* No two users ever share a session, nor does a session's address or job
\* belong to another user than its own (lisa/hub.py 909-924, 359-376, 621).
THEOREM SessionsNeverMix == Spec => []SessionsSeparate
<1>1. RouteInv => SessionsSeparate
  BY DEF RouteInv
<1> QED
  BY RouteInit, RouteNext, <1>1, PTL DEF Spec

\* An answer is only ever sent to a chat of the user who asked
\* (_deliver_chat_response, lisa/hub.py 378-429).
THEOREM AnswersReachTheirUser == Spec => []AnswersStayWithUser
<1>1. RouteInv => AnswersStayWithUser
  BY DEF RouteInv
<1> QED
  BY RouteInit, RouteNext, <1>1, PTL DEF Spec

-----------------------------------------------------------------------------
(* Filtering the table of the guard, by induction on its length            *)

\* A set of numbers with zero, and with the next number of each, has them all.
LEMMA AllNumbers ==
  ASSUME NEW S, 0 \in S, \A n \in Nat : n \in S => n + 1 \in S
  PROVE  Nat \subseteq S
<1> DEFINE less == {ss \in Nat \X Nat : ss[1] < ss[2]}
           T == Nat \ S
<1> SUFFICES ASSUME T # {} PROVE FALSE
  OBVIOUS
<1>1. IsWellFoundedOn(less, Nat)
  <2>1. OpToRel(<, Nat) = less
    BY Zenon DEF OpToRel
  <2> QED
    BY <2>1, NatLessThanWellFounded
<1>2. T \subseteq Nat
  OBVIOUS
<1> HIDE DEF less
<1>3. PICK x \in T : \A y \in T : ~(<<y, x>> \in less)
  <2> HIDE DEF T
  <2> QED
    BY <1>1, <1>2, WFMin
<1>4. x \in Nat /\ x # 0 /\ x \notin S
  OBVIOUS
<1>5. x - 1 \in Nat /\ x - 1 < x /\ x = (x - 1) + 1
  BY <1>4
<1>6. x - 1 \in T
  BY <1>4, <1>5
<1>7. <<x - 1, x>> \in less
  BY <1>4, <1>5 DEF less
<1> QED
  BY <1>3, <1>6, <1>7

\* The step of the filter.
Keeps(a, e) == IF e.expiry > clock THEN Append(a, e) ELSE a

\* The filter's function exists.
LEMMA FilterExists ==
  ASSUME NEW S, NEW s \in Seq(S)
  PROVE  \E f \in [0..Len(s) -> Seq(S)] :
           \A i \in 0..Len(s) : f[i] = IF i = 0 THEN <<>> ELSE Keeps(f[i - 1], s[i])
<1> DEFINE Good(f, n) ==
             \A i \in 0..n : f[i] = IF i = 0 THEN <<>> ELSE Keeps(f[i - 1], s[i])
           Exists(n) == n <= Len(s) => \E f \in [0..n -> Seq(S)] : Good(f, n)
           N == {n \in Nat : Exists(n)}
<1>1. 0 \in N
  <2>1. [i \in 0..0 |-> <<>>] \in [0..0 -> Seq(S)] /\ Good([i \in 0..0 |-> <<>>], 0)
    OBVIOUS
  <2> QED
    BY <2>1
<1>2. ASSUME NEW n \in Nat, n \in N PROVE n + 1 \in N
  <2> SUFFICES ASSUME n + 1 <= Len(s) PROVE \E f \in [0..n + 1 -> Seq(S)] : Good(f, n + 1)
    <3>1. n + 1 \in Nat /\ (n + 1 \in N <=> Exists(n + 1))
      <4> HIDE DEF Exists
      <4> QED
        OBVIOUS
    <3>2. Exists(n + 1)
      OBVIOUS
    <3> HIDE DEF N, Exists
    <3> QED
      BY <3>1, <3>2
  <2>1. PICK f \in [0..n -> Seq(S)] : Good(f, n)
    <3>1. Exists(n)
      <4> HIDE DEF Exists
      <4> QED
        BY <1>2
    <3>2. n <= Len(s)
      OBVIOUS
    <3> HIDE DEF Good
    <3> QED
      BY <3>1, <3>2
  <2> DEFINE e == Keeps(f[n], s[n + 1])
             g == [i \in 0..n + 1 |-> IF i = n + 1 THEN e ELSE f[i]]
  <2>2. e \in Seq(S)
    BY DEF Keeps
  <2> HIDE DEF e
  <2>3. g \in [0..n + 1 -> Seq(S)]
    BY <2>2
  <2>4. ASSUME NEW i \in 0..n + 1
        PROVE  g[i] = IF i = 0 THEN <<>> ELSE Keeps(g[i - 1], s[i])
    <3>1. CASE i = n + 1
      <4>1. g[n + 1] = e /\ g[n] = f[n] /\ i - 1 = n /\ i # 0
        BY <3>1
      <4> QED
        BY <3>1, <4>1 DEF e
    <3>2. CASE i # n + 1
      <4>1. i \in 0..n /\ g[i] = f[i]
        BY <3>2
      <4>2. i # 0 => i - 1 \in 0..n /\ g[i - 1] = f[i - 1]
        BY <4>1
      <4> HIDE DEF g
      <4> QED
        BY <2>1, <4>1, <4>2
    <3> QED
      BY <3>1, <3>2
  <2> QED
    BY <2>3, <2>4
<1>3. Len(s) \in N
  <2> HIDE DEF N
  <2>1. Nat \subseteq N
    BY <1>1, <1>2, AllNumbers
  <2> QED
    BY <2>1
<1> QED
  BY <1>3

\* The filter is computed entry by entry.
LEMMA UnexpiredIs ==
  ASSUME NEW S, NEW s \in Seq(S)
  PROVE  /\ DOMAIN Unexpired(s) = 0..Len(s)
         /\ \A i \in 0..Len(s) :
           Unexpired(s)[i] = IF i = 0 THEN <<>> ELSE Keeps(Unexpired(s)[i - 1], s[i])
<1> DEFINE Def(f) == [i \in 0..Len(s) |->
                        IF i = 0 THEN <<>>
                        ELSE IF s[i].expiry > clock THEN Append(f[i - 1], s[i]) ELSE f[i - 1]]
<1>1. \E f : f = Def(f)
  <2>1. PICK f \in [0..Len(s) -> Seq(S)] :
          \A i \in 0..Len(s) : f[i] = IF i = 0 THEN <<>> ELSE Keeps(f[i - 1], s[i])
    BY FilterExists
  <2>2. \A i \in 0..Len(s) : f[i] = Def(f)[i]
    BY <2>1 DEF Keeps
  <2>3. f = Def(f)
    BY <2>2
  <2> QED
    BY <2>3
<1>2. Unexpired(s) = CHOOSE f : f = Def(f)
  BY DEF Unexpired
<1>3. Unexpired(s) = Def(Unexpired(s))
  <2> HIDE DEF Def
  <2> QED
    BY <1>1, <1>2
<1> QED
  BY <1>3 DEF Keeps

-----------------------------------------------------------------------------
(* The entries of the guard's table, as a set                              *)

Entries(s) == {s[i] : i \in DOMAIN s}

\* Pruning leaves exactly the entries that have not expired, in their order.
LEMMA LiveEntries ==
  ASSUME NEW s \in Seq(Entry)
  PROVE  /\ Live(s) \in Seq(Entry)
         /\ Entries(Live(s)) = {e \in Entries(s) : e.expiry > clock}
<1> DEFINE k == Unexpired(s)
           Upto(i) == {e \in {s[n] : n \in 1..i} : e.expiry > clock}
           Right(i) == i <= Len(s) => k[i] \in Seq(Entry) /\ Entries(k[i]) = Upto(i)
           N == {i \in Nat : Right(i)}
<1>1. \A i \in 0..Len(s) : k[i] = IF i = 0 THEN <<>> ELSE Keeps(k[i - 1], s[i])
  BY UnexpiredIs
<1> HIDE DEF k
<1>2. Right(0)
  <2>1. k[0] = <<>>
    BY <1>1
  <2> QED
    BY <2>1 DEF Entries
<1>3. ASSUME NEW i \in Nat, Right(i), i + 1 <= Len(s)
      PROVE  k[i + 1] \in Seq(Entry) /\ Entries(k[i + 1]) = Upto(i + 1)
  <2> DEFINE e == s[i + 1]
  <2>1. k[i] \in Seq(Entry) /\ Entries(k[i]) = Upto(i)
    BY <1>3
  <2>2. k[i + 1] = Keeps(k[i], e) /\ e \in Entry
    <3>1. i + 1 \in 0..Len(s) /\ i + 1 # 0 /\ (i + 1) - 1 = i
      <4> HIDE DEF Right
      <4> QED
        BY <1>3
    <3> QED
      BY <1>1, <3>1
  <2>3. {s[n] : n \in 1..i + 1} = {s[n] : n \in 1..i} \cup {e}
    OBVIOUS
  <2> HIDE DEF e
  <2>4. CASE e.expiry > clock
    <3>1. k[i + 1] = Append(k[i], e)
      BY <2>2, <2>4 DEF Keeps
    <3>2. Upto(i + 1) = Upto(i) \cup {e}
      BY <2>3, <2>4
    <3>3. Entries(Append(k[i], e)) = Entries(k[i]) \cup {e}
      <4> DEFINE a == k[i]
      <4>1. a \in Seq(Entry)
        BY <2>1
      <4> HIDE DEF a
      <4>2. /\ DOMAIN Append(a, e) = 1..Len(a) + 1 /\ DOMAIN a = 1..Len(a) /\ Len(a) \in Nat
            /\ \A n \in 1..Len(a) : Append(a, e)[n] = a[n]
            /\ Append(a, e)[Len(a) + 1] = e
        BY <2>2, <4>1, AppendProperties
      <4>3. Entries(Append(a, e)) = Entries(a) \cup {e}
        BY <4>2 DEF Entries
      <4> QED
        BY <4>3 DEF a
    <3>4. Append(k[i], e) \in Seq(Entry)
      BY <2>1, <2>2, AppendProperties
    <3> HIDE DEF Upto
    <3> QED
      BY <2>1, <3>1, <3>2, <3>3, <3>4
  <2>5. CASE ~(e.expiry > clock)
    <3>1. k[i + 1] = k[i]
      BY <2>2, <2>5 DEF Keeps
    <3>2. Upto(i + 1) = Upto(i)
      BY <2>3, <2>5
    <3> HIDE DEF Upto
    <3> QED
      BY <2>1, <3>1, <3>2
  <2> QED
    BY <2>4, <2>5
<1>4. Right(Len(s))
  <2>1. 0 \in N
    BY <1>2
  <2>2. ASSUME NEW i \in Nat, i \in N PROVE i + 1 \in N
    <3>1. i + 1 <= Len(s) => i <= Len(s)
      OBVIOUS
    <3>2. Right(i)
      BY <2>2
    <3>3. Right(i + 1)
      BY <1>3, <3>2
    <3> HIDE DEF Right
    <3> QED
      BY <3>3
  <2> HIDE DEF N
  <2>3. Nat \subseteq N
    BY <2>1, <2>2, AllNumbers
  <2>4. Len(s) \in N
    BY <2>3
  <2> HIDE DEF Right
  <2> QED
    BY <2>4 DEF N
<1>5. Upto(Len(s)) = {e \in Entries(s) : e.expiry > clock}
  <2>1. DOMAIN s = 1..Len(s)
    OBVIOUS
  <2> QED
    BY <2>1 DEF Entries
<1>6. Live(s) = k[Len(s)]
  BY DEF Live, k
<1>7. k[Len(s)] \in Seq(Entry) /\ Entries(k[Len(s)]) = Upto(Len(s))
  BY <1>4
<1> HIDE DEF Upto
<1> QED
  BY <1>5, <1>6, <1>7

\* The keys of a table are those of its entries.
LEMMA KeysOfEntries ==
  ASSUME NEW s PROVE KeysIn(s) = {e.key : e \in Entries(s)}
BY DEF KeysIn, Entries

\* Trimming gives up entries and makes none.
LEMMA TrimEntries ==
  ASSUME NEW s \in Seq(Entry)
  PROVE  Trim(s) \in Seq(Entry) /\ Entries(Trim(s)) \subseteq Entries(s)
<1>1. CASE Len(s) <= MaxSeen
  BY <1>1 DEF Trim
<1>2. CASE Len(s) > MaxSeen
  <2> DEFINE m == Len(s) - MaxSeen + 1
             t == SubSeq(s, m, Len(s))
  <2>1. m \in 1..Len(s) /\ MaxSeen \in Nat
    BY <1>2
  <2>2. Trim(s) = t
    BY <1>2 DEF Trim
  <2>3. \A i \in m..Len(s) : s[i] \in Entry
    BY <2>1
  <2>4. /\ t \in Seq(Entry) /\ Len(t) = IF m <= Len(s) THEN Len(s) - m + 1 ELSE 0
        /\ \A i \in 1..Len(s) - m + 1 : t[i] = s[m + i - 1]
    <3> HIDE DEF m
    <3> QED
      BY <2>1, <2>3, SubSeqProperties
  <2> HIDE DEF t, m
  <2>5. ASSUME NEW i \in DOMAIN t PROVE t[i] \in Entries(s)
    <3>1. i \in 1..Len(s) - m + 1 /\ m + i - 1 \in DOMAIN s
      BY <2>1, <2>4
    <3> QED
      BY <2>4, <3>1 DEF Entries
  <2> QED
    BY <2>2, <2>4, <2>5 DEF Entries
<1> QED
  BY <1>1, <1>2

\* Pruning makes no entries.
LEMMA PrunedEntries ==
  ASSUME NEW s \in Seq(Entry)
  PROVE  /\ Pruned(s) \in Seq(Entry)
         /\ Entries(Pruned(s)) \subseteq Entries(s)
BY LiveEntries, TrimEntries DEF Pruned

\* Registering a key adds its entry to what pruning leaves.
LEMMA RegisteredEntries ==
  ASSUME NEW s \in Seq(Entry), NEW key \in Keys, clock \in Nat
  PROVE  /\ Registered(s, key) \in Seq(Entry)
         /\ Entries(Registered(s, key)) =
              Entries(Pruned(s)) \cup {[key |-> key, expiry |-> clock + TTL]}
<1> DEFINE e == [key |-> key, expiry |-> clock + TTL]
           a == Pruned(s)
<1>1. a \in Seq(Entry) /\ e \in Entry
  <2>1. clock + TTL \in Nat
    OBVIOUS
  <2>2. e \in Entry
    BY <2>1 DEF Entry
  <2> QED
    BY <2>2, PrunedEntries
<1> HIDE DEF a, e
<1>2. /\ DOMAIN Append(a, e) = 1..Len(a) + 1 /\ DOMAIN a = 1..Len(a) /\ Len(a) \in Nat
      /\ \A n \in 1..Len(a) : Append(a, e)[n] = a[n]
      /\ Append(a, e)[Len(a) + 1] = e
      /\ Append(a, e) \in Seq(Entry)
  BY <1>1, AppendProperties
<1>3. Entries(Append(a, e)) = Entries(a) \cup {e}
  <2> DEFINE b == Append(a, e)
  <2>1. /\ DOMAIN b = DOMAIN a \cup {Len(a) + 1}
        /\ \A n \in DOMAIN a : b[n] = a[n]
        /\ b[Len(a) + 1] = e
    BY <1>2
  <2> HIDE DEF b
  <2>2. Entries(b) = Entries(a) \cup {e}
    BY <2>1 DEF Entries
  <2> QED
    BY <2>2 DEF b
<1> QED
  BY <1>2, <1>3 DEF Registered, a, e

\* No two entries of a table have one key.
OneEach(s) == \A e, f \in Entries(s) : e.key = f.key => e = f

\* Pruning keeps one entry for a key.
LEMMA PrunedOneEach ==
  ASSUME NEW s \in Seq(Entry), OneEach(s)
  PROVE  OneEach(Pruned(s))
BY PrunedEntries DEF OneEach

\* Registering a key that is not in the table keeps one entry for each.
LEMMA RegisteredOneEach ==
  ASSUME NEW s \in Seq(Entry), NEW key \in Keys, clock \in Nat, OneEach(s), ~Replayed(s, key)
  PROVE  OneEach(Registered(s, key))
<1>1. \A e \in Entries(Pruned(s)) : e.key # key
  BY KeysOfEntries DEF Replayed
<1>2. OneEach(Pruned(s))
  BY PrunedOneEach
<1> DEFINE new == [key |-> key, expiry |-> clock + TTL]
<1>3. Entries(Registered(s, key)) = Entries(Pruned(s)) \cup {new} /\ new.key = key
  BY RegisteredEntries
<1> HIDE DEF new
<1> QED
  BY <1>1, <1>2, <1>3 DEF OneEach

\* Pruning keeps an entry that has not expired, unless it gives up its key.
LEMMA EntryStays ==
  ASSUME NEW s \in Seq(Entry), OneEach(s), NEW e \in Entries(s),
         e.expiry > clock, e.key \notin Forgotten(s)
  PROVE  e \in Entries(Pruned(s))
<1>1. e \in Entries(Live(s))
  BY LiveEntries
<1>2. e.key \in KeysIn(Pruned(s))
  BY <1>1, KeysOfEntries DEF Forgotten
<1>3. PICK f \in Entries(Pruned(s)) : f.key = e.key
  BY <1>2, KeysOfEntries
<1>4. f \in Entries(s)
  BY <1>3, PrunedEntries
<1> QED
  BY <1>3, <1>4 DEF OneEach

-----------------------------------------------------------------------------
(* A message is admitted once                                              *)

\* What the guard's proofs need to know of the types.
GuardTypes ==
  /\ seen \in Seq(Entry) /\ clock \in Nat /\ lives \in Nat /\ jobs \in Seq(Job)
  /\ deliveries \in Nat

\* The keys of an update, those of one delivery and the lasting ones.
LEMMA KeysAreKeys ==
  ASSUME deliveries \in Nat, NEW u \in Updates
  PROVE  WebhookKey(u) \in Keys /\ MessageKey(u) \in Keys
BY DEF WebhookKey, MessageKey, Keys

\* Each lasting key of an update is one that a delivery is checked by.
LEMMA LastingIsChecked ==
  ASSUME NEW u \in Updates, NEW k \in LastingKeys(u)
  PROVE  \/ Keyed(u) /\ k = WebhookKey(u)
         \/ u \in Numbered /\ k = MessageKey(u)
BY DEF LastingKeys, WebhookKey, Keyed

\* The invariant on the guard's table, in terms of its set of entries.
LEMMA GuardByEntries ==
  /\ OneEntryPerKey <=> OneEach(seen)
  /\ AdmittedRemembered <=>
       \A j \in DOMAIN jobs : \A k \in LastingKeys(jobs[j].update) :
         jobs[j].life = lives /\ k \notin evicted =>
           \/ jobs[j].at + TTL <= clock
           \/ \E e \in Entries(seen) : e.key = k /\ e.expiry >= jobs[j].at + TTL
BY DEF OneEntryPerKey, OneEach, AdmittedRemembered, Entries

\* Table t has what is alive in table s, but for the keys that are gone.
Follows(s, t, gone) ==
  /\ t \in Seq(Entry) /\ OneEach(t)
  /\ \A e \in Entries(s) : e.expiry > clock /\ e.key \notin gone => e \in Entries(t)

\* The entry that registering a key makes.
Registering(k) == [key |-> k, expiry |-> clock + TTL]

\* Nothing in s that is alive, and whose key is not gone, has key k.
Unknown(s, k, gone) ==
  \A e \in Entries(s) : e.expiry > clock /\ e.key \notin gone => e.key # k

\* Following is transitive.
LEMMA FollowsTwice ==
  ASSUME NEW s, NEW t, NEW v, NEW A, NEW B, Follows(s, t, A), Follows(t, v, B)
  PROVE  Follows(s, v, A \cup B)
BY DEF Follows

\* Pruning gives up what it forgets, no more.
LEMMA PruneFollows ==
  ASSUME NEW s \in Seq(Entry), OneEach(s)
  PROVE  Follows(s, Pruned(s), Forgotten(s))
BY PrunedEntries, PrunedOneEach, EntryStays DEF Follows

\* A check that does not raise found no entry, and leaves one.
LEMMA RegisterFollows ==
  ASSUME NEW s \in Seq(Entry), OneEach(s), NEW key \in Keys, clock \in Nat, ~Replayed(s, key)
  PROVE  /\ Follows(s, Registered(s, key), Forgotten(s))
         /\ Registering(key) \in Entries(Registered(s, key))
         /\ Unknown(s, key, Forgotten(s))
<1>1. Entries(Registered(s, key)) = Entries(Pruned(s)) \cup {Registering(key)}
  BY RegisteredEntries DEF Registering
<1>2. Registered(s, key) \in Seq(Entry) /\ OneEach(Registered(s, key))
  BY RegisteredEntries, RegisteredOneEach
<1>3. \A e \in Entries(s) : e.expiry > clock /\ e.key \notin Forgotten(s) => e \in Entries(Pruned(s))
  BY EntryStays
<1>4. \A e \in Entries(Pruned(s)) : e.key # key
  BY KeysOfEntries DEF Replayed
<1> QED
  BY <1>1, <1>2, <1>3, <1>4 DEF Follows, Unknown

\* What the check of the request gives up.
WebhookGone(u) == {k \in Forgotten(seen) : Keyed(u)}
MessageGone(u) == {k \in Forgotten(AfterWebhook(u)) : u \in Numbered}

\* The check of the request does not raise.
LEMMA WebhookFollows ==
  ASSUME GuardTypes, OneEach(seen), NEW u \in Updates, ~WebhookSeen(u)
  PROVE  /\ Follows(seen, AfterWebhook(u), WebhookGone(u))
         /\ Keyed(u) => /\ Registering(WebhookKey(u)) \in Entries(AfterWebhook(u))
                        /\ Unknown(seen, WebhookKey(u), WebhookGone(u))
<1>1. CASE Keyed(u)
  <2>1. /\ ~Replayed(seen, WebhookKey(u)) /\ AfterWebhook(u) = Registered(seen, WebhookKey(u))
        /\ WebhookGone(u) = Forgotten(seen) /\ WebhookKey(u) \in Keys
    BY <1>1, KeysAreKeys DEF WebhookSeen, AfterWebhook, WebhookGone, GuardTypes
  <2> QED
    BY <2>1, RegisterFollows DEF GuardTypes
<1>2. CASE ~Keyed(u)
  BY <1>2 DEF AfterWebhook, Follows, GuardTypes
<1> QED
  BY <1>1, <1>2

\* The check of the message does not raise either.
LEMMA MessageFollows ==
  ASSUME GuardTypes, NEW u \in Updates,
         AfterWebhook(u) \in Seq(Entry), OneEach(AfterWebhook(u)), ~MessageSeen(u)
  PROVE  /\ Follows(AfterWebhook(u), AfterMessage(u), MessageGone(u))
         /\ u \in Numbered => /\ Registering(MessageKey(u)) \in Entries(AfterMessage(u))
                              /\ Unknown(AfterWebhook(u), MessageKey(u), MessageGone(u))
<1>1. CASE u \in Numbered
  <2> DEFINE after == AfterWebhook(u)
  <2>1. /\ ~Replayed(after, MessageKey(u)) /\ AfterMessage(u) = Registered(after, MessageKey(u))
        /\ MessageGone(u) = Forgotten(after) /\ MessageKey(u) \in Keys
        /\ after \in Seq(Entry) /\ OneEach(after) /\ clock \in Nat
    BY <1>1, KeysAreKeys DEF MessageSeen, AfterMessage, MessageGone, GuardTypes
  <2> HIDE DEF after
  <2>2. /\ Follows(after, Registered(after, MessageKey(u)), Forgotten(after))
        /\ Registering(MessageKey(u)) \in Entries(Registered(after, MessageKey(u)))
        /\ Unknown(after, MessageKey(u), Forgotten(after))
    BY <2>1, RegisterFollows
  <2> QED
    BY <2>1, <2>2 DEF after
<1>2. CASE u \notin Numbered
  BY <1>2 DEF AfterMessage, Follows
<1> QED
  BY <1>1, <1>2

\* A step of the guard keeps what should be kept.
Guarded ==
  /\ Follows(seen, seen', evicted')
  /\ evicted \subseteq evicted'

\* Both checks of an update do so, whether they pass or raise.
LEMMA CheckGuarded ==
  ASSUME GuardTypes, GuardInv, NEW u \in Updates,
         WebhookReplayed(u) \/ MessageReplayed(u) \/ Passes(u)
  PROVE  Guarded
<1> DEFINE after == AfterWebhook(u)
<1>1. seen \in Seq(Entry) /\ OneEach(seen)
  BY GuardByEntries DEF GuardTypes, GuardInv
<1>2. CASE WebhookReplayed(u)
  <2>1. seen' = Pruned(seen) /\ evicted' = evicted \cup Forgotten(seen)
    BY <1>2 DEF WebhookReplayed
  <2>2. Follows(seen, Pruned(seen), Forgotten(seen))
    BY <1>1, PruneFollows
  <2> QED
    BY <2>1, <2>2 DEF Guarded, Follows
<1>3. CASE MessageReplayed(u) \/ Passes(u)
  <2>1. /\ ~WebhookSeen(u)
        /\ evicted' = evicted \cup GivenUp(u)
        /\ GivenUp(u) = WebhookGone(u) \cup MessageGone(u)
        /\ \/ seen' = Pruned(after) /\ u \in Numbered
           \/ seen' = AfterMessage(u) /\ ~MessageSeen(u)
    BY <1>3 DEF MessageReplayed, Passes, GivenUp, WebhookGone, MessageGone, MessageSeen
  <2>2. Follows(seen, after, WebhookGone(u))
    BY <1>1, <2>1, WebhookFollows
  <2>3. after \in Seq(Entry) /\ OneEach(after)
    BY <2>2 DEF Follows
  <2>4. Follows(after, seen', MessageGone(u))
    <3>1. CASE seen' = Pruned(after) /\ u \in Numbered
      <4>1. MessageGone(u) = Forgotten(after)
        BY <3>1 DEF MessageGone
      <4> HIDE DEF after
      <4>2. Follows(after, Pruned(after), Forgotten(after))
        BY <2>3, PruneFollows
      <4> QED
        BY <3>1, <4>1, <4>2
    <3>2. CASE seen' = AfterMessage(u) /\ ~MessageSeen(u)
      BY <2>3, <3>2, MessageFollows
    <3> QED
      BY <2>1, <3>1, <3>2
  <2>5. Follows(seen, seen', GivenUp(u))
    <3> HIDE DEF after
    <3> QED
      BY <2>1, <2>2, <2>4, FollowsTwice
  <2> QED
    BY <2>1, <2>5 DEF Guarded, Follows
<1> QED
  BY <1>2, <1>3

\* Such a step keeps the invariant while the jobs stay.
LEMMA GuardedStep ==
  ASSUME GuardTypes, GuardInv, Guarded, UNCHANGED <<clock, lives, jobs>>
  PROVE  GuardInv'
<1>1. OneEntryPerKey'
  BY DEF Guarded, Follows, OneEntryPerKey, OneEach, Entries
<1>2. NothingAhead'
  BY DEF GuardInv, NothingAhead
<1>3. AdmittedOnce'
  BY DEF GuardInv, AdmittedOnce, Guarded, LastingKeys, MessageKey
<1>4. AdmittedRemembered'
  <2> SUFFICES ASSUME NEW j \in DOMAIN jobs, NEW k \in LastingKeys(jobs[j].update),
                      jobs[j].life = lives, k \notin evicted',
                      ~(jobs[j].at + TTL <= clock)
               PROVE  \E i \in DOMAIN seen' : seen'[i].key = k /\ seen'[i].expiry >= jobs[j].at + TTL
    BY DEF AdmittedRemembered, LastingKeys, MessageKey
  <2>1. PICK e \in Entries(seen) : e.key = k /\ e.expiry >= jobs[j].at + TTL
    BY GuardByEntries DEF GuardInv, Guarded
  <2>2. jobs[j].at \in Nat /\ clock \in Nat /\ e.expiry \in Nat
    <3>1. jobs[j] \in Job /\ e \in Entry
      BY DEF GuardTypes, Entries
    <3> QED
      BY <3>1 DEF GuardTypes, Job, Entry
  <2>3. e.expiry > clock
    BY <2>1, <2>2
  <2>4. e \in Entries(seen')
    BY <2>1, <2>3 DEF Guarded, Follows
  <2> QED
    BY <2>1, <2>4 DEF Entries
<1> QED
  BY <1>1, <1>2, <1>3, <1>4 DEF GuardInv

\* An update passes only when no entry remembers a lasting key of it, and leaves
\* one that does for each key the guard does not give up at once.
LEMMA PassesFresh ==
  ASSUME GuardTypes, GuardInv, NEW u \in Updates, Passes(u),
         NEW k \in LastingKeys(u), k \notin evicted'
  PROVE  /\ Registering(k) \in Entries(seen')
         /\ Unknown(seen, k, evicted')
<1> DEFINE after == AfterWebhook(u)
<1>1. seen \in Seq(Entry) /\ OneEach(seen) /\ clock \in Nat
  BY GuardByEntries DEF GuardTypes, GuardInv
<1>2. /\ ~WebhookSeen(u) /\ ~MessageSeen(u) /\ seen' = AfterMessage(u)
      /\ WebhookGone(u) \subseteq evicted' /\ MessageGone(u) \subseteq evicted'
  BY DEF Passes, GivenUp, WebhookGone, MessageGone
<1>3. Follows(seen, after, WebhookGone(u)) /\ after \in Seq(Entry) /\ OneEach(after)
  BY <1>1, <1>2, WebhookFollows DEF Follows
<1>4. Follows(after, seen', MessageGone(u))
  BY <1>2, <1>3, MessageFollows
<1>5. CASE Keyed(u) /\ k = WebhookKey(u)
  <2>1. Registering(k) \in Entries(after) /\ Unknown(seen, k, WebhookGone(u))
    BY <1>1, <1>2, <1>5, WebhookFollows
  <2>2. Registering(k).expiry > clock /\ Registering(k).key = k
    BY <1>1 DEF Registering
  <2>3. Registering(k) \in Entries(seen')
    BY <1>2, <1>4, <2>1, <2>2 DEF Follows
  <2> QED
    BY <1>2, <2>1, <2>3 DEF Unknown
<1>6. CASE u \in Numbered /\ k = MessageKey(u)
  <2>1. Registering(k) \in Entries(seen') /\ Unknown(after, k, MessageGone(u))
    BY <1>2, <1>3, <1>6, MessageFollows
  <2> QED
    BY <1>2, <1>3, <2>1 DEF Unknown, Follows
<1> QED
  BY <1>5, <1>6, LastingIsChecked

\* A task that is admitted keeps the invariant.
LEMMA AdmitStep ==
  ASSUME GuardTypes, GuardInv, NEW u \in Updates, Task(u)
  PROVE  GuardInv'
<1>1. Passes(u) /\ UNCHANGED <<clock, lives>>
  BY DEF Task
<1>2. Guarded
  BY <1>1, CheckGuarded
<1>3. CASE UNCHANGED jobs
  BY <1>1, <1>2, <1>3, GuardedStep
<1>4. CASE ~UNCHANGED jobs
  <2> DEFINE job == [update |-> u, session |-> SessionFor(u), phase |-> "queued",
                     at |-> clock, life |-> lives]
             new == Len(jobs) + 1
  <2>1. jobs' = Append(jobs, job)
    BY <1>4 DEF Task
  <2>2. job.update = u /\ job.at = clock /\ job.life = lives
    OBVIOUS
  <2> HIDE DEF job
  <2>3. /\ DOMAIN jobs' = 1..new /\ new \in Nat /\ DOMAIN jobs = 1..Len(jobs)
        /\ \A j \in DOMAIN jobs : j < new /\ jobs'[j] = jobs[j] /\ jobs[j] \in Job
        /\ jobs'[new] = job
    BY <2>1 DEF GuardTypes
  <2>4. \A j \in DOMAIN jobs' : j \in DOMAIN jobs \/ j = new
    BY <2>3
  <2>5. \A j \in DOMAIN jobs : jobs[j].at \in Nat /\ jobs[j].at <= clock /\ jobs[j].life <= lives
    BY <2>3 DEF GuardInv, NothingAhead, Job
  <2>6. clock \in Nat /\ lives \in Nat
    BY DEF GuardTypes
  <2> HIDE DEF new
  <2>7. NothingAhead'
    BY <1>1, <2>2, <2>3, <2>4, <2>5, <2>6 DEF NothingAhead
  <2>8. OneEntryPerKey'
    BY <1>2 DEF Guarded, Follows, OneEntryPerKey, OneEach, Entries
  \* What the guard has of an earlier job of this life.
  <2>9. ASSUME NEW j \in DOMAIN jobs, jobs[j].life = lives,
               NEW k \in LastingKeys(jobs[j].update), k \notin evicted',
               ~(jobs[j].at + TTL <= clock)
        PROVE  \E e \in Entries(seen) : /\ e.key = k
                                        /\ e.expiry >= jobs[j].at + TTL
                                        /\ e.expiry > clock
    <3>1. PICK e \in Entries(seen) : e.key = k /\ e.expiry >= jobs[j].at + TTL
      BY <1>2, <2>9, GuardByEntries DEF GuardInv, Guarded
    <3>2. e.expiry \in Nat
      <4>1. e \in Entry
        BY DEF GuardTypes, Entries
      <4> QED
        BY <4>1 DEF Entry
    <3>3. e.expiry > clock
      BY <2>5, <2>6, <2>9, <3>1, <3>2
    <3> QED
      BY <3>1, <3>3
  <2>10. AdmittedRemembered'
    <3> SUFFICES ASSUME NEW j \in DOMAIN jobs', NEW k \in LastingKeys(jobs'[j].update),
                        jobs'[j].life = lives, k \notin evicted',
                        ~(jobs'[j].at + TTL <= clock)
                 PROVE  \E e \in Entries(seen') : e.key = k /\ e.expiry >= jobs'[j].at + TTL
      BY <1>1 DEF AdmittedRemembered, Entries, LastingKeys, MessageKey
    <3>1. CASE j \in DOMAIN jobs
      <4>1. jobs'[j] = jobs[j]
        BY <2>3, <3>1
      <4>2. PICK e \in Entries(seen) : /\ e.key = k
                                       /\ e.expiry >= jobs[j].at + TTL
                                       /\ e.expiry > clock
        BY <2>9, <3>1, <4>1
      <4>3. e \in Entries(seen')
        BY <1>2, <4>2 DEF Guarded, Follows
      <4> QED
        BY <4>1, <4>2, <4>3
    <3>2. CASE j = new
      <4>1. k \in LastingKeys(u) /\ jobs'[j].at = clock
        BY <2>2, <2>3, <3>2
      <4>2. Registering(k) \in Entries(seen')
        BY <1>1, <4>1, PassesFresh
      <4>3. Registering(k).key = k /\ Registering(k).expiry = clock + TTL /\ clock + TTL \in Nat
        BY <2>6 DEF Registering
      <4> QED
        BY <4>1, <4>2, <4>3
    <3> QED
      BY <2>4, <3>1, <3>2
  <2>11. AdmittedOnce'
    <3> SUFFICES ASSUME NEW m \in DOMAIN jobs', NEW n \in DOMAIN jobs', m < n,
                        jobs'[m].life = lives, jobs'[n].life = lives,
                        NEW k \in LastingKeys(jobs'[m].update) \cap LastingKeys(jobs'[n].update),
                        k \notin evicted'
                 PROVE  jobs'[n].at - jobs'[m].at >= TTL
      BY <1>1 DEF AdmittedOnce, LastingKeys, MessageKey
    <3>1. m \in DOMAIN jobs /\ jobs'[m] = jobs[m]
      BY <2>3, <2>4
    <3>2. CASE n \in DOMAIN jobs
      <4>1. jobs'[n] = jobs[n] /\ k \notin evicted
        BY <1>2, <2>3, <3>2 DEF Guarded
      <4> QED
        BY <3>1, <3>2, <4>1 DEF GuardInv, AdmittedOnce
    <3>3. CASE n = new
      <4>1. k \in LastingKeys(jobs[m].update) /\ k \in LastingKeys(u) /\ jobs'[n].at = clock
        BY <2>2, <2>3, <3>1, <3>3
      <4>2. jobs[m].at + TTL <= clock
        <5> SUFFICES ASSUME ~(jobs[m].at + TTL <= clock) PROVE FALSE
          OBVIOUS
        <5>1. PICK e \in Entries(seen) : e.key = k /\ e.expiry > clock
          BY <2>9, <3>1, <4>1
        <5>2. Unknown(seen, k, evicted')
          BY <1>1, <4>1, PassesFresh
        <5> QED
          BY <5>1, <5>2 DEF Unknown
      <4> QED
        BY <2>5, <2>6, <3>1, <4>1, <4>2
    <3> QED
      BY <2>4, <3>2, <3>3
  <2> QED
    BY <2>7, <2>8, <2>10, <2>11 DEF GuardInv
<1> QED
  BY <1>3, <1>4

\* Changes of phase, and the passage of time.
LEMMA GuardUntouched ==
  ASSUME GuardTypes, GuardInv, UNCHANGED <<seen, evicted, lives>>,
         clock' \in Nat, clock' >= clock, DOMAIN jobs' = DOMAIN jobs,
         \A j \in DOMAIN jobs : /\ jobs'[j].update = jobs[j].update
                                /\ jobs'[j].at = jobs[j].at
                                /\ jobs'[j].life = jobs[j].life
  PROVE  GuardInv'
<1>1. \A j \in DOMAIN jobs : jobs[j].at \in Nat /\ jobs[j].at <= clock /\ jobs[j].life <= lives
  <2>1. \A j \in DOMAIN jobs : jobs[j] \in Job
    BY DEF GuardTypes
  <2> QED
    BY <2>1 DEF GuardInv, NothingAhead, Job
<1>2. clock \in Nat /\ TTL \in Nat
  BY DEF GuardTypes
<1>3. NothingAhead'
  BY <1>1, <1>2 DEF NothingAhead
<1>4. OneEntryPerKey'
  BY DEF GuardInv, OneEntryPerKey
<1>5. AdmittedRemembered'
  <2>1. \A j \in DOMAIN jobs : jobs[j].at + TTL <= clock => jobs[j].at + TTL <= clock'
    BY <1>1, <1>2
  <2> QED
    BY <2>1 DEF GuardInv, AdmittedRemembered, LastingKeys, MessageKey
<1>6. AdmittedOnce'
  BY DEF GuardInv, AdmittedOnce, LastingKeys, MessageKey
<1> QED
  BY <1>3, <1>4, <1>5, <1>6 DEF GuardInv

\* Deliveries are counted.
LEMMA DeliveriesCounted == deliveries \in Nat /\ [Next]_vars => deliveries' \in Nat
<1> SUFFICES ASSUME deliveries \in Nat, [Next]_vars PROVE deliveries' \in Nat
  OBVIOUS
<1>1. CASE \E u \in Updates : Ingest(u)
  BY <1>1 DEF Ingest, WebhookReplayed, MessageReplayed, Denied, Shortcut, Task, Delivered
<1>2. CASE \E j \in DOMAIN jobs : Progress(j)
  BY <1>2 DEF Progress, JobStarts, JobAnswers, JobEnds, inputVars
<1>3. CASE Observe \/ (\E j \in sending : Send(j)) \/ Tick \/ Restart \/ UNCHANGED vars
  BY <1>3 DEF Observe, Send, Tick, Restart, vars, inputVars
<1> QED
  BY <1>1, <1>2, <1>3 DEF Next

\* Every step keeps the guard's invariant.
LEMMA GuardNext == RouteInv /\ GuardTypes /\ GuardInv /\ [Next]_vars => (GuardTypes /\ GuardInv)'
<1> SUFFICES ASSUME RouteInv, GuardTypes, GuardInv, [Next]_vars PROVE seen' \in Seq(Entry) /\ GuardInv'
  BY RouteNext, DeliveriesCounted DEF RouteInv, RouteTypes, GuardTypes
<1>1. ASSUME UNCHANGED <<seen, evicted, clock, lives>>, DOMAIN jobs' = DOMAIN jobs,
         \A j \in DOMAIN jobs : /\ jobs'[j].update = jobs[j].update
                                /\ jobs'[j].at = jobs[j].at
                                /\ jobs'[j].life = jobs[j].life
      PROVE seen' \in Seq(Entry) /\ GuardInv'
  <2>1. clock \in Nat /\ clock' >= clock
    BY <1>1 DEF GuardTypes
  <2> QED
    BY <1>1, <2>1, GuardUntouched DEF GuardTypes
<1>2. ASSUME NEW u \in Updates, WebhookReplayed(u) \/ MessageReplayed(u) \/ Denied(u) \/ Shortcut(u)
      PROVE  seen' \in Seq(Entry) /\ GuardInv'
  <2>1. UNCHANGED <<clock, lives, jobs>>
    BY <1>2 DEF WebhookReplayed, MessageReplayed, Denied, Shortcut
  <2>2. WebhookReplayed(u) \/ MessageReplayed(u) \/ Passes(u)
    BY <1>2 DEF Denied, Shortcut
  <2>3. Guarded
    BY <2>2, CheckGuarded
  <2> QED
    BY <2>1, <2>3, GuardedStep DEF Guarded, Follows
<1>3. ASSUME NEW u \in Updates, Task(u) PROVE seen' \in Seq(Entry) /\ GuardInv'
  <2>1. Guarded
    BY <1>3, CheckGuarded DEF Task
  <2> QED
    BY <1>3, <2>1, AdmitStep DEF Guarded, Follows
<1>4. ASSUME NEW j \in DOMAIN jobs, Progress(j) PROVE seen' \in Seq(Entry) /\ GuardInv'
  <2>1. /\ \E phase \in Phase : jobs' = [jobs EXCEPT ![j].phase = phase]
        /\ UNCHANGED <<seen, evicted, clock, lives>>
    BY <1>4 DEF Progress, JobStarts, JobAnswers, JobEnds, Moves, Phase, guardVars
  <2>2. \A k \in DOMAIN jobs : jobs[k] \in Job
    BY DEF GuardTypes
  <2>3. /\ DOMAIN jobs' = DOMAIN jobs
        /\ \A k \in DOMAIN jobs : /\ jobs'[k].update = jobs[k].update
                                   /\ jobs'[k].at = jobs[k].at
                                   /\ jobs'[k].life = jobs[k].life
    BY <2>1, <2>2 DEF Job
  <2> QED
    BY <1>1, <2>1, <2>3
<1>5. CASE Observe \/ (\E j \in sending : Send(j)) \/ UNCHANGED vars
  BY <1>1, <1>5 DEF Observe, Send, vars, guardVars
<1>6. CASE Tick
  <2>1. clock' \in Nat /\ clock' >= clock /\ UNCHANGED <<seen, evicted, lives, jobs>>
    BY <1>6 DEF Tick, GuardTypes
  <2> QED
    BY <2>1, GuardUntouched DEF GuardTypes
<1>7. CASE Restart
  <2>1. PICK S \in SUBSET DOMAIN jobs :
          jobs' = [j \in DOMAIN jobs |->
                     [jobs[j] EXCEPT !.phase = IF j \in S THEN "queued"
                                               ELSE IF @ = "ended" THEN @ ELSE "lost"]]
    BY <1>7 DEF Restart
  <2>2. \A k \in DOMAIN jobs : jobs[k] \in Job
    BY DEF GuardTypes
  <2>3. /\ DOMAIN jobs' = DOMAIN jobs
        /\ \A k \in DOMAIN jobs : /\ jobs'[k].at = jobs[k].at
                                   /\ jobs'[k].life = jobs[k].life
    BY <2>1, <2>2 DEF Job
  <2>4. lives' = lives + 1 /\ clock' = clock /\ seen' = <<>> /\ evicted' = {} /\ lives \in Nat
    BY <1>7 DEF Restart, GuardTypes
  <2>5. \A k \in DOMAIN jobs : jobs[k].life \in Nat /\ jobs[k].life <= lives
    BY <2>2 DEF GuardInv, NothingAhead, Job
  <2>6. \A k \in DOMAIN jobs' : jobs'[k].life # lives' /\ jobs'[k].life <= lives'
    BY <2>3, <2>4, <2>5
  <2>7. NothingAhead'
    BY <2>3, <2>4, <2>6 DEF GuardInv, NothingAhead
  <2>8. OneEntryPerKey' /\ seen' \in Seq(Entry)
    BY <2>4 DEF OneEntryPerKey
  <2>9. AdmittedRemembered' /\ AdmittedOnce'
    BY <2>6 DEF AdmittedRemembered, AdmittedOnce
  <2> QED
    BY <2>7, <2>8, <2>9 DEF GuardInv
<1> QED
  BY <1>2, <1>3, <1>4, <1>5, <1>6, <1>7 DEF Next, Ingest

\* However often it is delivered, a message enters the conductor once in the
\* lifetime of its guard entry (check_message, safety/replay_guard.py 36-61).
THEOREM MessagesAdmittedOnce == Spec => []AdmittedOnce
<1>1. Init => GuardTypes /\ GuardInv
  BY DEF Init, GuardTypes, GuardInv, NothingAhead, OneEntryPerKey, AdmittedRemembered, AdmittedOnce
<1>2. GuardInv => AdmittedOnce
  BY DEF GuardInv
<1> QED
  BY <1>1, <1>2, RouteInit, RouteNext, GuardNext, PTL DEF Spec

-----------------------------------------------------------------------------
(* A published answer is accounted for                                     *)

Elements(s) == {s[i] : i \in DOMAIN s}

\* What a queue has after an append, and without its head.
LEMMA AppendElements ==
  ASSUME NEW S, NEW s \in Seq(S), NEW e \in S
  PROVE  Elements(Append(s, e)) = Elements(s) \cup {e}
<1>1. /\ DOMAIN Append(s, e) = 1..Len(s) + 1 /\ DOMAIN s = 1..Len(s) /\ Len(s) \in Nat
      /\ \A n \in 1..Len(s) : Append(s, e)[n] = s[n]
      /\ Append(s, e)[Len(s) + 1] = e
  BY AppendProperties
<1> QED
  BY <1>1 DEF Elements

\* The elements of a queue are its head and those of its tail.
LEMMA TailElements ==
  ASSUME NEW S, NEW s \in Seq(S), s # <<>>
  PROVE  Tail(s) \in Seq(S) /\ Elements(s) = Elements(Tail(s)) \cup {Head(s)}
<1>1. /\ Head(s) = s[1] /\ Tail(s) \in Seq(S) /\ Len(Tail(s)) = Len(s) - 1
      /\ \A i \in 1..Len(Tail(s)) : Tail(s)[i] = s[i + 1]
      /\ Len(s) \in Nat /\ Len(s) >= 1 /\ DOMAIN s = 1..Len(s) /\ DOMAIN Tail(s) = 1..Len(Tail(s))
  BY HeadTailProperties
<1>2. Elements(Tail(s)) \cup {Head(s)} \subseteq Elements(s)
  <2>1. \A i \in DOMAIN Tail(s) : i + 1 \in DOMAIN s /\ Tail(s)[i] = s[i + 1]
    BY <1>1
  <2>2. 1 \in DOMAIN s
    BY <1>1
  <2> QED
    BY <1>1, <2>1, <2>2 DEF Elements
<1>3. ASSUME NEW i \in DOMAIN s PROVE s[i] \in Elements(Tail(s)) \cup {Head(s)}
  <2>1. CASE i = 1
    BY <1>1, <2>1
  <2>2. CASE i # 1
    <3>1. i - 1 \in DOMAIN Tail(s) /\ Tail(s)[i - 1] = s[i]
      BY <1>1, <2>2
    <3> QED
      BY <3>1 DEF Elements
  <2> QED
    BY <2>1, <2>2
<1>4. Elements(s) \subseteq Elements(Tail(s)) \cup {Head(s)}
  BY <1>3 DEF Elements
<1> QED
  BY <1>1, <1>2, <1>4

\* Publishing adds an event; one that falls out is remembered as dropped.
LEMMA PublishKeeps ==
  ASSUME events \in Seq(Event), NEW e \in Event, Publish(e)
  PROVE  /\ e \in Elements(events')
         /\ dropped \subseteq dropped'
         /\ \A f \in Elements(events) : f # Other => f \in Elements(events') \cup dropped'
<1>1. CASE Len(events) >= EventRoom
  <2>1. events # <<>>
    BY <1>1
  <2>2. Tail(events) \in Seq(Event) /\ Elements(events) = Elements(Tail(events)) \cup {Head(events)}
    BY <2>1, TailElements
  <2>3. Elements(Append(Tail(events), e)) = Elements(Tail(events)) \cup {e}
    <3> DEFINE rest == Tail(events)
    <3>1. rest \in Seq(Event)
      BY <2>2
    <3> HIDE DEF rest
    <3>2. Elements(Append(rest, e)) = Elements(rest) \cup {e}
      BY <3>1, AppendElements
    <3> QED
      BY <3>2 DEF rest
  <2>4. events' = Append(Tail(events), e) /\ dropped' = dropped \cup ({Head(events)} \ {Other})
    BY <1>1 DEF Publish
  <2> QED
    BY <2>2, <2>3, <2>4
<1>2. CASE ~(Len(events) >= EventRoom)
  <2>1. events' = Append(events, e) /\ dropped' = dropped
    BY <1>2 DEF Publish
  <2> QED
    BY <2>1, AppendElements
<1> QED
  BY <1>1, <1>2

Responded(j) == [type |-> "responded", job |-> j]

\* The event of an answer is one about a job.
LEMMA RespondedIsEvent ==
  ASSUME NEW j \in Nat
  PROVE  Responded(j) \in Event /\ Responded(j) # Other /\ Other \in Event
<1>1. Responded(j) \in Event /\ Other \in Event
  BY DEF Responded, Event, Other
<1>2. Responded(j).type = "responded" /\ Other.type = "other"
  BY DEF Responded, Other
<1> QED
  BY <1>1, <1>2

\* Its session has no address, and is from before a restart.
Homeless(j) ==
  /\ jobs[j].session \notin DOMAIN address /\ lives > 1
  /\ \A x \in Users : sessionOf[x] # jobs[j].session

\* Where the answer of a job is, in terms of sets.
Accounted(j) ==
  \/ Responded(j) \in Elements(events)
  \/ j \in sending
  \/ \E a \in sent : a.job = j /\ a.life = lives
  \/ Responded(j) \in dropped
  \/ Homeless(j)

\* The property, answer by answer.
LEMMA AccountedIs ==
  AnswersAccounted <=> \A j \in published : Accounted(j)
BY DEF AnswersAccounted, Accounted, Elements, Responded, Queued, Lost, Homeless

\* The same of the next state.
LEMMA AccountedIsNext ==
  AnswersAccounted' <=> \A j \in published' : Accounted(j)'
BY DEF AnswersAccounted, Accounted, Elements, Responded, Queued, Lost, Homeless

\* A step that keeps routes and answers on their way.
LEMMA AccountedStays ==
  ASSUME AnswerInv, UNCHANGED <<address, lives, sessionOf>>,
         sending \subseteq sending', sent \subseteq sent', dropped \subseteq dropped',
         DOMAIN jobs' = DOMAIN jobs, published' \subseteq DOMAIN jobs,
         \A j \in DOMAIN jobs : jobs'[j].session = jobs[j].session,
         \A j \in published' :
           \/ Accounted(j)'
           \/ /\ j \in published
              /\ Responded(j) \in Elements(events) => Responded(j) \in Elements(events') \cup dropped'
  PROVE  AnswerInv'
<1>1. JobsAddressed'
  BY DEF AnswerInv, JobsAddressed
<1>2. ASSUME NEW j \in published' PROVE Accounted(j)'
  <2>1. CASE j \in published /\ (Responded(j) \in Elements(events)
                                 => Responded(j) \in Elements(events') \cup dropped')
    <3>1. Accounted(j)
      BY <2>1, AccountedIs DEF AnswerInv
    <3>2. Responded(j)' = Responded(j)
      BY DEF Responded
    <3>3. Elements(events)' = Elements(events')
      BY DEF Elements
    <3>4. Homeless(j) => Homeless(j)'
      BY <1>2 DEF Homeless
    <3> QED
      BY <2>1, <3>1, <3>2, <3>3, <3>4 DEF Accounted
  <2> QED
    BY <1>2, <2>1
<1> QED
  BY <1>1, <1>2, AccountedIsNext DEF AnswerInv

\* Jobs are numbered, events are typed.
LEMMA JobsNumbered ==
  ASSUME RouteInv PROVE DOMAIN jobs \subseteq Nat /\ jobs \in Seq(Job) /\ events \in Seq(Event)
BY DEF RouteInv, RouteTypes

\* A job that answers, ends or starts.
LEMMA ProgressAccounted ==
  ASSUME RouteInv, AnswerInv, NEW j \in DOMAIN jobs, Progress(j)
  PROVE  AnswerInv'
<1>1. PICK type \in {"started", "responded", "ended"}, phase \in Phase :
        /\ Moves(j, phase) /\ Publish([type |-> type, job |-> j])
        /\ published' = published \/ (type = "responded" /\ published' = published \cup {j})
  <2>1. CASE JobStarts(j)
    BY <2>1 DEF JobStarts, Phase
  <2>2. CASE JobAnswers(j)
    BY <2>2 DEF JobAnswers, Phase
  <2>3. CASE JobEnds(j)
    BY <2>3 DEF JobEnds, Phase
  <2> QED
    BY <2>1, <2>2, <2>3 DEF Progress
<1>2. UNCHANGED <<address, lives, sessionOf, sending, sent>>
  BY DEF Progress, JobStarts, JobAnswers, JobEnds, routeVars
<1>3. DOMAIN jobs' = DOMAIN jobs /\ \A k \in DOMAIN jobs : jobs'[k].session = jobs[k].session
  BY <1>1, MovesTypes
<1>5. published' \subseteq DOMAIN jobs
  BY <1>1 DEF AnswerInv
<1> DEFINE e == [type |-> type, job |-> j]
<1>6. e \in Event
  BY JobsNumbered DEF Event
<1>7. /\ e \in Elements(events') /\ dropped \subseteq dropped'
      /\ \A f \in Elements(events) : f # Other => f \in Elements(events') \cup dropped'
  <2> HIDE DEF e
  <2>1. Publish(e)
    BY <1>1 DEF e
  <2> QED
    BY <1>6, <2>1, JobsNumbered, PublishKeeps
<1>8. \A k \in DOMAIN jobs : Responded(k) # Other
  BY JobsNumbered, RespondedIsEvent
<1>9. ASSUME NEW k \in published'
      PROVE  \/ Accounted(k)'
             \/ /\ k \in published
                /\ Responded(k) \in Elements(events) => Responded(k) \in Elements(events') \cup dropped'
  <2>1. CASE k = j /\ type = "responded"
    <3>1. e = Responded(j)
      BY <2>1 DEF Responded
    <3>2. Responded(j) \in Elements(events)'
      BY <1>7, <3>1 DEF Elements
    <3> QED
      BY <2>1, <3>2 DEF Accounted, Responded
  <2>2. CASE k \in published
    BY <1>5, <1>7, <1>8, <2>2
  <2> QED
    BY <1>1, <2>1, <2>2
<1> QED
  BY <1>2, <1>3, <1>5, <1>7, <1>9, AccountedStays

\* The observer hands an answer to a delivery task.
LEMMA ObserveAccounted ==
  ASSUME RouteInv, AnswerInv, Observe
  PROVE  AnswerInv'
<1>1. /\ events # <<>> /\ events' = Tail(events)
      /\ sending' = SendingAfter(Head(events))
      /\ UNCHANGED <<address, lives, sessionOf, sent, dropped, jobs, published>>
  BY DEF Observe, routeVars
<1>2. Elements(events) = Elements(events') \cup {Head(events)}
  BY <1>1, JobsNumbered, TailElements
<1>3. sending \subseteq sending'
  BY <1>1 DEF SendingAfter
<1>4. ASSUME NEW k \in published
      PROVE  \/ Accounted(k)'
             \/ Responded(k) \in Elements(events) => Responded(k) \in Elements(events') \cup dropped'
  <2>1. CASE Head(events) = Responded(k)
    <3>1. k \in sending'
      BY <1>1, <2>1 DEF SendingAfter, Responded
    <3> QED
      BY <3>1 DEF Accounted
  <2>2. CASE Head(events) # Responded(k)
    BY <1>2, <2>2
  <2> QED
    BY <2>1, <2>2
<1> QED
  BY <1>1, <1>3, <1>4, AccountedStays DEF AnswerInv

\* A delivery task sends its answer, or finds no address after a restart.
LEMMA SendAccounted ==
  ASSUME RouteInv, AnswerInv, NEW j \in sending, Send(j)
  PROVE  AnswerInv'
<1>1. /\ sending' = sending \ {j}
      /\ UNCHANGED <<address, lives, sessionOf, jobs, published>>
  BY DEF Send, routeVars
<1>2. j \in DOMAIN jobs
  BY DEF RouteInv, RouteTypes
<1>3. JobsAddressed'
  BY <1>1 DEF AnswerInv, JobsAddressed
<1>4. /\ sent \subseteq sent' /\ dropped \subseteq dropped'
      /\ \A k \in DOMAIN jobs : Responded(k) \in Elements(events) =>
           Responded(k) \in Elements(events') \cup dropped'
  <2>1. CASE UNCHANGED <<sent, eventVars>>
    BY <2>1 DEF eventVars
  <2>2. CASE Publish(Other) /\ sent \subseteq sent'
    <3>1. \A k \in DOMAIN jobs : Responded(k) # Other
      BY JobsNumbered, RespondedIsEvent
    <3>2. Other \in Event
      BY JobsNumbered, RespondedIsEvent, <1>2
    <3> QED
      BY <2>2, <3>1, <3>2, JobsNumbered, PublishKeeps
  <2> QED
    BY <2>1, <2>2 DEF Send
<1>5. (\E a \in sent' : a.job = j /\ a.life = lives) \/ Homeless(j)
  <2>1. CASE jobs[j].session \in DOMAIN address
    <3> DEFINE a == [job |-> j, chat |-> ChatOf[address[jobs[j].session]], life |-> lives]
    <3>1. a \in sent' /\ a.job = j /\ a.life = lives
      BY <2>1 DEF Send
    <3> HIDE DEF a
    <3> QED
      BY <3>1
  <2>2. CASE jobs[j].session \notin DOMAIN address
    BY <1>2, <2>2 DEF AnswerInv, JobsAddressed, Homeless
  <2> QED
    BY <2>1, <2>2
<1>6. ASSUME NEW k \in published PROVE Accounted(k)'
  <2>1. Accounted(k) /\ k \in DOMAIN jobs
    BY AccountedIs DEF AnswerInv
  <2>2. /\ Responded(k)' = Responded(k) /\ Elements(events)' = Elements(events')
        /\ Homeless(k)' <=> Homeless(k)
    BY <1>1 DEF Responded, Elements, Homeless
  <2>3. CASE k = j
    BY <1>1, <1>5, <2>2, <2>3 DEF Accounted
  <2>4. CASE k # j
    BY <1>1, <1>4, <2>1, <2>2, <2>4 DEF Accounted
  <2> QED
    BY <2>3, <2>4
<1> QED
  BY <1>1, <1>3, <1>6, AccountedIsNext DEF AnswerInv

\* A new job has its address, and no old one gets its address back.
LEMMA IngestAccounted ==
  ASSUME RouteInv, AnswerInv, NEW u \in Updates, Ingest(u)
  PROVE  AnswerInv'
<1>1. /\ UNCHANGED <<lives, events, sending, sent, dropped, published>>
      /\ lives \in Nat /\ sessions \in Nat /\ jobs \in Seq(Job)
      /\ sessionOf \in [Users -> 0..sessions] /\ UserOf[u] \in Users
      /\ \A j \in DOMAIN jobs : jobs[j].session \in 1..sessions
  BY DEF Ingest, WebhookReplayed, MessageReplayed, Denied, Shortcut, Task, eventVars,
     RouteInv, RouteTypes
<1>2. PICK s \in Nat :
        /\ s = sessionOf[UserOf[u]] \/ s > sessions
        /\ sessionOf' = [sessionOf EXCEPT ![UserOf[u]] = s]
        /\ \/ UNCHANGED <<address, jobs>>
           \/ /\ s = SessionFor(u)
              /\ address' = [r \in DOMAIN address \cup {s} |-> IF r = s THEN u ELSE address[r]]
              /\ \/ UNCHANGED jobs
                 \/ jobs' = Append(jobs, [update |-> u, session |-> s, phase |-> "queued",
                                          at |-> clock, life |-> lives])
  <2>1. CASE WebhookReplayed(u)
    <3>1. sessionOf' = [sessionOf EXCEPT ![UserOf[u]] = sessionOf[UserOf[u]]]
          /\ sessionOf[UserOf[u]] \in Nat /\ UNCHANGED <<address, jobs>>
      BY <1>1, <2>1 DEF WebhookReplayed, routeVars
    <3> QED
      BY <3>1
  <2>2. CASE (MessageReplayed(u) \/ Denied(u) \/ Shortcut(u)) /\ Normalise(u)
    <3>1. UNCHANGED <<address, jobs>>
      BY <2>2 DEF MessageReplayed, Denied, Shortcut
    <3> QED
      BY <2>2, <3>1, NormaliseSession
  <2>3. CASE Shortcut(u) /\ ~Normalise(u)
    <3> DEFINE last == IF SessionFor(u) > sessions THEN SessionFor(u) ELSE sessions
    <3>1. sessionOf' = [sessionOf EXCEPT ![UserOf[u]] = last + 1] /\ UNCHANGED <<address, jobs>>
      BY <2>3 DEF Shortcut
    <3>2. last + 1 \in Nat /\ last + 1 > sessions
      BY <1>1 DEF SessionFor
    <3> HIDE DEF last
    <3> QED
      BY <3>1, <3>2
  <2>4. CASE Task(u)
    <3>1. Normalise(u)
      BY <2>4 DEF Task
    <3>2. /\ SessionFor(u) \in Nat
          /\ SessionFor(u) = sessionOf[UserOf[u]] \/ SessionFor(u) > sessions
          /\ sessionOf' = [sessionOf EXCEPT ![UserOf[u]] = SessionFor(u)]
      BY <3>1, NormaliseSession
    <3>3. /\ address' = [r \in DOMAIN address \cup {SessionFor(u)} |->
                           IF r = SessionFor(u) THEN u ELSE address[r]]
          /\ \/ UNCHANGED jobs
             \/ jobs' = Append(jobs, [update |-> u, session |-> SessionFor(u), phase |-> "queued",
                                      at |-> clock, life |-> lives])
      BY <2>4 DEF Task
    <3> QED
      BY <3>2, <3>3
  <2> QED
    BY <2>1, <2>2, <2>3, <2>4 DEF Ingest, MessageReplayed, Denied
<1> DEFINE job == [update |-> u, session |-> s, phase |-> "queued", at |-> clock, life |-> lives]
<1>3. job.session = s /\ job.phase = "queued"
  OBVIOUS
<1> HIDE DEF job
<1>4. /\ DOMAIN address \subseteq DOMAIN address' /\ DOMAIN address' \subseteq DOMAIN address \cup {s}
      /\ DOMAIN jobs \subseteq DOMAIN jobs' /\ \A j \in DOMAIN jobs : jobs'[j] = jobs[j]
      /\ \A j \in DOMAIN jobs' \ DOMAIN jobs : jobs'[j] = job /\ s \in DOMAIN address'
  <2>1. job \in Job
    BY <1>1 DEF job, Job, Phase, RouteInv, RouteTypes
  <2>2. jobs' = jobs \/ (jobs' = Append(jobs, job) /\ s \in DOMAIN address')
    BY <1>2 DEF job
  <2>3. CASE jobs' = jobs
    BY <1>2, <2>3
  <2>4. CASE jobs' = Append(jobs, job) /\ s \in DOMAIN address'
    <3>1. /\ DOMAIN jobs' = 1..Len(jobs) + 1 /\ DOMAIN jobs = 1..Len(jobs) /\ Len(jobs) \in Nat
          /\ \A j \in 1..Len(jobs) : jobs'[j] = jobs[j]
          /\ jobs'[Len(jobs) + 1] = job
      BY <1>1, <2>1, <2>4, AppendProperties
    <3>2. DOMAIN address \subseteq DOMAIN address' /\ DOMAIN address' \subseteq DOMAIN address \cup {s}
      BY <1>2
    <3> QED
      BY <2>4, <3>1, <3>2
  <2> QED
    BY <2>2, <2>3, <2>4
<1>5. \A j \in DOMAIN jobs : jobs[j].session \notin DOMAIN address => jobs[j].session # s
  BY <1>1, <1>2 DEF AnswerInv, JobsAddressed
<1>6. JobsAddressed'
  <2>1. ASSUME NEW j \in DOMAIN jobs', jobs'[j].session \notin DOMAIN address'
        PROVE  lives > 1 /\ \A x \in Users : sessionOf'[x] # jobs'[j].session
    <3>1. j \in DOMAIN jobs /\ jobs'[j] = jobs[j]
      BY <1>3, <1>4, <2>1
    <3>2. jobs[j].session \notin DOMAIN address /\ jobs[j].session # s
      BY <1>4, <1>5, <2>1, <3>1
    <3>3. lives > 1 /\ \A x \in Users : sessionOf[x] # jobs[j].session
      BY <3>1, <3>2 DEF AnswerInv, JobsAddressed
    <3> QED
      BY <1>1, <1>2, <3>1, <3>2, <3>3
  <2> QED
    BY <1>1, <2>1 DEF AnswerInv, JobsAddressed
<1>7. ASSUME NEW j \in published PROVE Accounted(j)'
  <2>1. j \in DOMAIN jobs /\ jobs'[j] = jobs[j]
    BY <1>4 DEF AnswerInv
  <2>2. Accounted(j)
    BY AccountedIs DEF AnswerInv
  <2>3. Homeless(j) => Homeless(j)'
    <3>1. Homeless(j) => jobs[j].session \notin DOMAIN address' /\ jobs[j].session # s
      BY <1>4, <1>5, <2>1 DEF Homeless
    <3> QED
      BY <1>1, <1>2, <2>1, <3>1 DEF Homeless
  <2>4. Responded(j)' = Responded(j) /\ Elements(events)' = Elements(events)
    BY <1>1 DEF Responded, Elements
  <2> QED
    BY <1>1, <2>2, <2>3, <2>4 DEF Accounted
<1>8. published' \subseteq DOMAIN jobs'
  BY <1>1, <1>4 DEF AnswerInv
<1> QED
  BY <1>1, <1>6, <1>7, <1>8, AccountedIsNext DEF AnswerInv

\* A restart leaves no answer on its way.
LEMMA RestartAccounted ==
  ASSUME RouteInv, AnswerInv, Restart
  PROVE  AnswerInv'
<1>1. PICK S \in SUBSET DOMAIN jobs :
        jobs' = [j \in DOMAIN jobs |->
                   [jobs[j] EXCEPT !.phase = IF j \in S THEN "queued"
                                             ELSE IF @ = "ended" THEN @ ELSE "lost"]]
  BY DEF Restart
<1>2. \A j \in DOMAIN jobs : jobs[j] \in Job /\ jobs[j].session \in 1..sessions
  BY DEF RouteInv, RouteTypes
<1>3. /\ DOMAIN jobs' = DOMAIN jobs
      /\ \A j \in DOMAIN jobs : jobs'[j].session = jobs[j].session
  BY <1>1, <1>2 DEF Job
<1>4. lives' > 1 /\ sessionOf' = [x \in Users |-> 0] /\ sessions \in Nat
  BY DEF Restart, AnswerInv, JobsAddressed, RouteInv, RouteTypes
<1>5. JobsAddressed'
  <2>1. \A j \in DOMAIN jobs : \A x \in Users : sessionOf'[x] # jobs'[j].session
    BY <1>2, <1>3, <1>4
  <2>2. lives \in Nat /\ lives' = lives + 1
    BY DEF Restart, RouteInv, RouteTypes
  <2> QED
    BY <1>3, <1>4, <2>1, <2>2 DEF JobsAddressed
<1> QED
  BY <1>5, AccountedIsNext DEF AnswerInv, Restart

\* Every step keeps every published answer accounted for.
LEMMA AnswerNext == RouteInv /\ AnswerInv /\ [Next]_vars => AnswerInv'
<1> SUFFICES ASSUME RouteInv, AnswerInv, [Next]_vars PROVE AnswerInv'
  OBVIOUS
<1>1. CASE \E u \in Updates : Ingest(u)
  BY <1>1, IngestAccounted
<1>2. CASE \E j \in DOMAIN jobs : Progress(j)
  BY <1>2, ProgressAccounted
<1>3. CASE Observe
  BY <1>3, ObserveAccounted
<1>4. CASE \E j \in sending : Send(j)
  BY <1>4, SendAccounted
<1>5. CASE Tick \/ UNCHANGED vars
  <2>1. UNCHANGED <<routeVars, jobs, eventVars, sending, lives, answerVars>>
    BY <1>5 DEF Tick, vars
  <2> QED
    BY <2>1 DEF routeVars, eventVars, AnswerInv, JobsAddressed, AnswersAccounted, Queued, Lost
<1>6. CASE Restart
  BY <1>6, RestartAccounted
<1> QED
  BY <1>1, <1>2, <1>3, <1>4, <1>5, <1>6 DEF Next

\* Nothing is published yet.
LEMMA AnswerInit == Init => AnswerInv
BY DEF Init, AnswerInv, JobsAddressed, AnswersAccounted

\* Every answer published in this life is on its way, sent, or dropped by the
\* full queue, or has a session of an earlier life that no user has any more
\* (_observe_events and _deliver_chat_response, lisa/hub.py 305-429).
THEOREM NoAnswerVanishes == Spec => []AnswersAccounted
<1>1. AnswerInv => AnswersAccounted
  BY DEF AnswerInv
<1> QED
  BY <1>1, AnswerInit, AnswerNext, RouteInit, RouteNext, PTL DEF Spec

-----------------------------------------------------------------------------
(* The dashboard's active jobs                                             *)

\* The queue after an append, place by place; its head, and its tail.
LEMMA AppendPlaces ==
  ASSUME NEW S, NEW s \in Seq(S), NEW e \in S
  PROVE  /\ DOMAIN Append(s, e) = DOMAIN s \cup {Len(s) + 1}
         /\ DOMAIN s \subseteq Nat /\ Len(s) \in Nat
         /\ \A i \in DOMAIN s : i < Len(s) + 1 /\ Append(s, e)[i] = s[i]
         /\ Append(s, e)[Len(s) + 1] = e
<1>1. /\ DOMAIN Append(s, e) = 1..Len(s) + 1 /\ DOMAIN s = 1..Len(s) /\ Len(s) \in Nat
      /\ \A n \in 1..Len(s) : Append(s, e)[n] = s[n]
      /\ Append(s, e)[Len(s) + 1] = e
  BY AppendProperties
<1> QED
  BY <1>1

LEMMA TailPlaces ==
  ASSUME NEW S, NEW s \in Seq(S), s # <<>>
  PROVE  /\ DOMAIN s \subseteq Nat \ {0} /\ 1 \in DOMAIN s /\ Head(s) = s[1]
         /\ \A i \in DOMAIN s : i # 1 => i - 1 \in DOMAIN Tail(s)
         /\ \A i \in DOMAIN Tail(s) : i \in Nat /\ i + 1 \in DOMAIN s /\ Tail(s)[i] = s[i + 1]
BY HeadTailProperties

\* Taking the head away keeps starts in order.
LEMMA OrderedTail ==
  ASSUME NEW s \in Seq(Event), s # <<>>, NEW W, Ordered(s, W)
  PROVE  Ordered(Tail(s), W)
<1> DEFINE t == Tail(s)
<1>1. /\ DOMAIN s \subseteq Nat \ {0}
      /\ \A i \in DOMAIN s : i # 1 => i - 1 \in DOMAIN t
      /\ \A i \in DOMAIN t : i \in Nat /\ i + 1 \in DOMAIN s /\ t[i] = s[i + 1]
  BY TailPlaces
<1> HIDE DEF t
<1>2. ASSUME NEW i \in DOMAIN t, t[i].type = "started", t[i].job \notin W
      PROVE  \E k \in DOMAIN t : k > i /\ t[k] = [type |-> "ended", job |-> t[i].job]
  <2>1. PICK k \in DOMAIN s : k > i + 1 /\ s[k] = [type |-> "ended", job |-> s[i + 1].job]
    BY <1>1, <1>2 DEF Ordered
  <2>2. k - 1 \in DOMAIN t /\ k - 1 > i /\ t[k - 1] = s[k]
    BY <1>1, <2>1
  <2> QED
    BY <1>1, <2>1, <2>2
<1>3. Ordered(t, W)
  BY <1>2 DEF Ordered
<1> QED
  BY <1>3 DEF t

\* So does an append, when the jobs that stop working are announced by it.
LEMMA OrderedAppend ==
  ASSUME NEW s \in Seq(Event), NEW e \in Event, NEW W, NEW V, Ordered(s, W),
         \A x \in W : x \in V \/ e = [type |-> "ended", job |-> x],
         e.type = "started" => e.job \in V
  PROVE  Ordered(Append(s, e), V)
<1> DEFINE t == Append(s, e)
           last == Len(s) + 1
<1>1. /\ DOMAIN t = DOMAIN s \cup {last}
      /\ \A i \in DOMAIN s : i < last /\ t[i] = s[i]
      /\ t[last] = e
  BY AppendPlaces
<1> HIDE DEF t, last
<1>2. ASSUME NEW i \in DOMAIN t, t[i].type = "started", t[i].job \notin V
      PROVE  \E k \in DOMAIN t : k > i /\ t[k] = [type |-> "ended", job |-> t[i].job]
  <2>1. i \in DOMAIN s /\ t[i] = s[i]
    BY <1>1, <1>2
  <2>2. CASE s[i].job \in W
    <3>1. e = [type |-> "ended", job |-> s[i].job] /\ i < last
      BY <1>1, <1>2, <2>1, <2>2
    <3>2. last > i
      <4>1. DOMAIN s \subseteq Nat /\ last \in Nat
        BY AppendPlaces DEF last
      <4> QED
        BY <2>1, <3>1, <4>1
    <3> QED
      BY <1>1, <2>1, <3>1, <3>2
  <2>3. CASE s[i].job \notin W
    <3>1. PICK k \in DOMAIN s : k > i /\ s[k] = [type |-> "ended", job |-> s[i].job]
      BY <1>2, <2>1, <2>3 DEF Ordered
    <3> QED
      BY <1>1, <2>1, <3>1
  <2> QED
    BY <2>2, <2>3
<1>3. Ordered(t, V)
  BY <1>2 DEF Ordered
<1> QED
  BY <1>3 DEF t

\* And so does a publication, full queue or not; it announces nothing else.
LEMMA PublishOrdered ==
  ASSUME events \in Seq(Event), NEW e \in Event, Publish(e), NEW W, NEW V, Ordered(events, W),
         \A x \in W : x \in V \/ e = [type |-> "ended", job |-> x],
         e.type = "started" => e.job \in V
  PROVE  /\ Ordered(events', V)
         /\ Elements(events') \cup dropped' \subseteq Elements(events) \cup dropped \cup {e}
<1>1. CASE Len(events) >= EventRoom
  <2> DEFINE rest == Tail(events)
  <2>1. events # <<>>
    BY <1>1
  <2>2. rest \in Seq(Event) /\ Elements(events) = Elements(rest) \cup {Head(events)} /\ Ordered(rest, W)
    BY <2>1, TailElements, OrderedTail
  <2>3. events' = Append(rest, e) /\ dropped' \subseteq dropped \cup {Head(events)}
    BY <1>1 DEF Publish
  <2> HIDE DEF rest
  <2>4. Ordered(Append(rest, e), V) /\ Elements(Append(rest, e)) = Elements(rest) \cup {e}
    BY <2>2, OrderedAppend, AppendElements
  <2> QED
    BY <2>2, <2>3, <2>4
<1>2. CASE ~(Len(events) >= EventRoom)
  <2>1. events' = Append(events, e) /\ dropped' = dropped
    BY <1>2 DEF Publish
  <2> QED
    BY <2>1, OrderedAppend, AppendElements
<1> QED
  BY <1>1, <1>2

\* The invariant in terms of sets of events.
LEMMA ActiveIs ==
  /\ EventsInOrder <=>
       /\ \A f \in Elements(events) \cup dropped :
            f.type = "ended" => f.job \in DOMAIN jobs /\ jobs[f.job].phase = "ended"
       /\ Ordered(events, Working)
  /\ ActiveAccounted <=>
       /\ \A j \in active \ Working : [type |-> "ended", job |-> j] \in Elements(events) \cup dropped
       /\ \A j \in Working \ active : [type |-> "started", job |-> j] \in Elements(events) \cup dropped
BY DEF EventsInOrder, ActiveAccounted, Queued, Lost, Elements

\* A step that publishes what changes about the jobs at work.
LEMMA ActivePublish ==
  ASSUME RouteInv, ActiveInv, NEW e \in Event, Publish(e), UNCHANGED active,
         DOMAIN jobs' = DOMAIN jobs, e.type # "other" => e.job \in DOMAIN jobs,
         \A x \in Working : x \in Working' \/ e = [type |-> "ended", job |-> x],
         \A x \in Working' : x \in Working \/ e = [type |-> "started", job |-> x],
         e.type = "started" => e.job \in Working',
         \A k \in DOMAIN jobs :
           e = [type |-> "ended", job |-> k] \/ jobs[k].phase = "ended" => jobs'[k].phase = "ended"
  PROVE  ActiveInv'
<1> DEFINE old == Elements(events) \cup dropped
           now == Elements(events') \cup dropped'
<1>1. events \in Seq(Event) /\ DOMAIN jobs \subseteq Nat
  BY JobsNumbered
<1>2. Ordered(events', Working') /\ now \subseteq old \cup {e}
  <2>1. Ordered(events, Working)
    BY ActiveIs DEF ActiveInv
  <2> QED
    BY <1>1, <2>1, PublishOrdered
<1>3. e \in now /\ \A f \in old : f # Other => f \in now
  BY <1>1, PublishKeeps
<1>4. /\ \A f \in old : f.type = "ended" => f.job \in DOMAIN jobs /\ jobs[f.job].phase = "ended"
      /\ \A j \in active \ Working : [type |-> "ended", job |-> j] \in old
      /\ \A j \in Working \ active : [type |-> "started", job |-> j] \in old
  BY ActiveIs DEF ActiveInv
<1> HIDE DEF old
<1>5. \A j : /\ [type |-> "ended", job |-> j] # Other
             /\ [type |-> "started", job |-> j] # Other
  <2>1. Other.type = "other"
    BY DEF Other
  <2> QED
    BY <2>1
<1>6. \A f \in now : f.type = "ended" => f.job \in DOMAIN jobs /\ jobs'[f.job].phase = "ended"
  <2>1. e.type = "ended" => e = [type |-> "ended", job |-> e.job]
    BY DEF Event
  <2> HIDE DEF now
  <2> QED
    BY <1>2, <1>4, <2>1
<1>7. /\ \A j \in active \ Working' : [type |-> "ended", job |-> j] \in now
      /\ \A j \in Working' \ active : [type |-> "started", job |-> j] \in now
  <2> HIDE DEF now
  <2> QED
    BY <1>3, <1>4, <1>5
<1>8. EventsInOrder' /\ ActiveAccounted'
  BY <1>2, <1>6, <1>7 DEF EventsInOrder, ActiveAccounted, Queued, Lost, Elements, Ordered
<1> QED
  BY <1>8 DEF ActiveInv

\* A job that starts, answers or ends.
LEMMA ProgressActive ==
  ASSUME RouteInv, ActiveInv, NEW j \in DOMAIN jobs, Progress(j)
  PROVE  ActiveInv'
<1>1. /\ UNCHANGED active
      /\ \/ jobs[j].phase = "queued" /\ Moves(j, "running") /\ Publish([type |-> "started", job |-> j])
         \/ jobs[j].phase = "running" /\ Moves(j, "answered") /\ Publish([type |-> "responded", job |-> j])
         \/ jobs[j].phase \in {"running", "answered"} /\ Moves(j, "ended")
            /\ Publish([type |-> "ended", job |-> j])
  BY DEF Progress, JobStarts, JobAnswers, JobEnds
<1>2. PICK type \in {"started", "responded", "ended"}, phase \in Phase :
        /\ Moves(j, phase) /\ Publish([type |-> type, job |-> j])
        /\ \/ jobs[j].phase = "queued" /\ phase = "running" /\ type = "started"
           \/ jobs[j].phase = "running" /\ phase = "answered" /\ type = "responded"
           \/ jobs[j].phase \in {"running", "answered"} /\ phase = "ended" /\ type = "ended"
  BY <1>1 DEF Phase
<1> DEFINE e == [type |-> type, job |-> j]
<1>3. e \in Event /\ e.type = type /\ e.job = j
  BY JobsNumbered DEF Event
<1>4. /\ DOMAIN jobs' = DOMAIN jobs /\ jobs'[j].phase = phase
      /\ \A k \in DOMAIN jobs : k # j => jobs'[k] = jobs[k]
  <2>1. jobs[j] \in Job
    BY JobsNumbered
  <2> QED
    BY <1>2, <2>1 DEF Moves, Job
<1>5. Publish(e)
  BY <1>2
<1>6. \A k : e = [type |-> "ended", job |-> k] <=> type = "ended" /\ k = j
  OBVIOUS
<1>7. \A k : e = [type |-> "started", job |-> k] <=> type = "started" /\ k = j
  OBVIOUS
<1> HIDE DEF e
<1>8. /\ \A x \in Working : x \in Working' \/ e = [type |-> "ended", job |-> x]
      /\ \A x \in Working' : x \in Working \/ e = [type |-> "started", job |-> x]
      /\ e.type = "started" => e.job \in Working'
  BY <1>2, <1>3, <1>4, <1>6, <1>7 DEF Working
<1>9. \A k \in DOMAIN jobs :
        e = [type |-> "ended", job |-> k] \/ jobs[k].phase = "ended" => jobs'[k].phase = "ended"
  BY <1>2, <1>4, <1>6
<1> QED
  BY <1>1, <1>3, <1>4, <1>5, <1>8, <1>9, ActivePublish

\* The observer takes the oldest event.
LEMMA ObserveActive ==
  ASSUME RouteInv, ActiveInv, Observe
  PROVE  ActiveInv'
<1> DEFINE rest == Tail(events)
           e == Head(events)
<1>1. /\ events \in Seq(Event) /\ events # <<>> /\ events' = rest
      /\ active' = ActiveAfter(e) /\ UNCHANGED <<jobs, dropped>>
  BY JobsNumbered DEF Observe
<1>2. /\ rest \in Seq(Event) /\ Elements(events) = Elements(rest) \cup {e}
      /\ Ordered(rest, Working) /\ e \in Event
  <2>1. Ordered(events, Working)
    BY ActiveIs DEF ActiveInv
  <2> QED
    BY <1>1, <2>1, TailElements, OrderedTail
<1>3. /\ \A f \in Elements(events) \cup dropped :
           f.type = "ended" => f.job \in DOMAIN jobs /\ jobs[f.job].phase = "ended"
      /\ \A j \in active \ Working : [type |-> "ended", job |-> j] \in Elements(events) \cup dropped
      /\ \A j \in Working \ active : [type |-> "started", job |-> j] \in Elements(events) \cup dropped
  BY ActiveIs DEF ActiveInv
\* The start that is taken is of a job at work, or its end is in the rest.
<1>4. e.type = "started" /\ e.job \notin Working
        => [type |-> "ended", job |-> e.job] \in Elements(rest)
  <2> SUFFICES ASSUME e.type = "started", e.job \notin Working
               PROVE  [type |-> "ended", job |-> e.job] \in Elements(rest)
    OBVIOUS
  <2>1. /\ DOMAIN events \subseteq Nat \ {0} /\ 1 \in DOMAIN events /\ e = events[1]
        /\ \A i \in DOMAIN events : i # 1 => i - 1 \in DOMAIN rest
        /\ \A i \in DOMAIN rest : i \in Nat /\ i + 1 \in DOMAIN events /\ rest[i] = events[i + 1]
    BY <1>1, TailPlaces
  <2> HIDE DEF rest, e
  <2>2. PICK k \in DOMAIN events : k > 1 /\ events[k] = [type |-> "ended", job |-> e.job]
    BY <2>1, ActiveIs DEF ActiveInv, Ordered
  <2>3. k - 1 \in DOMAIN rest /\ rest[k - 1] = events[k]
    BY <2>1, <2>2
  <2> QED
    BY <2>2, <2>3 DEF Elements
<1> HIDE DEF rest, e
<1>5. /\ e.type = "ended" => e = [type |-> "ended", job |-> e.job]
      /\ e.type = "started" => e = [type |-> "started", job |-> e.job]
  BY <1>2 DEF Event
<1>6. \A j \in active' \ Working : [type |-> "ended", job |-> j] \in Elements(rest) \cup dropped
  <2> SUFFICES ASSUME NEW j \in active' \ Working
               PROVE  [type |-> "ended", job |-> j] \in Elements(rest) \cup dropped
    OBVIOUS
  <2>1. CASE e.type = "started" /\ j = e.job
    BY <1>4, <2>1
  <2>2. CASE j \in active /\ ~(e.type = "ended" /\ j = e.job)
    <3>1. [type |-> "ended", job |-> j] # e
      BY <2>2
    <3> QED
      BY <1>2, <1>3, <2>2, <3>1
  <2> QED
    BY <1>1, <2>1, <2>2 DEF ActiveAfter
<1>7. \A j \in Working \ active' : [type |-> "started", job |-> j] \in Elements(rest) \cup dropped
  <2> SUFFICES ASSUME NEW j \in Working, j \notin active'
               PROVE  [type |-> "started", job |-> j] \in Elements(rest) \cup dropped
    OBVIOUS
  <2>1. CASE j \in active
    <3>1. e.type = "ended" /\ j = e.job
      BY <1>1, <2>1 DEF ActiveAfter
    <3>2. jobs[j].phase = "ended"
      BY <1>2, <1>3, <3>1
    <3> QED
      BY <3>2 DEF Working
  <2>2. CASE j \notin active
    <3>1. e # [type |-> "started", job |-> j]
      BY <1>1 DEF ActiveAfter
    <3> QED
      BY <1>2, <1>3, <2>2, <3>1
  <2> QED
    BY <2>1, <2>2
<1>8. Working' = Working
  BY <1>1 DEF Working
<1>9. \A f \in Elements(rest) \cup dropped :
        f.type = "ended" => f.job \in DOMAIN jobs /\ jobs[f.job].phase = "ended"
  BY <1>2, <1>3
<1>10. EventsInOrder' /\ ActiveAccounted'
  BY <1>1, <1>2, <1>6, <1>7, <1>8, <1>9
     DEF EventsInOrder, ActiveAccounted, Queued, Lost, Elements, Ordered
<1> QED
  BY <1>10 DEF ActiveInv

\* Every step keeps the active jobs accounted for.
LEMMA ActiveNext == RouteInv /\ ActiveInv /\ [Next]_vars => ActiveInv'
<1> SUFFICES ASSUME RouteInv, ActiveInv, [Next]_vars PROVE ActiveInv'
  OBVIOUS
\* What adds no job at work, takes none away and publishes nothing.
<1>1. ASSUME UNCHANGED <<events, dropped, active>>, Working' = Working,
             \A k \in DOMAIN jobs : k \in DOMAIN jobs' /\ jobs'[k].phase = jobs[k].phase
      PROVE  ActiveInv'
  BY <1>1 DEF ActiveInv, EventsInOrder, ActiveAccounted, Queued, Lost, Ordered
<1>2. ASSUME NEW u \in Updates, Ingest(u) PROVE ActiveInv'
  <2>1. UNCHANGED <<events, dropped, active>>
    BY <1>2 DEF Ingest, WebhookReplayed, MessageReplayed, Denied, Shortcut, Task, eventVars
  <2>2. CASE UNCHANGED jobs
    BY <1>1, <2>1, <2>2 DEF Working
  <2>3. CASE ~UNCHANGED jobs
    <3> DEFINE job == [update |-> u, session |-> SessionFor(u), phase |-> "queued",
                       at |-> clock, life |-> lives]
    <3>1. jobs' = Append(jobs, job) /\ job.phase = "queued" /\ jobs \in Seq(Job)
      BY <1>2, <2>3, JobsNumbered DEF Ingest, WebhookReplayed, MessageReplayed, Denied, Shortcut, Task
    <3> HIDE DEF job
    <3>2. /\ DOMAIN jobs' = DOMAIN jobs \cup {Len(jobs) + 1}
          /\ \A k \in DOMAIN jobs : jobs'[k] = jobs[k]
          /\ jobs'[Len(jobs) + 1] = job
      BY <3>1
    <3>3. Working' = Working
      BY <3>1, <3>2 DEF Working
    <3> QED
      BY <1>1, <2>1, <3>2, <3>3
  <2> QED
    BY <2>2, <2>3
<1>3. CASE \E j \in DOMAIN jobs : Progress(j)
  BY <1>3, ProgressActive
<1>4. CASE Observe
  BY <1>4, ObserveActive
<1>5. ASSUME NEW j \in sending, Send(j) PROVE ActiveInv'
  <2>1. UNCHANGED <<active, jobs>>
    BY <1>5 DEF Send
  <2>2. CASE UNCHANGED eventVars
    BY <1>1, <2>1, <2>2 DEF eventVars, Working
  <2>3. CASE Publish(Other)
    <3>1. Other \in Event /\ Other.type = "other"
      BY DEF Other, Event
    <3> QED
      BY <2>1, <2>3, <3>1, ActivePublish DEF Working
  <2> QED
    BY <1>5, <2>2, <2>3 DEF Send
<1>6. CASE Tick \/ UNCHANGED vars
  BY <1>1, <1>6 DEF Tick, vars, eventVars, Working
<1>7. CASE Restart
  <2>1. events' = <<>> /\ dropped' = {} /\ active' = {}
    BY <1>7 DEF Restart
  <2>2. Working' = {}
    <3>1. \A k \in DOMAIN jobs : jobs[k] \in Job
      BY JobsNumbered
    <3>2. DOMAIN jobs' = DOMAIN jobs /\ \A k \in DOMAIN jobs : jobs'[k].phase \in {"queued", "ended", "lost"}
      BY <1>7, <3>1 DEF Restart, Job
    <3> QED
      BY <3>2 DEF Working
  <2> QED
    BY <2>1, <2>2 DEF ActiveInv, EventsInOrder, ActiveAccounted, Ordered
<1> QED
  BY <1>2, <1>3, <1>4, <1>5, <1>6, <1>7 DEF Next

\* Whatever the order of starts, answers, ends and observations, the jobs the
\* dashboard holds active are those at work, up to events on their way and
\* events that fell out of the queue (observe, lisa/hub.py 47-58).
THEOREM ActivityAccounted == Spec => []ActiveAccounted
<1>1. Init => ActiveInv
  BY DEF Init, ActiveInv, EventsInOrder, ActiveAccounted, Working, Ordered
<1>2. ActiveInv => ActiveAccounted
  BY DEF ActiveInv
<1> QED
  BY <1>1, <1>2, ActiveNext, RouteInit, RouteNext, PTL DEF Spec

-----------------------------------------------------------------------------
(* Type correctness                                                        *)

\* An event that is about a job is about one there is.
KnownEvents == \A f \in Elements(events) : f.type # "other" => f.job \in DOMAIN jobs

\* The types of what RouteTypes leaves out.
OtherTypes ==
  /\ active \subseteq DOMAIN jobs
  /\ reply \in [Updates -> Replies]
  /\ evicted \subseteq Keys
  /\ dropped \subseteq Event
  /\ \A a \in sent :
       a \in [job : DOMAIN jobs, chat : {ChatOf[u] : u \in Updates}, life : Nat]

TypeInv == RouteInv /\ GuardTypes /\ GuardInv /\ AnswerInv /\ KnownEvents /\ OtherTypes

\* What the guard gives up are keys.
LEMMA ForgottenAreKeys ==
  ASSUME NEW s \in Seq(Entry) PROVE Forgotten(s) \subseteq Keys
<1>1. \A e \in Entries(Live(s)) : e \in Entry
  BY LiveEntries DEF Entries
<1> QED
  BY <1>1, KeysOfEntries DEF Forgotten, Entry

\* Published events are events, and so are dropped ones.
LEMMA PublishKnown ==
  ASSUME RouteInv, KnownEvents, dropped \subseteq Event, NEW e \in Event, Publish(e),
         e.type # "other" => e.job \in DOMAIN jobs
  PROVE  /\ dropped' \subseteq Event
         /\ \A f \in Elements(events') : f.type # "other" => f.job \in DOMAIN jobs
<1>1. events \in Seq(Event)
  BY JobsNumbered
<1>2. CASE Len(events) >= EventRoom
  <2>1. events # <<>>
    BY <1>2
  <2> DEFINE rest == Tail(events)
  <2>2. rest \in Seq(Event) /\ Elements(events) = Elements(rest) \cup {Head(events)}
    BY <1>1, <2>1, TailElements
  <2>3. Head(events) \in Event
    BY <1>1, <2>1
  <2>4. events' = Append(rest, e) /\ dropped' = dropped \cup ({Head(events)} \ {Other})
    BY <1>2 DEF Publish
  <2> HIDE DEF rest
  <2>5. Elements(Append(rest, e)) = Elements(rest) \cup {e}
    BY <2>2, AppendElements
  <2> QED
    BY <2>2, <2>3, <2>4, <2>5 DEF KnownEvents
<1>3. CASE ~(Len(events) >= EventRoom)
  <2>1. events' = Append(events, e) /\ dropped' = dropped
    BY <1>3 DEF Publish
  <2>2. Elements(events') = Elements(events) \cup {e}
    BY <1>1, <2>1, AppendElements
  <2> QED
    BY <2>1, <2>2 DEF KnownEvents
<1> QED
  BY <1>2, <1>3

\* The hub answers in its own words.
LEMMA DeliveredTypes ==
  ASSUME OtherTypes, NEW u \in Updates, NEW r \in Replies, Delivered(u, r)
  PROVE  reply' \in [Updates -> Replies]
BY DEF OtherTypes, Delivered

\* An update that is delivered keeps the types.
LEMMA IngestTypes ==
  ASSUME TypeInv, NEW u \in Updates, Ingest(u)
  PROVE  OtherTypes' /\ KnownEvents'
<1>1. UNCHANGED <<events, sent, dropped, active>>
  BY DEF Ingest, WebhookReplayed, MessageReplayed, Denied, Shortcut, Task, eventVars
<1>2. reply' \in [Updates -> Replies]
  <2>1. \E r \in Replies : Delivered(u, r)
    <3>1. CASE WebhookReplayed(u) \/ MessageReplayed(u)
      BY <3>1 DEF WebhookReplayed, MessageReplayed, Replies
    <3>2. CASE Denied(u)
      BY <3>2 DEF Denied, Replies
    <3>3. CASE Shortcut(u)
      BY <3>3 DEF Shortcut, Replies
    <3>4. CASE Task(u)
      BY <3>4 DEF Task, Replies
    <3> QED
      BY <3>1, <3>2, <3>3, <3>4 DEF Ingest
  <2> QED
    BY <2>1, DeliveredTypes DEF TypeInv
<1>3. evicted' \subseteq Keys
  <2>1. seen \in Seq(Entry) /\ clock \in Nat
    BY DEF TypeInv, GuardTypes
  <2>2. AfterWebhook(u) \in Seq(Entry)
    BY <2>1, KeysAreKeys, RegisteredEntries DEF AfterWebhook, TypeInv, GuardTypes
  <2>3. evicted' \subseteq evicted \cup Forgotten(seen) \cup Forgotten(AfterWebhook(u))
    BY DEF Ingest, WebhookReplayed, MessageReplayed, Denied, Shortcut, Task, Passes, GivenUp
  <2> QED
    BY <2>1, <2>2, <2>3, ForgottenAreKeys DEF TypeInv, OtherTypes
<1>4. DOMAIN jobs \subseteq DOMAIN jobs'
  <2>1. CASE Task(u) /\ ~UNCHANGED jobs
    <3> DEFINE job == [update |-> u, session |-> SessionFor(u), phase |-> "queued",
                       at |-> clock, life |-> lives]
    <3>1. jobs' = Append(jobs, job)
      BY <2>1 DEF Task
    <3> HIDE DEF job
    <3> QED
      BY <3>1, JobsNumbered DEF TypeInv
  <2> QED
    BY <2>1 DEF Ingest, WebhookReplayed, MessageReplayed, Denied, Shortcut, Task
<1>5. OtherTypes'
  BY <1>1, <1>2, <1>3, <1>4 DEF TypeInv, OtherTypes
<1> QED
  BY <1>1, <1>4, <1>5 DEF TypeInv, KnownEvents, Elements

\* A job that goes on keeps the types.
LEMMA ProgressTypes ==
  ASSUME TypeInv, NEW j \in DOMAIN jobs, Progress(j)
  PROVE  OtherTypes' /\ KnownEvents'
<1>1. PICK type \in {"started", "responded", "ended"}, phase \in Phase :
        Moves(j, phase) /\ Publish([type |-> type, job |-> j])
  <2>1. CASE JobStarts(j)
    BY <2>1 DEF JobStarts, Phase
  <2>2. CASE JobAnswers(j)
    BY <2>2 DEF JobAnswers, Phase
  <2>3. CASE JobEnds(j)
    BY <2>3 DEF JobEnds, Phase
  <2> QED
    BY <2>1, <2>2, <2>3 DEF Progress
<1> DEFINE e == [type |-> type, job |-> j]
<1>2. e \in Event /\ e.job \in DOMAIN jobs
  BY JobsNumbered DEF Event, TypeInv
<1>3. Publish(e)
  BY <1>1
<1>4. DOMAIN jobs' = DOMAIN jobs /\ UNCHANGED <<active, reply, evicted, sent>>
  BY <1>1, MovesTypes DEF Progress, JobStarts, JobAnswers, JobEnds, guardVars, inputVars, TypeInv
<1> HIDE DEF e
<1>5. /\ dropped' \subseteq Event
      /\ \A f \in Elements(events') : f.type # "other" => f.job \in DOMAIN jobs
  BY <1>2, <1>3, PublishKnown DEF TypeInv, OtherTypes
<1> QED
  BY <1>4, <1>5 DEF TypeInv, OtherTypes, KnownEvents, Elements

\* The observer keeps the types.
LEMMA ObserveTypes ==
  ASSUME TypeInv, Observe
  PROVE  OtherTypes' /\ KnownEvents'
<1>1. /\ events # <<>> /\ events' = Tail(events) /\ active' = ActiveAfter(Head(events))
      /\ UNCHANGED <<jobs, reply, evicted, dropped, sent>>
  BY DEF Observe, guardVars, inputVars
<1>2. Elements(events) = Elements(events') \cup {Head(events)}
  BY <1>1, JobsNumbered, TailElements DEF TypeInv
<1>3. Head(events).type # "other" => Head(events).job \in DOMAIN jobs
  BY <1>2 DEF TypeInv, KnownEvents
<1>4. active' \subseteq DOMAIN jobs
  BY <1>1, <1>3 DEF ActiveAfter, TypeInv, OtherTypes
<1> QED
  BY <1>1, <1>2, <1>4 DEF TypeInv, OtherTypes, KnownEvents, Elements

\* A delivery task keeps the types.
LEMMA SendTypes ==
  ASSUME TypeInv, NEW j \in sending, Send(j)
  PROVE  OtherTypes' /\ KnownEvents'
<1>1. j \in DOMAIN jobs /\ lives \in Nat /\ \A s \in DOMAIN address : address[s] \in Updates
  BY DEF TypeInv, RouteInv, RouteTypes
<1>2. UNCHANGED <<jobs, active, reply, evicted>>
  BY DEF Send, guardVars, inputVars
<1>3. \A a \in sent' :
        a \in [job : DOMAIN jobs, chat : {ChatOf[u] : u \in Updates}, life : Nat]
  BY <1>1 DEF Send, TypeInv, OtherTypes
<1>4. /\ dropped' \subseteq Event
      /\ \A f \in Elements(events') : f.type # "other" => f.job \in DOMAIN jobs
  <2>1. CASE UNCHANGED eventVars
    BY <2>1 DEF eventVars, TypeInv, OtherTypes, KnownEvents
  <2>2. CASE Publish(Other)
    <3>1. Other \in Event /\ Other.type = "other"
      BY DEF Other, Event
    <3> QED
      BY <2>2, <3>1, PublishKnown DEF TypeInv, OtherTypes
  <2> QED
    BY <2>1, <2>2 DEF Send
<1> QED
  BY <1>2, <1>3, <1>4 DEF TypeInv, OtherTypes, KnownEvents, Elements

\* Every step keeps the types.
LEMMA TypeNext == TypeInv /\ [Next]_vars => TypeInv'
<1> SUFFICES ASSUME TypeInv, [Next]_vars PROVE OtherTypes' /\ KnownEvents'
  BY RouteNext, GuardNext, AnswerNext DEF TypeInv
<1>1. CASE \E u \in Updates : Ingest(u)
  BY <1>1, IngestTypes
<1>2. CASE \E j \in DOMAIN jobs : Progress(j)
  BY <1>2, ProgressTypes
<1>3. CASE Observe
  BY <1>3, ObserveTypes
<1>4. CASE \E j \in sending : Send(j)
  BY <1>4, SendTypes
<1>5. CASE Tick \/ UNCHANGED vars
  BY <1>5 DEF Tick, vars, guardVars, inputVars, eventVars, TypeInv, OtherTypes, KnownEvents, Elements
<1>6. CASE Restart
  <2>1. DOMAIN jobs' = DOMAIN jobs
    BY <1>6 DEF Restart
  <2> QED
    BY <1>6, <2>1 DEF Restart, inputVars, TypeInv, OtherTypes, KnownEvents, Elements
<1> QED
  BY <1>1, <1>2, <1>3, <1>4, <1>5, <1>6 DEF Next

\* Every variable of the hub keeps its type.
THEOREM HubTypes == Spec => []TypeOK
<1>1. Init => TypeInv
  <2>1. Init => GuardTypes /\ GuardInv
    BY DEF Init, GuardTypes, GuardInv, NothingAhead, OneEntryPerKey, AdmittedRemembered, AdmittedOnce
  <2>2. Init => KnownEvents /\ OtherTypes
    BY DEF Init, KnownEvents, OtherTypes, Elements, Replies
  <2> QED
    BY <2>1, <2>2, RouteInit, AnswerInit DEF TypeInv
<1>2. TypeInv => TypeOK
  BY DEF TypeInv, RouteInv, RouteTypes, GuardTypes, OtherTypes, AnswerInv, TypeOK
<1> QED
  BY <1>1, <1>2, TypeNext, PTL DEF Spec
=============================================================================

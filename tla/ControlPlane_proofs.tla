------------------------- MODULE ControlPlane_proofs -------------------------
(***************************************************************************)
(* Proofs about the control plane: what callers were told of the allow-list *)
(* holds through restarts and deaths, and sessions that are over stay over,  *)
(* for any users, tokens, clients, lives and changes.                        *)
(***************************************************************************)
EXTENDS ControlPlane, TLAPS

USE AccessAssumption, SessionAssumption
-----------------------------------------------------------------------------
(* The allow-list *)

\* A table agrees with what was told of the users.
Agrees(table) ==
  \A u \in Users : /\ told[u] = "in" => u \in table
                   /\ told[u] = "out" /\ u \notin Initial => u \notin table

\* The file agrees at any time, the table in memory while the process runs.
AccessInv ==
  /\ file \subseteq Users /\ rules \subseteq Users /\ up \in BOOLEAN
  /\ told \in [Users -> {"in", "out", "doubt"}]
  /\ Agrees(file)
  /\ up => Agrees(rules)

\* A write leaves the file as it was or makes it the table.
LEMMA PersistLeaves ==
  ASSUME NEW table, NEW result, Persist(table, result)
  PROVE  file' \in {file, table} /\ (result = "ok" => file' = table)
BY DEF Persist

\* Whatever is read and whatever comes of it, a start brings a table that agrees:
\* an entry that is lost is one nothing is known of any more.
LEMMA LoadKeeps ==
  ASSUME AccessInv, NEW result, Load(result)
  PROVE  AccessInv'
<1>1. PICK read \in {file, {}} :
        /\ Persist(read \union Initial, result)
        /\ rules' = IF result = "ok" THEN read \union Initial ELSE {}
        /\ told' = IF read = file \/ file' = file THEN told ELSE InDoubt
  BY DEF Load
<1>2. up' = (result = "ok") /\ read \union Initial \subseteq Users
  BY DEF Load, AccessInv
<1>3. file' \in {file, read \union Initial} /\ (result = "ok" => file' = read \union Initial)
  BY <1>1, PersistLeaves
<1>4. told' \in [Users -> {"in", "out", "doubt"}]
  BY <1>1 DEF AccessInv, InDoubt
<1>5. Agrees(file)'
  <2>1. CASE read = file \/ file' = file
    BY <1>1, <1>3, <2>1 DEF AccessInv, Agrees
  <2>2. CASE read # file /\ file' # file
    <3>1. read = {} /\ file' = Initial /\ told' = InDoubt
      BY <1>1, <1>3, <2>2
    <3> QED
      BY <3>1 DEF AccessInv, Agrees, InDoubt
  <2> QED
    BY <1>1, <1>3, <2>1, <2>2
<1>6. up' => rules' = file'
  BY <1>1, <1>2, <1>3
<1>7. rules' \subseteq Users /\ file' \subseteq Users /\ up' \in BOOLEAN
  BY <1>1, <1>2, <1>3 DEF AccessInv
<1> QED
  BY <1>4, <1>5, <1>6, <1>7 DEF AccessInv, Agrees

\* A change of one user leaves that user as told or in doubt, and the others as
\* they were.
LEMMA ChangeKeeps ==
  ASSUME AccessInv, NEW u \in Users, NEW table \in SUBSET Users,
         NEW answer \in {"in", "out"}, NEW result, Change(u, table, answer, result),
         answer = "in" => table = rules \union {u},
         answer = "out" => table = rules \ {u}
  PROVE  AccessInv'
<1>1. told' = [told EXCEPT ![u] = IF result = "ok" THEN answer ELSE "doubt"]
  BY DEF Change
<1>2. file' \in {file, table} /\ (result = "ok" => file' = table)
  BY PersistLeaves DEF Change
<1>3. rules' \in {{}, table} /\ (up' => rules' = table) /\ up' \in BOOLEAN
  BY DEF Change
<1>4. Agrees(rules) /\ Agrees(file)
  BY DEF AccessInv, Change
<1>5. \A v \in Users \ {u} : told'[v] = told[v] /\ (v \in table <=> v \in rules)
  BY <1>1 DEF AccessInv
<1>6. told'[u] \in {answer, "doubt"} /\ (told'[u] # "doubt" => result = "ok")
  BY <1>1 DEF AccessInv
<1>7. answer = "in" => u \in table
  OBVIOUS
<1>8. answer = "out" => u \notin table
  OBVIOUS
<1>9. Agrees(table)'
  BY <1>4, <1>5, <1>6, <1>7, <1>8 DEF Agrees
<1>10. Agrees(file)'
  BY <1>2, <1>4, <1>5, <1>6, <1>7, <1>8 DEF Agrees
<1>11. told' \in [Users -> {"in", "out", "doubt"}]
  BY <1>1 DEF AccessInv
<1> QED
  BY <1>2, <1>3, <1>9, <1>10, <1>11 DEF AccessInv, Agrees

\* Every step of the system keeps the file and the table in agreement.
LEMMA AccessStep ==
  ASSUME AccessInv, [Next]_vars
  PROVE  AccessInv'
<1>1. CASE UNCHANGED accessVars
  BY <1>1 DEF accessVars, AccessInv, Agrees
<1>2. ASSUME NEW result, Start(result) PROVE AccessInv'
  BY <1>2, LoadKeeps DEF Start
<1>3. ASSUME NEW result, NEW u \in Users, Administer(u, result) PROVE AccessInv'
  <2>1. CASE Grant(u, result)
    BY <2>1, ChangeKeeps DEF Grant, AccessInv
  <2>2. CASE Revoke(u, result)
    BY <2>2, <1>1, ChangeKeeps DEF Revoke, AccessInv
  <2> QED
    BY <1>3, <2>1, <2>2 DEF Administer
<1>4. CASE Stop
  BY <1>4 DEF Stop, Ends, AccessInv, Agrees
<1>5. UNCHANGED accessVars \/ Stop \/ (\E result : Start(result))
        \/ (\E result : \E u \in Users : Administer(u, result))
  BY DEF Next, vars, Pass, Publish, Observer, Observe, TurnTo, Sent, CloseSession, OpenSession,
         Ask, Leave, ConnectHub, ConnectApi, Joined, Push
<1> QED
  BY <1>1, <1>2, <1>3, <1>4, <1>5

\* AccessInv is an inductive invariant.
LEMMA AccessInvariance == Spec => []AccessInv
<1>1. Init => AccessInv
  BY DEF Init, AccessInit, AccessInv, Agrees
<1> QED
  BY <1>1, AccessStep, PTL DEF Spec

\* What callers were told of a user is what the process answers by, in every life
\* of it, unless the list is empty and so open, or its file could not be read:
\* ChannelAccess.AnswersKept.
THEOREM ToldIsKept == Spec => []AnswersKept
<1>1. AccessInv => AnswersKept
  BY DEF AccessInv, Agrees, AnswersKept, IsAuthorized
<1> QED
  BY <1>1, AccessInvariance, PTL
-----------------------------------------------------------------------------
(* Sessions *)

\* The table has tokens that were issued by this process and not logged out,
\* with the end that was set when they were issued.
SessionInv ==
  /\ now \in Nat
  /\ DOMAIN records \subseteq DOMAIN issued /\ over \subseteq DOMAIN issued
  /\ \A t \in DOMAIN issued : issued[t] \in Nat
  /\ \A t \in DOMAIN records : t \notin over /\ records[t].until = issued[t] + Ttl

\* A purge takes records away and changes none.
LEMMA PurgeKeeps ==
  ASSUME SessionInv, LookUp
  PROVE  SessionInv'
BY DEF SessionInv, LookUp, Purged, Kept

\* A new token is not among those that are over.
LEMMA IssueKeeps ==
  ASSUME SessionInv, NEW t, NEW host, Issue(t, host)
  PROVE  SessionInv'
<1>1. t \notin DOMAIN issued /\ UNCHANGED <<now, over>>
  BY DEF Issue
<1>2. DOMAIN issued' = DOMAIN issued \union {t} /\ DOMAIN records' = Kept \union {t}
  BY DEF Issue
<1>3. \A r \in DOMAIN issued' : issued'[r] = IF r = t THEN now ELSE issued[r]
  BY DEF Issue
<1>4. records'[t].until = now + Ttl /\ \A r \in Kept \ {t} : records'[r] = records[r]
  BY DEF Issue
<1>5. Kept \subseteq DOMAIN records
  BY DEF Kept
<1>6. \A r \in DOMAIN issued' : issued'[r] \in Nat
  BY <1>2, <1>3 DEF SessionInv
<1>7. \A r \in DOMAIN records' : r \notin over' /\ records'[r].until = issued'[r] + Ttl
  BY <1>1, <1>2, <1>3, <1>4, <1>5 DEF SessionInv
<1> QED
  BY <1>1, <1>2, <1>5, <1>6, <1>7 DEF SessionInv

\* A token that is logged out leaves the table.
LEMMA LogOutKeeps ==
  ASSUME SessionInv, NEW t, LogOut(t)
  PROVE  SessionInv'
BY DEF SessionInv, LogOut

\* The end of the process ends all sessions.
LEMMA ForgetKeeps ==
  ASSUME SessionInv, Forget
  PROVE  SessionInv'
BY DEF SessionInv, Forget

\* Every step of the system keeps SessionInv.
LEMMA SessionStep ==
  ASSUME SessionInv, [Next]_vars
  PROVE  SessionInv'
<1>1. CASE UNCHANGED sessionVars
  BY <1>1 DEF sessionVars, SessionInv
<1>2. CASE Pass
  BY <1>2 DEF Pass, Tick, SessionInv
<1>3. ASSUME NEW t, CloseSession(t) PROVE SessionInv'
  BY <1>3, LogOutKeeps DEF CloseSession
<1>4. ASSUME NEW t, NEW host, OpenSession(t, host) PROVE SessionInv'
  BY <1>4, IssueKeeps DEF OpenSession
<1>5. CASE LookUp
  BY <1>5, PurgeKeeps
<1>6. CASE Forget
  BY <1>6, ForgetKeeps
<1>7. UNCHANGED sessionVars \/ Pass \/ LookUp \/ Forget \/ (\E t : CloseSession(t))
        \/ (\E t, host : OpenSession(t, host))
  BY DEF Next, vars, Start, Administer, Stop, Lost, Publish, Observer, Observe, TurnTo, Sent,
         Ask, Leave, ConnectHub, ConnectApi, Joined, Push
<1> QED
  BY <1>1, <1>2, <1>3, <1>4, <1>5, <1>6, <1>7

\* SessionInv is an inductive invariant.
LEMMA SessionInvariance == Spec => []SessionInv
<1>1. Init => SessionInv
  BY DEF Init, SessionInit, SessionInv
<1> QED
  BY <1>1, SessionStep, PTL DEF Spec

\* A token that is over is good for nobody: SessionAuth.OverIsOver.
THEOREM OverStaysOver == Spec => []OverIsOver
<1>1. SessionInv => OverIsOver
  BY DEF SessionInv, OverIsOver, Valid, Kept
<1> QED
  BY <1>1, SessionInvariance, PTL
=============================================================================

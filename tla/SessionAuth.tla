---------------------------- MODULE SessionAuth ----------------------------
(* Sessions of the dashboard: tokens are issued for a credential, looked up *)
(* in memory, bound to the client they were issued to, and over after a     *)
(* fixed time, with a log-out, or with the process.                         *)
EXTENDS Naturals

CONSTANTS
  MaxTokens, \* bound: tokens that are issued
  Hosts,     \* clients, by address and agent
  Unknown,   \* a client that shows neither
  Ttl,       \* lifetime of a token
  MaxClock   \* bound: units of time

ASSUME SessionAssumption == MaxTokens \in Nat /\ Ttl \in Nat \ {0} /\ MaxClock \in Nat

VARIABLES
  now,
  records,   \* the table: tokens to [host, until]
  issued,    \* history: when each token was issued
  over       \* history: tokens logged out, or of an earlier life

sessionVars == <<now, records, issued, over>>

SessionInit == now = 0 /\ records = <<>> /\ issued = <<>> /\ over = {}

\* Expired records go whenever the table is used.
Kept == {t \in DOMAIN records : records[t].until > now}
Purged == [t \in Kept |-> records[t]]

Tokens == 1..MaxTokens

\* No token is issued twice.
Issue(t, host) ==
  /\ t \in Tokens \ DOMAIN issued /\ 1..t - 1 \subseteq DOMAIN issued
  /\ records' = [r \in Kept \union {t} |->
                   IF r = t THEN [host |-> host, until |-> now + Ttl] ELSE records[r]]
  /\ issued' = [r \in DOMAIN issued \union {t} |-> IF r = t THEN now ELSE issued[r]]
  /\ UNCHANGED <<now, over>>

\* A token is good for the client it was issued to. Where one of the two is not
\* known, they are not compared.
Valid(t, host) ==
  t \in Kept /\ (records[t].host = host \/ Unknown \in {records[t].host, host})

\* Fault: a token lives on as long as it is used.
Renewed ==
  /\ records' = [t \in Kept |-> [records[t] EXCEPT !.until = now + Ttl]]
  /\ UNCHANGED <<now, issued, over>>

\* Looking a token up changes the table by the purge only.
LookUp == records' = Purged /\ UNCHANGED <<now, issued, over>>

\* The log-out takes the token of the cookie, not one from a header.
LogOut(t) ==
  /\ t \in DOMAIN issued
  /\ records' = [r \in DOMAIN records \ {t} |-> records[r]]
  /\ over' = over \union {t}
  /\ UNCHANGED <<now, issued>>

Tick == now < MaxClock /\ now' = now + 1 /\ UNCHANGED <<records, issued, over>>

\* The process is gone, and the table with it.
Forget == records' = <<>> /\ over' = DOMAIN issued /\ UNCHANGED <<now, issued>>
-----------------------------------------------------------------------------
\* A token whose time is over, that was logged out, or that an earlier process
\* has issued, is good for nobody, however often it was used before.
OverIsOver ==
  \A t \in DOMAIN issued, h \in Hosts :
    Valid(t, h) => t \notin over /\ now < issued[t] + Ttl
=============================================================================

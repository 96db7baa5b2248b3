--------------------------- MODULE ChannelAccess ---------------------------
(* The allow-list of a channel: a table in memory, written to a file as a   *)
(* whole on every change, behind a lock file that nobody breaks.  The       *)
(* process may die between any two system calls of a write.                 *)
EXTENDS FiniteSets

CONSTANTS
  Users,     \* senders of one channel
  Initial    \* senders the settings allow

ASSUME AccessAssumption == Initial \subseteq Users

VARIABLES
  up,      \* the process runs
  rules,   \* the table in memory
  file,    \* the table on disk
  left,    \* a lock file was left behind
  told     \* history: what callers know of each user, "in", "out" or "doubt"

accessVars == <<up, rules, file, left, told>>

AccessInit ==
  /\ up = FALSE /\ rules = {} /\ left = FALSE
  /\ file \in SUBSET Users
  /\ told = [u \in Users |-> IF u \in file THEN "in" ELSE "out"]

\* Fault: what is written is the table before the change.
PersistEarly(table, result) ==
  \/ result = "ok" /\ ~left /\ file' = rules /\ UNCHANGED left
  \/ result = "raised" /\ UNCHANGED <<file, left>>
  \/ result = "died" /\ ~left /\ left' = TRUE /\ file' \in {file, table}

\* The lock file is made, the table is written aside and moved into place, the
\* lock file is removed.  With a lock file left behind every try fails; also
\* the write may fail, which removes the lock.  A death leaves it.
Persist(table, result) ==
  \/ result = "ok" /\ ~left /\ file' = table /\ UNCHANGED left
  \/ result = "raised" /\ UNCHANGED <<file, left>>
  \/ result = "died" /\ ~left /\ left' = TRUE /\ file' \in {file, table}

\* What was told is in doubt for users whose entry is lost with a file that
\* cannot be read: whoever was let in, unless the settings let them in.
InDoubt == [u \in Users |-> IF told[u] = "in" /\ u \notin Initial THEN "doubt" ELSE told[u]]

\* What is read and the settings are merged and written; when that fails, there
\* is no hub and no service.  A file that cannot be read, or holds no table,
\* counts as an empty one, and is written over as such.
Load(result) ==
  /\ ~up
  /\ \E read \in {file, {}} :
       /\ Persist(read \union Initial, result)
       /\ rules' = IF result = "ok" THEN read \union Initial ELSE {}
       /\ told' = IF read = file \/ file' = file THEN told ELSE InDoubt
  /\ up' = (result = "ok")

\* The table changes first; when the write raises, it stays changed.
Change(u, table, answer, result) ==
  /\ up
  /\ Persist(table, result)
  /\ up' = (result # "died")
  /\ rules' = IF result = "died" THEN {} ELSE table
  /\ told' = [told EXCEPT ![u] = IF result = "ok" THEN answer ELSE "doubt"]

Grant(u, result) == Change(u, rules \union {u}, "in", result)

\* Revoking who is not on the list writes nothing and is answered "not updated",
\* which settles no doubt: the file may have the user still, when an earlier
\* revocation could not be written.
Revoke(u, result) ==
  \/ u \in rules /\ Change(u, rules \ {u}, "out", result)
  \/ up /\ u \notin rules /\ result = "ok" /\ UNCHANGED accessVars

\* The process ends or dies with no write under way.
Ends == up /\ up' = FALSE /\ rules' = {} /\ UNCHANGED <<file, left, told>>
-----------------------------------------------------------------------------
\* is_authorized, by which the hub lets senders in: an empty list is open to all.
IsAuthorized(u) == rules = {} \/ u \in rules

\* What a caller was told of a user by a change that was made holds as long as
\* nobody says otherwise, over any ends and deaths of the process: who was let
\* in is let in, and who was put out is not, unless the list has become empty,
\* which opens it to everybody.  Users that the settings allow are back on the
\* list with every start, so for them only their being in is kept.
AnswersKept ==
  up => \A u \in Users :
          /\ told[u] = "in" => u \in rules /\ IsAuthorized(u)
          /\ told[u] = "out" /\ u \notin Initial => u \notin rules /\ (IsAuthorized(u) => rules = {})
=============================================================================

--------------------------- MODULE NotepadWriter ---------------------------
(* The notepad's writer: producers put rows into a queue and wait on a future *)
(* for the row's place; one task takes rows from the queue in batches and     *)
(* appends them to the ledger; readers and close first poll until the queue   *)
(* is empty.  In Python 3.11 wait_for runs queue.get() in a task of its own,  *)
(* so the first row of a batch is out of the queue, and not yet written, for  *)
(* some turns of the event loop; the rest is taken and written in one turn.   *)
EXTENDS Integers, Sequences, SequencesExt, FiniteSets

CONSTANTS
  Rows,       \* rows that producers enqueue, once each
  Other,      \* a row that is appended without the writer (audit, mode switch)
  Readers,    \* tasks that flush before they read the ledger
  BatchSize,  \* rows of a batch (10 in the code)
  MaxOthers   \* bound: rows appended without the writer

ASSUME WriterAssumption ==
  Other \notin Rows /\ BatchSize \in Nat \ {0} /\ MaxOthers \in Nat

VARIABLES
  queue, ledger,
  hand,      \* the row that the writer has got from the queue, at most one
  told,      \* the place each row's future was resolved with, 0 before
  writer,    \* "running" or "ended"
  stop,      \* the writer's stop event
  closer,    \* how far close is
  reader,    \* which readers are flushing
  owed,      \* history: rows accepted before a reader's flush, not yet written
  missed,    \* history: what a reader did not find of these when it read
  late       \* history: rows that were enqueued when the writer had ended

rowVars    == <<queue, hand, ledger, told>>
taskVars   == <<writer, stop, closer>>
readerVars == <<reader, owed, missed>>
vars       == <<rowVars, taskVars, readerVars, late>>

Init ==
  /\ queue = <<>> /\ hand = <<>> /\ ledger = <<>> /\ told = [r \in Rows |-> 0]
  /\ writer = "running" /\ stop = FALSE /\ closer = "open"
  /\ reader = [f \in Readers |-> "idle"]
  /\ owed = [f \in Readers |-> {}] /\ missed = [f \in Readers |-> {}]
  /\ late = {}

Accepted == ToSet(queue) \union ToSet(hand)
-----------------------------------------------------------------------------
\* The queue is unbounded and never closed.
Enqueue(r) ==
  /\ r \notin Accepted \union ToSet(ledger)
  /\ queue' = Append(queue, r)
  /\ late' = IF writer = "ended" THEN late \union {r} ELSE late
  /\ UNCHANGED <<hand, ledger, told, taskVars, readerVars>>

\* queue.get() under wait_for.
Get ==
  /\ writer = "running" /\ hand = <<>> /\ queue # <<>>
  /\ hand' = <<Head(queue)>> /\ queue' = Tail(queue)
  /\ UNCHANGED <<ledger, told, taskVars, readerVars, late>>

Taken == IF Len(queue) < BatchSize - 1 THEN Len(queue) ELSE BatchSize - 1

\* Fault: the row in hand is left out when the queue has more.
BatchWithoutFirst == IF Taken = 0 THEN hand ELSE SubSeq(queue, 1, Taken)

Batch == hand \o SubSeq(queue, 1, Taken)

Place(r) == Len(ledger) + (CHOOSE i \in 1..Len(Batch) : Batch[i] = r)

\* Fill the batch, append it, resolve the futures: without a pause.
Write ==
  /\ hand # <<>>
  /\ ledger' = ledger \o Batch
  /\ told' = [r \in Rows |-> IF r \in ToSet(Batch) THEN Place(r) ELSE told[r]]
  /\ queue' = SubSeq(queue, Taken + 1, Len(queue))
  /\ hand' = <<>>
  /\ owed' = [f \in Readers |-> owed[f] \ ToSet(Batch)]
  /\ UNCHANGED <<taskVars, reader, missed, late>>

\* Fault: the loop ends at the stop, whatever is queued.
EndAtStop ==
  /\ writer = "running" /\ hand = <<>> /\ stop
  /\ writer' = "ended"
  /\ UNCHANGED <<rowVars, stop, closer, readerVars, late>>

\* The loop's condition, after a batch or after a get that timed out.
End ==
  /\ writer = "running" /\ hand = <<>> /\ stop /\ queue = <<>>
  /\ writer' = "ended"
  /\ UNCHANGED <<rowVars, stop, closer, readerVars, late>>

\* record_audit and set_constitution_mode append by themselves.
AppendOther ==
  /\ Cardinality({i \in DOMAIN ledger : ledger[i] = Other}) < MaxOthers
  /\ ledger' = Append(ledger, Other)
  /\ UNCHANGED <<queue, hand, told, taskVars, readerVars, late>>
-----------------------------------------------------------------------------
\* A request flushes, then reads the ledger without another pause.
Flush(f) ==
  /\ reader[f] = "idle"
  /\ reader' = [reader EXCEPT ![f] = "flushing"]
  /\ owed' = [owed EXCEPT ![f] = Accepted]
  /\ missed' = [missed EXCEPT ![f] = {}]
  /\ UNCHANGED <<rowVars, taskVars, late>>

\* Fault: one look at the queue, no loop.
FlushedOnce == TRUE

Flushed == queue = <<>>

\* A search goes over all rows.
Searched == ToSet(ledger)

Read(f) ==
  /\ reader[f] = "flushing" /\ Flushed
  /\ reader' = [reader EXCEPT ![f] = "idle"]
  /\ missed' = [missed EXCEPT ![f] = owed[f] \ Searched]
  /\ owed' = [owed EXCEPT ![f] = {}]
  /\ UNCHANGED <<rowVars, taskVars, late>>

Close ==
  /\ closer = "open"
  /\ closer' = "flushing" /\ stop' = TRUE
  /\ UNCHANGED <<rowVars, writer, readerVars, late>>

CloseFlushed ==
  /\ closer = "flushing" /\ Flushed
  /\ closer' = "joining"
  /\ UNCHANGED <<rowVars, writer, stop, readerVars, late>>

\* Fault: close does not wait for the task.
JoinedNot == TRUE

\* The task has ended; the notepad's memory is closed.
Joined == writer = "ended"

CloseJoined ==
  /\ closer = "joining" /\ Joined
  /\ closer' = "closed"
  /\ UNCHANGED <<rowVars, writer, stop, readerVars, late>>
-----------------------------------------------------------------------------
WriterStep == Get \/ Write \/ End
CloseStep  == CloseFlushed \/ CloseJoined

Next ==
  \/ \E r \in Rows : Enqueue(r)
  \/ WriterStep \/ AppendOther
  \/ \E f \in Readers : Flush(f) \/ Read(f)
  \/ Close \/ CloseStep

Spec == Init /\ [][Next]_vars

\* The event loop runs its tasks: the writer, and the polls of close.
FairSpec == Spec /\ WF_vars(WriterStep) /\ WF_vars(CloseStep)
-----------------------------------------------------------------------------
(* Properties *)

\* Types.
TypeOK ==
  /\ queue \in Seq(Rows) /\ hand \in Seq(Rows) /\ Len(hand) <= 1
  /\ ledger \in Seq(Rows \union {Other})
  /\ told \in [Rows -> Nat]
  /\ writer \in {"running", "ended"} /\ stop \in BOOLEAN
  /\ closer \in {"open", "flushing", "joining", "closed"}
  /\ reader \in [Readers -> {"idle", "flushing"}]
  /\ owed \in [Readers -> SUBSET Rows] /\ missed \in [Readers -> SUBSET Rows]
  /\ late \subseteq Rows

\* Whoever waits for a row is told the place at which the ledger has it, also
\* when audit rows come in between; and a row that is in the ledger is told of.
ToldItsPlace ==
  \A r \in Rows :
    /\ told[r] # 0 => told[r] \in DOMAIN ledger /\ ledger[told[r]] = r
    /\ r \in ToSet(ledger) => told[r] # 0

\* A reader that has flushed misses at most one of the rows that were accepted
\* before its flush: the one that the writer has in hand.
ReadMissesOne == \A f \in Readers : Cardinality(missed[f]) <= 1

\* When close has returned, every row accepted while the writer ran is in the
\* ledger.
ClosedIsComplete == closer = "closed" => Accepted \subseteq late

\* The writer keeps the promise of the ledger service.
Service == INSTANCE LedgerService WITH accepted <- hand \o queue
ImplementsLedger == Service!LSpec

\* A row accepted while the writer runs gets its place, also when close has
\* begun.
RowsGetPlaces ==
  \A r \in Rows : (r \in Accepted /\ r \notin late) ~> told[r] # 0

\* close returns, unless a row is enqueued after the writer has ended: then the
\* queue is never empty again.
CloseReturns == closer = "flushing" ~> (closer = "closed" \/ late # {})
=============================================================================

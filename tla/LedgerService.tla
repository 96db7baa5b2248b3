--------------------------- MODULE LedgerService ---------------------------
(* What the notepad's writer promises to those who enqueue rows: a row is   *)
(* accepted once, rows come into the ledger in the order they were accepted, *)
(* a batch at a time, and whoever enqueued a row is told its place in the    *)
(* ledger at the moment it gets there.  Rows of others come in between.      *)
EXTENDS Integers, Sequences, SequencesExt

CONSTANTS Rows, Other, BatchSize

VARIABLES
  accepted,  \* rows accepted and not in the ledger, oldest first
  ledger,
  told       \* the place each row's future was resolved with, 0 before

LInit == accepted = <<>> /\ ledger = <<>> /\ told = [r \in Rows |-> 0]

Accept(r) ==
  /\ r \notin ToSet(accepted) \union ToSet(ledger)
  /\ accepted' = Append(accepted, r)
  /\ UNCHANGED <<ledger, told>>

\* The n oldest rows get their places.
Commit(n) ==
  LET batch == SubSeq(accepted, 1, n) IN
  /\ n <= Len(accepted)
  /\ ledger' = ledger \o batch
  /\ accepted' = SubSeq(accepted, n + 1, Len(accepted))
  /\ told' = [r \in Rows |-> IF r \in ToSet(batch)
                             THEN Len(ledger) + (CHOOSE i \in 1..Len(batch) : batch[i] = r)
                             ELSE told[r]]

Others ==
  /\ ledger' = Append(ledger, Other)
  /\ UNCHANGED <<accepted, told>>

LNext == \/ \E r \in Rows : Accept(r)
         \/ \E n \in 1..BatchSize : Commit(n)
         \/ Others

LSpec == LInit /\ [][LNext]_<<accepted, ledger, told>>
=============================================================================

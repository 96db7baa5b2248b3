--------------------------- MODULE Storage_proofs ---------------------------
(* Proofs about what is kept in files.  The notepad's writer, for any rows,  *)
(* readers and batch size: it implements the ledger service, a row's place   *)
(* is right, close leaves nothing behind, and a reader misses one row at     *)
(* most.  The skills, for any skills, contents and calls: what the registry  *)
(* serves is what is on disk, and a deployment archives what it overwrites.  *)
EXTENDS NotepadWriter, SkillFiles, SequenceTheorems, FiniteSetTheorems,
        WellFoundedInduction, NaturalsInduction, TLAPS

-----------------------------------------------------------------------------
(* What a queue holds, as a set.                                             *)

\* Adding at the end adds one element.
LEMMA SetOfAppend ==
  ASSUME NEW S, NEW s \in Seq(S), NEW e \in S
  PROVE  Append(s, e) \in Seq(S) /\ ToSet(Append(s, e)) = ToSet(s) \union {e}
<1>1. /\ Append(s, e) \in Seq(S) /\ Len(Append(s, e)) = Len(s) + 1
      /\ \A i \in 1..Len(s) : Append(s, e)[i] = s[i]
      /\ Append(s, e)[Len(s) + 1] = e /\ Len(s) \in Nat
  BY AppendProperties, LenProperties
<1>2. DOMAIN s = 1..Len(s) /\ DOMAIN Append(s, e) = 1..(Len(s) + 1)
  BY <1>1, LenProperties
<1>3. 1..(Len(s) + 1) = 1..Len(s) \union {Len(s) + 1}
  BY <1>1
<1> QED
  BY <1>1, <1>2, <1>3 DEF ToSet

\* A concatenation holds what its parts hold.
LEMMA SetOfConcat ==
  ASSUME NEW S, NEW s \in Seq(S), NEW t \in Seq(S)
  PROVE  s \o t \in Seq(S) /\ ToSet(s \o t) = ToSet(s) \union ToSet(t)
<1>1. /\ s \o t \in Seq(S) /\ Len(s \o t) = Len(s) + Len(t)
      /\ \A i \in 1..Len(s) + Len(t) :
           (s \o t)[i] = IF i <= Len(s) THEN s[i] ELSE t[i - Len(s)]
      /\ Len(s) \in Nat /\ Len(t) \in Nat
  BY ConcatProperties, LenProperties
<1>2. /\ DOMAIN s = 1..Len(s) /\ DOMAIN t = 1..Len(t)
      /\ DOMAIN (s \o t) = 1..(Len(s) + Len(t))
  BY <1>1, LenProperties
<1>3. ASSUME NEW e \in ToSet(s \o t) PROVE e \in ToSet(s) \union ToSet(t)
  <2>1. PICK i \in 1..(Len(s) + Len(t)) : e = (s \o t)[i]
    BY <1>2 DEF ToSet
  <2>2. CASE i <= Len(s)
    BY <1>1, <1>2, <2>1, <2>2 DEF ToSet
  <2>3. CASE ~(i <= Len(s))
    <3>1. i - Len(s) \in 1..Len(t)
      BY <1>1, <2>3
    <3> QED
      BY <1>1, <1>2, <2>1, <2>3, <3>1 DEF ToSet
  <2> QED
    BY <2>2, <2>3
<1>4. ASSUME NEW e \in ToSet(s) PROVE e \in ToSet(s \o t)
  <2>1. PICK i \in 1..Len(s) : e = s[i]
    BY <1>2 DEF ToSet
  <2>2. i \in 1..(Len(s) + Len(t)) /\ (s \o t)[i] = e
    BY <1>1, <2>1
  <2> QED
    BY <1>2, <2>2 DEF ToSet
<1>5. ASSUME NEW e \in ToSet(t) PROVE e \in ToSet(s \o t)
  <2>1. PICK i \in 1..Len(t) : e = t[i]
    BY <1>2 DEF ToSet
  <2>2. Len(s) + i \in 1..(Len(s) + Len(t)) /\ (s \o t)[Len(s) + i] = e
    BY <1>1, <2>1
  <2> QED
    BY <1>2, <2>2 DEF ToSet
<1> QED
  BY <1>1, <1>3, <1>4, <1>5

\* A queue is its first k rows and the rest.
LEMMA SetOfSplit ==
  ASSUME NEW S, NEW s \in Seq(S), NEW k \in 0..Len(s)
  PROVE  /\ SubSeq(s, 1, k) \in Seq(S) /\ Len(SubSeq(s, 1, k)) = k
         /\ \A i \in 1..k : SubSeq(s, 1, k)[i] = s[i]
         /\ SubSeq(s, k + 1, Len(s)) \in Seq(S)
         /\ s = SubSeq(s, 1, k) \o SubSeq(s, k + 1, Len(s))
         /\ ToSet(s) = ToSet(SubSeq(s, 1, k)) \union ToSet(SubSeq(s, k + 1, Len(s)))
<1>1. /\ SubSeq(s, 1, k) \in Seq(S) /\ Len(SubSeq(s, 1, k)) = k
      /\ \A i \in 1..k : SubSeq(s, 1, k)[i] = s[i]
  BY SubSeqProperties, LenProperties
<1>2. SubSeq(s, k + 1, Len(s)) \in Seq(S)
  BY SubSeqProperties, LenProperties
<1>3. s = SubSeq(s, 1, k) \o SubSeq(s, k + 1, Len(s))
  <2>1. SubSeq(s, 1, k) \o SubSeq(s, k + 1, Len(s)) = SubSeq(s, 1, Len(s))
    <3>1. 1 \in 1..Len(s) + 1 /\ k \in 1 - 1..Len(s) /\ Len(s) \in k..Len(s)
      BY LenProperties
    <3> QED
      BY <3>1, ConcatAdjacentSubSeq
  <2> QED
    BY <2>1, SubSeqFull
<1> QED
  BY <1>1, <1>2, <1>3, SetOfConcat

\* Taking the first row of a queue.
LEMMA SetOfHeadTail ==
  ASSUME NEW S, NEW s \in Seq(S), s # <<>>
  PROVE  /\ Head(s) \in S /\ Tail(s) \in Seq(S) /\ <<Head(s)>> \in Seq(S)
         /\ s = <<Head(s)>> \o Tail(s)
         /\ ToSet(s) = ToSet(<<Head(s)>>) \union ToSet(Tail(s))
<1>1. Head(s) \in S /\ Tail(s) \in Seq(S) /\ Len(Tail(s)) = Len(s) - 1
  BY HeadTailProperties
<1>2. <<Head(s)>> \in Seq(S) /\ Len(<<Head(s)>>) = 1 /\ <<Head(s)>>[1] = Head(s)
  BY <1>1
<1>3. Len(s) \in Nat \ {0}
  BY EmptySeq
<1>4. s = <<Head(s)>> \o Tail(s)
  <2> DEFINE u == <<Head(s)>> \o Tail(s)
  <2>1. /\ u \in Seq(S) /\ Len(u) = Len(s)
        /\ \A i \in 1..Len(s) : u[i] = IF i <= 1 THEN Head(s) ELSE Tail(s)[i - 1]
    BY <1>1, <1>2, <1>3, ConcatProperties
  <2>2. \A i \in 1..Len(s) : s[i] = IF i <= 1 THEN Head(s) ELSE Tail(s)[i - 1]
    BY <1>1, <1>3, HeadTailProperties
  <2> HIDE DEF u
  <2>3. s = u
    BY <2>1, <2>2, SeqEqual
  <2> QED
    BY <2>3 DEF u
<1> QED
  BY <1>1, <1>2, <1>4, SetOfConcat
-----------------------------------------------------------------------------
(* A batch.                                                                  *)

\* The rows in hand and the next of the queue are the oldest of those that are
\* accepted, no more of them than a batch may have, and the rest stays.
LEMMA BatchIsOldest ==
  ASSUME TypeOK, hand # <<>>
  PROVE  /\ Batch \in Seq(Rows) /\ Len(Batch) \in 1..BatchSize
         /\ Taken \in 0..Len(queue)
         /\ Len(Batch) <= Len(hand \o queue)
         /\ Batch = SubSeq(hand \o queue, 1, Len(Batch))
         /\ SubSeq(queue, Taken + 1, Len(queue)) \in Seq(Rows)
         /\ SubSeq(queue, Taken + 1, Len(queue))
              = SubSeq(hand \o queue, Len(Batch) + 1, Len(hand \o queue))
         /\ Accepted = ToSet(Batch) \union ToSet(SubSeq(queue, Taken + 1, Len(queue)))
<1> DEFINE rest == SubSeq(queue, Taken + 1, Len(queue))
           front == SubSeq(queue, 1, Taken)
<1>1. queue \in Seq(Rows) /\ hand \in Seq(Rows) /\ Len(queue) \in Nat /\ Len(hand) = 1
  <2>1. queue \in Seq(Rows) /\ hand \in Seq(Rows) /\ Len(hand) <= 1
    BY DEF TypeOK
  <2>2. Len(queue) \in Nat
    BY <2>1, LenProperties
  <2>3. Len(hand) \in Nat \ {0}
    BY <2>1, EmptySeq
  <2>4. \A n \in Nat \ {0} : n <= 1 => n = 1
    OBVIOUS
  <2>5. Len(hand) = 1
    BY ONLY <2>1, <2>3, <2>4
  <2> QED
    BY <2>1, <2>2, <2>5
<1>2. Taken \in 0..Len(queue) /\ Taken <= BatchSize - 1
  BY <1>1, WriterAssumption DEF Taken
<1>3. /\ front \in Seq(Rows) /\ Len(front) = Taken /\ rest \in Seq(Rows)
      /\ \A i \in 1..Taken : front[i] = queue[i]
      /\ ToSet(queue) = ToSet(front) \union ToSet(rest)
      /\ queue = front \o rest
  BY <1>1, <1>2, SetOfSplit
<1>4. /\ Batch \in Seq(Rows) /\ Len(Batch) = 1 + Taken
      /\ ToSet(Batch) = ToSet(hand) \union ToSet(front)
  <2>1. Batch = hand \o front
    BY DEF Batch
  <2> HIDE DEF front
  <2>2. hand \o front \in Seq(Rows) /\ Len(hand \o front) = Len(hand) + Len(front)
    BY <1>1, <1>3, ConcatProperties
  <2>3. ToSet(hand \o front) = ToSet(hand) \union ToSet(front)
    BY <1>1, <1>3, SetOfConcat
  <2> QED
    BY <1>1, <1>2, <1>3, <2>1, <2>2, <2>3
<1>5. Len(hand \o queue) = 1 + Len(queue) /\ hand \o queue \in Seq(Rows)
  BY <1>1, ConcatProperties
<1> HIDE DEF rest, front
<1>6. hand \o queue = Batch \o rest
  <2>1. hand \o (front \o rest) = (hand \o front) \o rest
    BY <1>1, <1>3, ConcatAssociative
  <2> QED
    BY <1>3, <2>1 DEF Batch, front
<1>7. SubSeq(Batch \o rest, 1, Len(Batch)) = Batch
  BY <1>3, <1>4, SubSeqOfConcat1
<1>8. SubSeq(Batch \o rest, Len(Batch) + 1, Len(Batch \o rest)) = rest
  <2>1. Len(Batch \o rest) = Len(Batch) + Len(rest)
    BY <1>3, <1>4, ConcatProperties
  <2>2. SubSeq(Batch \o rest, Len(Batch) + 1, Len(Batch) + Len(rest)) = rest
    BY <1>3, <1>4, SubSeqOfConcat2
  <2> QED
    BY <2>1, <2>2
<1>9. Len(Batch) \in 1..BatchSize /\ Len(Batch) <= Len(hand \o queue)
  BY <1>2, <1>4, <1>5, WriterAssumption
<1>10. Batch = SubSeq(hand \o queue, 1, Len(Batch))
  BY <1>6, <1>7
<1>11. rest = SubSeq(hand \o queue, Len(Batch) + 1, Len(hand \o queue))
  BY <1>6, <1>8
<1>12. Accepted = ToSet(Batch) \union ToSet(rest)
  BY <1>3, <1>4 DEF Accepted
<1> QED
  BY <1>2, <1>3, <1>4, <1>9, <1>10, <1>11, <1>12 DEF rest

\* The place a row of the batch is told is a place of the batch, and the
\* ledger has the row there.
LEMMA PlaceIsRight ==
  ASSUME TypeOK, hand # <<>>, NEW r \in ToSet(Batch)
  PROVE  /\ Place(r) \in Nat \ {0}
         /\ Place(r) \in 1..Len(ledger \o Batch)
         /\ (ledger \o Batch)[Place(r)] = r
<1> DEFINE k == CHOOSE i \in 1..Len(Batch) : Batch[i] = r
<1>1. Batch \in Seq(Rows) /\ Len(Batch) \in Nat /\ DOMAIN Batch = 1..Len(Batch)
  BY BatchIsOldest, LenProperties
<1>2. k \in 1..Len(Batch) /\ Batch[k] = r
  BY <1>1 DEF ToSet
<1> HIDE DEF k
<1>3. ledger \in Seq(Rows \union {Other}) /\ Len(ledger) \in Nat
  BY LenProperties DEF TypeOK
<1>4. Batch \in Seq(Rows \union {Other})
  BY <1>1, SeqMonotonic
<1>5. /\ Len(ledger \o Batch) = Len(ledger) + Len(Batch)
      /\ (ledger \o Batch)[Len(ledger) + k] = Batch[(Len(ledger) + k) - Len(ledger)]
  BY <1>1, <1>2, <1>3, <1>4, ConcatProperties
<1>6. Place(r) = Len(ledger) + k
  BY DEF Place, k
<1> QED
  BY <1>1, <1>2, <1>3, <1>5, <1>6
-----------------------------------------------------------------------------
(* Types.                                                                    *)

\* At first nothing is queued, in hand or written.
LEMMA FirstTypes == Init => TypeOK
<1> SUFFICES ASSUME Init PROVE TypeOK
  OBVIOUS
<1>1. queue \in Seq(Rows) /\ hand \in Seq(Rows) /\ ledger \in Seq(Rows \union {Other})
  BY DEF Init
<1>2. Len(hand) <= 1
  BY DEF Init
<1>3. told \in [Rows -> Nat]
  BY DEF Init
<1>4. /\ writer \in {"running", "ended"} /\ stop \in BOOLEAN
      /\ closer \in {"open", "flushing", "joining", "closed"}
      /\ reader \in [Readers -> {"idle", "flushing"}]
      /\ owed \in [Readers -> SUBSET Rows] /\ missed \in [Readers -> SUBSET Rows]
      /\ late \subseteq Rows
  BY DEF Init
<1> QED
  BY <1>1, <1>2, <1>3, <1>4 DEF TypeOK

\* A batch keeps the types.
LEMMA WriteTypes == ASSUME TypeOK, Write PROVE TypeOK'
<1>1. hand # <<>> /\ hand' = <<>> /\ hand' \in Seq(Rows) /\ Len(hand') = 0
  BY DEF Write
<1>2. queue' \in Seq(Rows)
  BY <1>1, BatchIsOldest DEF Write
<1>3. ledger' \in Seq(Rows \union {Other})
  <2>1. Batch \in Seq(Rows \union {Other}) /\ ledger \in Seq(Rows \union {Other})
    BY <1>1, BatchIsOldest, SeqMonotonic DEF TypeOK
  <2> QED
    BY <2>1, ConcatProperties DEF Write
<1>4. told' \in [Rows -> Nat]
  <2>1. \A r \in Rows : r \in ToSet(Batch) => Place(r) \in Nat
    BY <1>1, PlaceIsRight
  <2> QED
    BY <2>1 DEF Write, TypeOK
<1>5. owed' \in [Readers -> SUBSET Rows]
  BY DEF Write, TypeOK
<1> QED
  BY <1>1, <1>2, <1>3, <1>4, <1>5 DEF Write, TypeOK, taskVars

\* The rows that are accepted are rows.
LEMMA AcceptedRows == TypeOK => Accepted \subseteq Rows
BY LenProperties DEF TypeOK, Accepted, ToSet

\* Every step keeps the types.
LEMMA TypeStep == TypeOK /\ [Next]_vars => TypeOK'
<1> SUFFICES ASSUME TypeOK, [Next]_vars PROVE TypeOK'
  OBVIOUS
<1> USE DEF TypeOK
<1>1. ASSUME NEW r \in Rows, Enqueue(r) PROVE TypeOK'
  <2>1. queue' \in Seq(Rows)
    BY <1>1, SetOfAppend DEF Enqueue
  <2> QED
    BY <1>1, <2>1 DEF Enqueue, taskVars, readerVars
<1>2. CASE Get
  <2>1. queue' \in Seq(Rows) /\ hand' \in Seq(Rows) /\ Len(hand') = 1
    BY <1>2, SetOfHeadTail DEF Get
  <2> QED
    BY <1>2, <2>1 DEF Get, taskVars, readerVars
<1>3. CASE Write
  BY <1>3, WriteTypes
<1>4. CASE End
  BY <1>4 DEF End, rowVars, readerVars
<1>5. CASE AppendOther
  <2>1. ledger' \in Seq(Rows \union {Other})
    BY <1>5, SetOfAppend DEF AppendOther
  <2> QED
    BY <1>5, <2>1 DEF AppendOther, taskVars, readerVars
<1>6. ASSUME NEW f \in Readers, Flush(f) PROVE TypeOK'
  BY <1>6, AcceptedRows DEF Flush, rowVars, taskVars
<1>7. ASSUME NEW f \in Readers, Read(f) PROVE TypeOK'
  <2>1. owed[f] \ Searched \subseteq Rows
    OBVIOUS
  <2> QED
    BY <1>7, <2>1 DEF Read, rowVars, taskVars
<1>8. CASE Close \/ CloseFlushed \/ CloseJoined
  BY <1>8 DEF Close, CloseFlushed, CloseJoined, rowVars, readerVars
<1>9. CASE UNCHANGED vars
  BY <1>9 DEF vars, rowVars, taskVars, readerVars
<1> QED
  BY <1>1, <1>2, <1>3, <1>4, <1>5, <1>6, <1>7, <1>8, <1>9 DEF Next, WriterStep, CloseStep

\* The writer's state keeps its types, for any rows and readers.
THEOREM WriterTypes == Spec => []TypeOK
BY FirstTypes, TypeStep, PTL DEF Spec
-----------------------------------------------------------------------------
(* Close.  The writer ends with nothing in hand and an empty queue; what      *)
(* comes later is late.                                                      *)

EndedIsEmpty == /\ TypeOK
                /\ writer = "ended" => hand = <<>> /\ ToSet(queue) \subseteq late
                /\ closer = "closed" => writer = "ended"

\* Every step keeps it.
LEMMA EndedStep == EndedIsEmpty /\ [Next]_vars => EndedIsEmpty'
<1> SUFFICES ASSUME EndedIsEmpty, [Next]_vars PROVE EndedIsEmpty'
  OBVIOUS
<1>1. TypeOK /\ TypeOK'
  BY TypeStep DEF EndedIsEmpty
<1> USE DEF EndedIsEmpty
<1>2. ASSUME NEW r \in Rows, Enqueue(r) PROVE EndedIsEmpty'
  <2>1. ToSet(queue') = ToSet(queue) \union {r}
    BY <1>1, <1>2, SetOfAppend DEF Enqueue, TypeOK
  <2> QED
    BY <1>1, <1>2, <2>1 DEF Enqueue, taskVars
<1>3. CASE Get
  BY <1>1, <1>3 DEF Get, taskVars
<1>4. CASE Write
  BY <1>1, <1>4 DEF Write, taskVars
<1>5. CASE End
  BY <1>1, <1>5 DEF End, rowVars, ToSet
<1>6. CASE AppendOther
  BY <1>1, <1>6 DEF AppendOther, taskVars
<1>7. ASSUME NEW f \in Readers, Flush(f) \/ Read(f) PROVE EndedIsEmpty'
  BY <1>1, <1>7 DEF Flush, Read, rowVars, taskVars
<1>8. CASE Close \/ CloseFlushed \/ CloseJoined
  BY <1>1, <1>8 DEF Close, CloseFlushed, CloseJoined, Joined, rowVars
<1>9. CASE UNCHANGED vars
  BY <1>1, <1>9 DEF vars, rowVars, taskVars
<1> QED
  BY <1>2, <1>3, <1>4, <1>5, <1>6, <1>7, <1>8, <1>9 DEF Next, WriterStep, CloseStep

\* When close has returned, every row accepted while the writer ran is written.
THEOREM CloseLosesNothing == Spec => []ClosedIsComplete
<1>1. Init => EndedIsEmpty
  BY FirstTypes DEF Init, EndedIsEmpty
<1>2. EndedIsEmpty => ClosedIsComplete
  <2> SUFFICES ASSUME EndedIsEmpty, closer = "closed" PROVE Accepted \subseteq late
    BY DEF ClosedIsComplete
  <2> QED
    BY DEF EndedIsEmpty, Accepted, ToSet
<1> QED
  BY <1>1, <1>2, EndedStep, PTL DEF Spec
-----------------------------------------------------------------------------
(* Places.                                                                   *)

TypedPlaces == TypeOK /\ ToldItsPlace

\* A row keeps its place when the ledger grows.
LEMMA LedgerGrows ==
  ASSUME TypeOK, NEW more \in Seq(Rows \union {Other})
  PROVE  /\ \A n \in DOMAIN ledger :
              n \in DOMAIN (ledger \o more) /\ (ledger \o more)[n] = ledger[n]
         /\ ToSet(ledger \o more) = ToSet(ledger) \union ToSet(more)
<1>1. ledger \in Seq(Rows \union {Other})
  BY DEF TypeOK
<1>2. /\ ledger \o more \in Seq(Rows \union {Other})
      /\ Len(ledger \o more) = Len(ledger) + Len(more)
      /\ \A i \in 1..Len(ledger) + Len(more) :
           (ledger \o more)[i] = IF i <= Len(ledger) THEN ledger[i] ELSE more[i - Len(ledger)]
  BY <1>1, ConcatProperties
<1>3. /\ DOMAIN ledger = 1..Len(ledger) /\ Len(ledger) \in Nat /\ Len(more) \in Nat
      /\ DOMAIN (ledger \o more) = 1..(Len(ledger) + Len(more))
  BY <1>1, <1>2, LenProperties
<1>4. ToSet(ledger \o more) = ToSet(ledger) \union ToSet(more)
  BY <1>1, SetOfConcat
<1> QED
  BY <1>2, <1>3, <1>4

\* A batch tells its rows their places and leaves the others theirs.
LEMMA WriteTells == ASSUME TypedPlaces, Write PROVE ToldItsPlace'
<1>1. TypeOK /\ ToldItsPlace /\ hand # <<>> /\ ledger' = ledger \o Batch
  BY DEF TypedPlaces, Write
<1>2. Batch \in Seq(Rows \union {Other})
  BY <1>1, BatchIsOldest, SeqMonotonic
<1>3. DOMAIN (ledger \o Batch) = 1..Len(ledger \o Batch)
  BY <1>1, <1>2, ConcatProperties, LenProperties DEF TypeOK
<1>4. ASSUME NEW r \in Rows
      PROVE  /\ told'[r] # 0 => told'[r] \in DOMAIN ledger' /\ ledger'[told'[r]] = r
             /\ r \in ToSet(ledger') => told'[r] # 0
  <2>1. told'[r] = IF r \in ToSet(Batch) THEN Place(r) ELSE told[r]
    BY DEF Write
  <2>2. CASE r \in ToSet(Batch)
    BY <1>1, <1>3, <2>1, <2>2, PlaceIsRight
  <2>3. CASE r \notin ToSet(Batch)
    BY <1>1, <1>2, <2>1, <2>3, LedgerGrows DEF ToldItsPlace
  <2> QED
    BY <2>2, <2>3
<1> QED
  BY <1>4 DEF ToldItsPlace

\* A row that is appended by itself moves no other.
LEMMA OtherMovesNone == ASSUME TypedPlaces, AppendOther PROVE ToldItsPlace'
<1>1. TypeOK /\ ToldItsPlace
  BY DEF TypedPlaces
<1>2. <<Other>> \in Seq(Rows \union {Other})
  OBVIOUS
<1>3. ledger' = ledger \o <<Other>>
  BY <1>1, AppendIsConcat DEF AppendOther, TypeOK
<1>4. ToSet(<<Other>>) = {Other}
  BY DEF ToSet
<1>5. /\ \A n \in DOMAIN ledger : n \in DOMAIN ledger' /\ ledger'[n] = ledger[n]
      /\ ToSet(ledger') = ToSet(ledger) \union {Other}
  BY <1>1, <1>2, <1>3, <1>4, LedgerGrows
<1> QED
  BY <1>1, <1>5, WriterAssumption DEF ToldItsPlace, AppendOther

\* For any batch size and any rows in between: whoever is told a place is told
\* the place at which the ledger has the row, and a row in the ledger is told of.
THEOREM PlacesAreRight == Spec => []ToldItsPlace
<1>1. Init => TypedPlaces
  <2>1. Init => ToldItsPlace
    BY DEF Init, ToldItsPlace, ToSet
  <2> QED
    BY <2>1, FirstTypes DEF TypedPlaces
<1>2. TypedPlaces /\ [Next]_vars => TypedPlaces'
  <2> SUFFICES ASSUME TypedPlaces, [Next]_vars PROVE TypedPlaces'
    OBVIOUS
  <2>1. TypeOK'
    BY TypeStep DEF TypedPlaces
  <2>2. ASSUME UNCHANGED <<ledger, told>> PROVE ToldItsPlace'
    BY <2>2 DEF TypedPlaces, ToldItsPlace
  <2>3. Write => ToldItsPlace'
    BY WriteTells
  <2>4. AppendOther => ToldItsPlace'
    BY OtherMovesNone
  <2>5. ASSUME NEW r \in Rows, Enqueue(r) PROVE ToldItsPlace'
    BY <2>2, <2>5 DEF Enqueue
  <2>6. ASSUME Get \/ End \/ Close \/ CloseFlushed \/ CloseJoined \/ UNCHANGED vars
        PROVE  ToldItsPlace'
    BY <2>2, <2>6 DEF Get, End, Close, CloseFlushed, CloseJoined, vars, rowVars
  <2>7. ASSUME NEW f \in Readers, Flush(f) \/ Read(f) PROVE ToldItsPlace'
    BY <2>2, <2>7 DEF Flush, Read, rowVars
  <2>8. ToldItsPlace'
    BY <2>3, <2>4, <2>5, <2>6, <2>7 DEF Next, WriterStep, CloseStep
  <2> QED
    BY <2>1, <2>8 DEF TypedPlaces
<1>3. TypedPlaces => ToldItsPlace
  BY DEF TypedPlaces
<1> QED
  BY <1>1, <1>2, <1>3, PTL DEF Spec
-----------------------------------------------------------------------------
(* Readers.  What a flushing reader is owed is still on its way; when the     *)
(* queue is empty, only the row in hand can be.                              *)

OwedIsOnItsWay ==
  /\ TypeOK
  /\ \A f \in Readers : owed[f] \subseteq Accepted
  /\ ReadMissesOne

\* No more than one row is in hand.
LEMMA HandIsSmall ==
  ASSUME TypeOK, NEW S, S \subseteq ToSet(hand)
  PROVE  IsFiniteSet(S) /\ Cardinality(S) <= 1
<1>1. hand \in Seq(Rows) /\ Len(hand) \in {0, 1} /\ DOMAIN hand = 1..Len(hand)
  <2>1. hand \in Seq(Rows) /\ Len(hand) <= 1
    BY DEF TypeOK
  <2>2. Len(hand) \in Nat /\ DOMAIN hand = 1..Len(hand)
    BY <2>1, LenProperties
  <2>3. \A n \in Nat : n <= 1 => n \in {0, 1}
    OBVIOUS
  <2>4. Len(hand) \in {0, 1}
    BY ONLY <2>1, <2>2, <2>3
  <2> QED
    BY <2>1, <2>2, <2>4
<1>2. ToSet(hand) \subseteq {hand[1]}
  BY <1>1 DEF ToSet
<1>3. S = {} \/ S = {hand[1]}
  BY <1>2
<1>4. CASE S = {}
  BY <1>4, FS_EmptySet
<1>5. CASE S = {hand[1]}
  <2>1. IsFiniteSet({hand[1]}) /\ Cardinality({hand[1]}) = 1
    BY FS_Singleton, Zenon
  <2>2. IsFiniteSet(S) /\ Cardinality(S) = 1
    BY <1>5, <2>1, Zenon
  <2> QED
    BY <2>2
<1> QED
  BY <1>3, <1>4, <1>5

\* A batch takes from the rows owed what it writes.
LEMMA WriteLeavesOwed ==
  ASSUME OwedIsOnItsWay, Write
  PROVE  \A f \in Readers : owed'[f] \subseteq Accepted'
<1>1. TypeOK /\ hand # <<>>
  BY DEF OwedIsOnItsWay, Write
<1>2. Accepted = ToSet(Batch) \union ToSet(queue')
  BY <1>1, BatchIsOldest DEF Write
<1>3. ToSet(queue') \subseteq Accepted'
  BY DEF Accepted
<1>4. \A f \in Readers : owed'[f] = owed[f] \ ToSet(Batch)
  BY DEF Write
<1> QED
  BY <1>2, <1>3, <1>4 DEF OwedIsOnItsWay

\* Every step keeps what readers are owed on its way.
LEMMA OwedStep == OwedIsOnItsWay /\ [Next]_vars => OwedIsOnItsWay'
<1> SUFFICES ASSUME OwedIsOnItsWay, [Next]_vars PROVE OwedIsOnItsWay'
  OBVIOUS
<1>1. TypeOK /\ TypeOK'
  BY TypeStep DEF OwedIsOnItsWay
<1>2. ASSUME Accepted \subseteq Accepted', UNCHANGED <<owed, missed>>
      PROVE  OwedIsOnItsWay'
  BY <1>1, <1>2 DEF OwedIsOnItsWay, ReadMissesOne
<1>3. ASSUME NEW r \in Rows, Enqueue(r) PROVE OwedIsOnItsWay'
  <2>1. ToSet(queue') = ToSet(queue) \union {r} /\ hand' = hand
    BY <1>1, <1>3, SetOfAppend DEF Enqueue, TypeOK
  <2> QED
    BY <1>2, <1>3, <2>1 DEF Enqueue, readerVars, Accepted
<1>4. CASE Get
  <2>1. ToSet(queue) = ToSet(<<Head(queue)>>) \union ToSet(Tail(queue))
    BY <1>1, <1>4, SetOfHeadTail DEF Get, TypeOK
  <2>2. ToSet(hand) = {}
    BY <1>4 DEF Get, ToSet
  <2>3. hand' = <<Head(queue)>> /\ queue' = Tail(queue)
    BY <1>4 DEF Get
  <2>4. Accepted \subseteq Accepted'
    BY <2>1, <2>2, <2>3 DEF Accepted
  <2> QED
    BY <1>2, <1>4, <2>4 DEF Get, readerVars
<1>5. CASE Write
  <2>1. \A f \in Readers : owed'[f] \subseteq Accepted'
    BY <1>5, WriteLeavesOwed
  <2> QED
    BY <1>1, <1>5, <2>1 DEF Write, OwedIsOnItsWay, ReadMissesOne
<1>6. CASE End \/ AppendOther \/ Close \/ CloseFlushed \/ CloseJoined
  BY <1>2, <1>6 DEF End, AppendOther, Close, CloseFlushed, CloseJoined,
                    rowVars, readerVars, Accepted
<1>7. ASSUME NEW f \in Readers, Flush(f) PROVE OwedIsOnItsWay'
  <2>1. Accepted' = Accepted
    BY <1>7 DEF Flush, rowVars, Accepted
  <2>2. \A g \in Readers : owed'[g] \subseteq Accepted'
    BY <1>1, <1>7, <2>1 DEF Flush, OwedIsOnItsWay, TypeOK
  <2>3. \A g \in Readers : missed'[g] = missed[g] \/ missed'[g] = {}
    BY <1>1, <1>7 DEF Flush, TypeOK
  <2>4. \A g \in Readers : Cardinality(missed'[g]) <= 1
    BY <2>3, FS_EmptySet DEF OwedIsOnItsWay, ReadMissesOne
  <2> QED
    BY <1>1, <2>2, <2>4 DEF OwedIsOnItsWay, ReadMissesOne
<1>8. ASSUME NEW f \in Readers, Read(f) PROVE OwedIsOnItsWay'
  <2>1. Accepted' = Accepted
    BY <1>8 DEF Read, rowVars, Accepted
  <2>2. \A g \in Readers : owed'[g] \subseteq Accepted'
    BY <1>1, <1>8, <2>1 DEF Read, OwedIsOnItsWay, TypeOK
  <2>3. Accepted = ToSet(hand)
    BY <1>8 DEF Read, Flushed, Accepted, ToSet
  <2>4. owed[f] \ Searched \subseteq ToSet(hand)
    BY <2>3 DEF OwedIsOnItsWay
  <2>5. Cardinality(owed[f] \ Searched) <= 1
    BY <1>1, <2>4, HandIsSmall
  <2>6. \A g \in Readers : missed'[g] = missed[g] \/ missed'[g] = owed[f] \ Searched
    BY <1>1, <1>8 DEF Read, TypeOK
  <2>7. \A g \in Readers : Cardinality(missed'[g]) <= 1
    BY <2>5, <2>6 DEF OwedIsOnItsWay, ReadMissesOne
  <2> QED
    BY <1>1, <2>2, <2>7 DEF OwedIsOnItsWay, ReadMissesOne
<1>9. CASE UNCHANGED vars
  BY <1>2, <1>9 DEF vars, rowVars, readerVars, Accepted
<1> QED
  BY <1>3, <1>4, <1>5, <1>6, <1>7, <1>8, <1>9 DEF Next, WriterStep, CloseStep

\* For any readers and any batch size: a reader that has flushed misses at most
\* one of the rows accepted before its flush.
THEOREM FlushMissesOne == Spec => []ReadMissesOne
<1>1. Init => OwedIsOnItsWay
  BY FirstTypes, FS_EmptySet DEF Init, OwedIsOnItsWay, ReadMissesOne
<1>2. OwedIsOnItsWay => ReadMissesOne
  BY DEF OwedIsOnItsWay
<1> QED
  BY <1>1, <1>2, OwedStep, PTL DEF Spec
-----------------------------------------------------------------------------
(* The writer implements the ledger service: the rows accepted there are the  *)
(* row in hand and the queue here.                                           *)

\* Putting a row into the queue is accepting it.
LEMMA EnqueueAccepts ==
  ASSUME TypeOK, NEW r \in Rows, Enqueue(r) PROVE Service!Accept(r)
<1>1. queue \in Seq(Rows) /\ hand \in Seq(Rows)
  BY DEF TypeOK
<1>2. ToSet(hand \o queue) = Accepted
  BY <1>1, SetOfConcat DEF Accepted
<1>3. Append(hand \o queue, r) = hand \o Append(queue, r)
  <2>1. Append(queue, r) = queue \o <<r>>
    BY <1>1, AppendIsConcat
  <2>2. Append(hand \o queue, r) = (hand \o queue) \o <<r>>
    BY <1>1, SetOfConcat, AppendIsConcat
  <2>3. <<r>> \in Seq(Rows)
    OBVIOUS
  <2>4. (hand \o queue) \o <<r>> = hand \o (queue \o <<r>>)
    BY <1>1, <2>3, ConcatAssociative
  <2> QED
    BY <2>1, <2>2, <2>4
<1> QED
  BY <1>2, <1>3 DEF Enqueue, Service!Accept, Service!ToSet, ToSet

\* Writing a batch is committing the oldest rows.
LEMMA WriteCommits ==
  ASSUME TypeOK, Write PROVE \E n \in 1..BatchSize : Service!Commit(n)
<1>1. hand # <<>>
  BY DEF Write
<1>2. /\ Len(Batch) \in 1..BatchSize /\ Len(Batch) <= Len(hand \o queue)
      /\ Batch = SubSeq(hand \o queue, 1, Len(Batch))
      /\ queue' = SubSeq(hand \o queue, Len(Batch) + 1, Len(hand \o queue))
  BY <1>1, BatchIsOldest DEF Write
<1>3. hand' \o queue' = queue'
  <2>1. queue' \in Seq(Rows)
    BY <1>1, BatchIsOldest DEF Write
  <2> QED
    BY <2>1, ConcatEmptySeq DEF Write
<1>4. told' = [r \in Rows |-> IF r \in ToSet(Batch)
                             THEN Len(ledger) + (CHOOSE i \in 1..Len(Batch) : Batch[i] = r)
                             ELSE told[r]]
  BY DEF Write, Place
<1>5. ledger' = ledger \o Batch
  BY DEF Write
<1> DEFINE oldest == SubSeq(hand \o queue, 1, Len(Batch))
<1>6. /\ ledger' = ledger \o oldest
      /\ told' = [r \in Rows |-> IF r \in ToSet(oldest)
                                 THEN Len(ledger) + (CHOOSE i \in 1..Len(oldest) : oldest[i] = r)
                                 ELSE told[r]]
  <2>1. oldest = Batch
    BY <1>2
  <2> HIDE DEF oldest
  <2> QED
    BY <1>4, <1>5, <2>1
<1>7. Service!Commit(Len(Batch))
  BY <1>2, <1>3, <1>6 DEF Service!Commit, Service!ToSet, ToSet
<1> QED
  BY <1>2, <1>7

\* Every step of the writer's world is a step of the service or none.
THEOREM WriterImplementsLedger == Spec => ImplementsLedger
<1>1. Init => Service!LInit
  BY DEF Init, Service!LInit
<1>2. TypeOK /\ [Next]_vars => [Service!LNext]_<<hand \o queue, ledger, told>>
  <2> SUFFICES ASSUME TypeOK, [Next]_vars
               PROVE  Service!LNext \/ UNCHANGED <<hand \o queue, ledger, told>>
    OBVIOUS
  <2>1. ASSUME UNCHANGED rowVars PROVE UNCHANGED <<hand \o queue, ledger, told>>
    BY <2>1 DEF rowVars
  <2>2. ASSUME NEW r \in Rows, Enqueue(r) PROVE Service!LNext
    BY <2>2, EnqueueAccepts DEF Service!LNext
  <2>3. CASE Get
    <3>1. hand \o queue = queue
      BY <2>3, ConcatEmptySeq DEF Get, TypeOK
    <3>2. hand' \o queue' = queue
      BY <2>3, SetOfHeadTail DEF Get, TypeOK
    <3> QED
      BY <2>3, <3>1, <3>2 DEF Get
  <2>4. CASE Write
    BY <2>4, WriteCommits DEF Service!LNext
  <2>5. CASE AppendOther
    BY <2>5 DEF AppendOther, Service!LNext, Service!Others
  <2>6. CASE End \/ Close \/ CloseFlushed \/ CloseJoined \/ UNCHANGED vars
    BY <2>1, <2>6 DEF End, Close, CloseFlushed, CloseJoined, vars
  <2>7. ASSUME NEW f \in Readers, Flush(f) \/ Read(f)
        PROVE  UNCHANGED <<hand \o queue, ledger, told>>
    BY <2>1, <2>7 DEF Flush, Read
  <2> QED
    BY <2>2, <2>3, <2>4, <2>5, <2>6, <2>7, <2>1 DEF Next, WriterStep, CloseStep
<1> QED
  BY <1>1, <1>2, WriterTypes, PTL DEF Spec, ImplementsLedger, Service!LSpec

-----------------------------------------------------------------------------
(* Skills as files: the operators                                            *)

\* A set of numbers with a bound has a largest one, and Max is it.
LEMMA MaxIn ==
  ASSUME NEW n \in Nat, NEW S, S \subseteq 0..n, S # {}
  PROVE  Max(S) \in S
<1> DEFINE less == {ss \in Nat \X Nat : ss[1] < ss[2]}
           T == {n - x : x \in S}
<1>1. IsWellFoundedOn(less, Nat)
  <2>1. OpToRel(<, Nat) = less
    BY Zenon DEF OpToRel
  <2> QED
    BY <2>1, NatLessThanWellFounded
<1>2. T \subseteq Nat /\ T # {}
  <2>1. \A x \in S : n - x \in Nat
    OBVIOUS
  <2>2. T \subseteq Nat
    BY <2>1
  <2>3. PICK x \in S : TRUE
    OBVIOUS
  <2>4. n - x \in T
    OBVIOUS
  <2> QED
    BY <2>2, <2>4
<1>3. PICK y \in T : \A z \in T : ~(<<z, y>> \in less)
  <2> HIDE DEF T, less
  <2> QED
    BY <1>1, <1>2, WFMin
<1>4. PICK x \in S : y = n - x
  BY <1>3
<1>5. \A z \in S : x >= z
  <2> SUFFICES ASSUME NEW z \in S, ~(x >= z) PROVE FALSE
    OBVIOUS
  <2>1. n - z \in T /\ n - z \in Nat /\ y \in Nat /\ n - z < y
    BY <1>4
  <2>2. <<n - z, y>> \in less
    BY <2>1
  <2> HIDE DEF T, less
  <2> QED
    BY <1>3, <2>1, <2>2
<1> QED
  BY <1>5 DEF Max

\* The versions that are left out are the oldest ones.
LEMMA TruncatedType ==
  ASSUME NEW S, NEW v \in Seq(S)
  PROVE  Truncated(v) \in Seq(S)
<1> DEFINE d == Len(v) - KeepVersions
<1>1. Len(v) \in Nat /\ d \in Int
  BY LenProperties, FilesAssumption
<1> HIDE DEF d
<1>2. Max({0, d}) \in Int /\ Max({0, d}) >= 0
  <2>1. \E x \in {0, d} : \A y \in {0, d} : x >= y
    BY <1>1
  <2>2. Max({0, d}) \in {0, d} /\ \A y \in {0, d} : Max({0, d}) >= y
    BY <2>1 DEF Max
  <2> QED
    BY <1>1, <2>2
<1> DEFINE m == 1 + Max({0, d})
<1>3. m \in Int /\ m >= 1
  BY <1>2
<1> HIDE DEF m
<1>4. \A i \in m..Len(v) : v[i] \in S
  BY <1>1, <1>3
<1>5. SubSeq(v, m, Len(v)) \in Seq(S)
  BY <1>1, <1>3, <1>4, SubSeqProperties
<1> QED
  BY <1>5 DEF Truncated, m, d

\* The first of the two types of manifests that can be read.
LEMMA ReadableType ==
  ASSUME FilesTypeOK
  PROVE  /\ Readable \subseteq Records
         /\ ~Torn => Readable = {manifest}
BY DEF Readable, NoRecords, Records, FilesTypeOK

\* What a manifest serves is a content that can be imported.
LEMMA LoadableType ==
  ASSUME NEW records
  PROVE  Loadable(records) \in [Skills -> (Codes \ Broken) \union {None}]
BY DEF Loadable, Imports

\* A call that has raised once begins anew.
LEMMA RaisedType ==
  ASSUME FilesTypeOK, NEW o \in Calls
  PROVE  Raised(o) \in Call
<1>1. call[o] \in Call
  BY DEF FilesTypeOK
<1>2. Idle \in Call
  BY DEF Idle, Attempt, Call, Phases
<1> DEFINE ph == IF call[o].kind = "add" THEN "snapshot" ELSE "restore"
           c == [phase |-> ph, kind |-> call[o].kind, skill |-> call[o].skill,
                 code |-> call[o].code, tries |-> 2, snap |-> None, old |-> None,
                 copy |-> None, alone |-> call[o].alone]
<1>3. ph \in Phases
  BY DEF Phases
<1>4. Raised(o) = IF call[o].tries = 1 THEN c ELSE Idle
  BY DEF Raised, Attempt, ph
<1> HIDE DEF ph
<1>5. c \in Call
  BY <1>1, <1>3 DEF Call
<1> QED
  BY <1>2, <1>4, <1>5

\* A call that starts has its type, and the others know of it.
LEMMA BeginType ==
  ASSUME FilesTypeOK, NEW o \in Calls, NEW first \in Call, Begin(o, first)
  PROVE  /\ call' \in [Calls -> Call]
         /\ call'[o] = [first EXCEPT !.alone = \A q \in Calls \ {o} : Phase(q) = "idle"]
         /\ \A p \in Calls \ {o} :
              call'[p] = IF Phase(p) = "idle" THEN Idle ELSE [call[p] EXCEPT !.alone = FALSE]
<1>1. Idle \in Call
  BY DEF Idle, Attempt, Call, Phases
<1>2. \A c \in Call, b \in BOOLEAN : [c EXCEPT !.alone = b] \in Call
  BY DEF Call
<1>3. \A p \in Calls : call[p] \in Call
  BY DEF FilesTypeOK
<1> QED
  BY <1>1, <1>2, <1>3 DEF Begin

-----------------------------------------------------------------------------
(* The types                                                                 *)

\* Which version is restored is a version.
LEMMA ChosenType ==
  ASSUME FilesTypeOK, NEW s \in Skills, NEW versions \in Seq(Times \union {Current}),
         NEW v \in Times \union {Latest}
  PROVE  Chosen(s, versions, v) \in Times \union {Current, None}
<1> DEFINE there == {i \in DOMAIN versions : Exists(s, versions[i])}
<1>1. CASE (v = Latest \/ Contains(versions, v)) /\ Exists(s, v)
  BY <1>1 DEF Chosen, Latest, Current
<1>2. CASE ~((v = Latest \/ Contains(versions, v)) /\ Exists(s, v))
  <2>1. Chosen(s, versions, v) = IF there = {} THEN None ELSE versions[Max(there)]
    BY <1>2 DEF Chosen
  <2>2. there \subseteq DOMAIN versions /\ DOMAIN versions = 1..Len(versions)
        /\ Len(versions) \in Nat
    BY LenProperties
  <2> HIDE DEF there
  <2>3. there # {} => Max(there) \in there
    BY <2>2, MaxIn
  <2>4. there # {} => versions[Max(there)] \in Times \union {Current}
    BY <2>2, <2>3, ElementOfSeq
  <2> QED
    BY <2>1, <2>4
<1> QED
  BY <1>1, <1>2

\* The snapshot a rollback takes is there.
LEMMA TargetIsThere ==
  ASSUME FilesTypeOK, NamesOk, NEW s \in Skills, Target(s) # None
  PROVE  Target(s) \in Times /\ snaps[Target(s)] # None
<1> DEFINE there == {t \in Times : snaps[t] # None}
<1>1. CASE journal[s] # None
  BY <1>1 DEF Target, NamesOk, FilesTypeOK
<1>2. CASE journal[s] = None
  <2>1. Target(s) = IF there = {} THEN None ELSE Max(there)
    BY <1>2 DEF Target
  <2>2. there # {} => Max(there) \in there
    <3>1. there \subseteq 0..MaxClock /\ MaxClock \in Nat
      BY FilesAssumption DEF Times
    <3> HIDE DEF there
    <3> QED
      BY <3>1, MaxIn
  <2> QED
    BY <2>1, <2>2
<1> QED
  BY <1>1, <1>2

\* What is snapshotted is a zip file.
LEMMA ZippedType ==
  ASSUME FilesTypeOK, NEW read \in Records
  PROVE  /\ Zipped(read) \in [Times -> Zipfile \union {None}]
         /\ Zipped(read)[now] # None
         /\ \A t \in Times : snaps[t] # None => Zipped(read)[t] # None
<1>1. [file |-> file, archive |-> archive, manifest |-> read] \in Zipfile
  BY DEF Zipfile, FilesTypeOK
<1>2. [file |-> file, archive |-> archive, manifest |-> read] # None
  BY <1>1, NoneAssumption
<1> QED
  BY <1>1, <1>2 DEF Zipped, FilesTypeOK

\* The fields of a call that goes on.
LEMMA ToType ==
  ASSUME FilesTypeOK, NEW o \in Calls, NEW ph \in Phases, To(o, ph)
  PROVE  /\ call' \in [Calls -> Call]
         /\ call'[o] = [call[o] EXCEPT !.phase = ph]
         /\ \A p \in Calls \ {o} : call'[p] = call[p]
<1>1. [call[o] EXCEPT !.phase = ph] \in Call
  BY DEF FilesTypeOK, Call
<1>2. call' = [call EXCEPT ![o] = [call[o] EXCEPT !.phase = ph]]
  BY DEF To, Becomes
<1> QED
  BY <1>1, <1>2 DEF FilesTypeOK

\* A call of which only the state changes.
LEMMA OneCallType ==
  ASSUME FilesTypeOK, NEW o \in Calls, NEW c \in Call, Becomes(o, c)
  PROVE  /\ call' \in [Calls -> Call]
         /\ call'[o] = c
         /\ \A p \in Calls \ {o} : call'[p] = call[p]
BY DEF FilesTypeOK, Becomes

\* What is known of the calls that do not move.
Rests(p) == call'[p] \in {call[p], Idle, [call[p] EXCEPT !.alone = FALSE]}

\* A snapshot is replaced and never dropped.
SnapsGrow == \A t \in Times : snaps[t] # None => snaps'[t] # None

\* What a call carries is still there when others move.
LEMMA RestsOk ==
  ASSUME FilesTypeOK, NEW p \in Calls, CallOk(p), Rests(p), SnapsGrow
  PROVE  CallOk(p)'
<1>1. CASE call'[p] = Idle
  BY <1>1 DEF CallOk, Phase, Idle, Attempt
<1>2. CASE call'[p] \in {call[p], [call[p] EXCEPT !.alone = FALSE]}
  <2>1. call[p] \in Call
    BY DEF FilesTypeOK
  <2>2. /\ call'[p].phase = call[p].phase /\ call'[p].kind = call[p].kind
        /\ call'[p].skill = call[p].skill /\ call'[p].code = call[p].code
        /\ call'[p].snap = call[p].snap /\ call'[p].copy = call[p].copy
    BY <1>2, <2>1 DEF Call
  <2>3. call[p].snap \in Times \union {None}
    BY <2>1 DEF Call
  <2> QED
    BY <2>2, <2>3 DEF CallOk, Phase, SnapsGrow
<1> QED
  BY <1>1, <1>2 DEF Rests

\* A step of one call.
LEMMA StepOk ==
  ASSUME FilesTypeOK, NamesOk, SnapsGrow, NEW o \in Calls, CallOk(o)',
         \A p \in Calls \ {o} : Rests(p),
         \A s \in Skills : journal'[s] # None => snaps'[journal'[s]] # None
  PROVE  NamesOk'
<1>1. \A p \in Calls \ {o} : CallOk(p)'
  BY RestsOk DEF NamesOk
<1> QED
  BY <1>1 DEF NamesOk

\* A step that leaves the snapshots alone.
LEMMA PlainStepOk ==
  ASSUME FilesTypeOK, NamesOk, UNCHANGED <<snaps, journal>>, NEW o \in Calls, CallOk(o)',
         \A p \in Calls \ {o} : Rests(p)
  PROVE  NamesOk'
<1>1. SnapsGrow
  BY DEF SnapsGrow
<1>2. \A p \in Calls \ {o} : CallOk(p)'
  BY <1>1, RestsOk DEF NamesOk
<1>3. \A s \in Skills : journal'[s] # None => snaps'[journal'[s]] # None
  BY DEF NamesOk
<1> QED
  BY <1>2, <1>3 DEF NamesOk

\* A call that raises has what its next attempt needs.
LEMMA RaisesOk ==
  ASSUME FilesTypeOK, NamesOk, UNCHANGED snaps, NEW o \in Calls, Raises(o),
         Phase(o) \in {"archive", "install", "restore", "reinstall"}
  PROVE  /\ call' \in [Calls -> Call] /\ CallOk(o)' /\ call'[o] = Raised(o)
         /\ \A p \in Calls \ {o} : call'[p] = call[p]
<1>1. /\ call' \in [Calls -> Call] /\ call'[o] = Raised(o)
      /\ \A p \in Calls \ {o} : call'[p] = call[p]
  BY RaisedType, OneCallType DEF Raises
<1>2. CallOk(o) /\ call[o] \in Call
  BY DEF NamesOk, FilesTypeOK
<1> SUFFICES CallOk(o)'
  BY <1>1
<1>3. CASE call[o].tries = 1
  <2>1. /\ call'[o].phase = IF call[o].kind = "add" THEN "snapshot" ELSE "restore"
        /\ call'[o].kind = call[o].kind /\ call'[o].skill = call[o].skill
        /\ call'[o].code = call[o].code /\ call'[o].snap = None
    BY <1>1, <1>3 DEF Raised, Attempt
  <2> QED
    BY <1>2, <2>1 DEF CallOk, Phase
<1>4. CASE call[o].tries # 1
  <2>1. call'[o] = Idle
    BY <1>1, <1>4 DEF Raised
  <2>2. call'[o].phase = "idle" /\ call'[o].snap = None
    BY <2>1 DEF Idle, Attempt
  <2> QED
    BY <2>2 DEF CallOk, Phase
<1> QED
  BY <1>3, <1>4

\* A call that starts.
LEMMA BeginOk ==
  ASSUME FilesTypeOK, NamesOk, UNCHANGED <<snaps, journal>>, NEW o \in Calls,
         NEW first \in Call, Begin(o, first), first.phase # "idle" => first.skill \in Skills,
         \/ first.phase = "snapshot" /\ first.kind = "add" /\ first.code \in Codes
         \/ first.phase = "restore" /\ first.kind = "rollback"
            /\ first.code \in Times \union {Latest}
         \/ first.phase = "clear" /\ first.kind = "guard" /\ first.snap # None,
         first.snap # None => snaps[first.snap] # None
  PROVE  call' \in [Calls -> Call] /\ NamesOk'
<1>1. /\ call' \in [Calls -> Call]
      /\ call'[o] = [first EXCEPT !.alone = \A q \in Calls \ {o} : Phase(q) = "idle"]
      /\ \A p \in Calls \ {o} : Rests(p)
  BY BeginType DEF Rests
<1>2. /\ call'[o].phase = first.phase /\ call'[o].kind = first.kind
      /\ call'[o].skill = first.skill /\ call'[o].code = first.code
      /\ call'[o].snap = first.snap
  BY <1>1 DEF Call
<1>3. CallOk(o)'
  BY <1>2 DEF CallOk, Phase
<1> QED
  BY <1>1, <1>3, PlainStepOk

-----------------------------------------------------------------------------
(* Every step keeps the types, and what is named is there                    *)

\* A deployment begins.
LEMMA AddTyped ==
  ASSUME FilesTypeOK, NamesOk, NEW o \in Calls, NEW s \in Skills, NEW c \in Codes, Add(o, s, c)
  PROVE  FilesTypeOK' /\ NamesOk'
<1> DEFINE first == Attempt("snapshot", "add", s, c, 1)
<1>1. first \in Call
  BY DEF Attempt, Call, Phases
<1>2. call' \in [Calls -> Call] /\ NamesOk'
  <2>1. /\ first.phase = "snapshot" /\ first.kind = "add" /\ first.code \in Codes
        /\ first.skill \in Skills /\ first.snap = None
    BY DEF Attempt
  <2>2. UNCHANGED <<snaps, journal>> /\ Begin(o, first)
    BY DEF Add, store
  <2> HIDE DEF first
  <2> QED
    BY <1>1, <2>1, <2>2, BeginOk
<1> QED
  BY <1>2 DEF Add, dir, store, FilesTypeOK

\* A rollback begins.
LEMMA RollbackTyped ==
  ASSUME FilesTypeOK, NamesOk, NEW o \in Calls, NEW s \in Skills,
         NEW v \in Times \union {Latest}, Rollback(o, s, v)
  PROVE  FilesTypeOK' /\ NamesOk'
<1> DEFINE first == Attempt("restore", "rollback", s, v, 1)
<1>1. first \in Call
  BY DEF Attempt, Call, Phases
<1>2. call' \in [Calls -> Call] /\ NamesOk'
  <2>1. /\ first.phase = "restore" /\ first.kind = "rollback"
        /\ first.code \in Times \union {Latest}
        /\ first.skill \in Skills /\ first.snap = None
    BY DEF Attempt
  <2>2. UNCHANGED <<snaps, journal>> /\ Begin(o, first)
    BY DEF Rollback, store
  <2> HIDE DEF first
  <2> QED
    BY <1>1, <2>1, <2>2, BeginOk
<1> QED
  BY <1>2 DEF Rollback, dir, store, FilesTypeOK

\* A failure counts, and may begin the guard's rollback.
LEMMA FailTyped ==
  ASSUME FilesTypeOK, NamesOk, NEW o \in Calls, NEW s \in Skills, Fail(o, s)
  PROVE  FilesTypeOK' /\ NamesOk'
<1>1. PICK n \in 1..errors[s] + 1 :
        /\ errors' = [errors EXCEPT ![s] = Min({n, Trip})]
        /\ IF n >= Trip /\ Target(s) # None
           THEN Begin(o, [Attempt("clear", "guard", s, None, 0) EXCEPT !.snap = Target(s)])
           ELSE UNCHANGED call
  BY DEF Fail
<1>2. errors' \in [Skills -> 0..Trip]
  <2>1. n \in Nat /\ Trip \in Nat
    BY FilesAssumption DEF FilesTypeOK
  <2>2. \E x \in {n, Trip} : \A y \in {n, Trip} : x <= y
    BY <2>1
  <2>3. Min({n, Trip}) \in {n, Trip} /\ Min({n, Trip}) <= Trip
    BY <2>2 DEF Min
  <2>4. Min({n, Trip}) \in 0..Trip
    BY <2>1, <2>3
  <2> QED
    BY <1>1, <2>4 DEF FilesTypeOK
<1>3. call' \in [Calls -> Call] /\ NamesOk'
  <2>1. UNCHANGED <<snaps, journal>>
    BY DEF Fail, store
  <2>2. CASE n >= Trip /\ Target(s) # None
    <3> DEFINE first == [Attempt("clear", "guard", s, None, 0) EXCEPT !.snap = Target(s)]
    <3>1. Target(s) \in Times /\ snaps[Target(s)] # None
      BY <2>2, TargetIsThere
    <3>2. Attempt("clear", "guard", s, None, 0) \in Call
      BY DEF Attempt, Call, Phases
    <3>3. first \in Call
      BY <3>1, <3>2 DEF Call
    <3>4. /\ first.phase = "clear" /\ first.kind = "guard" /\ first.skill \in Skills
          /\ first.snap = Target(s)
      BY <3>2 DEF Call, Attempt
    <3>5. Begin(o, first)
      BY <1>1, <2>2
    <3> HIDE DEF first
    <3> QED
      BY <2>1, <2>2, <3>1, <3>3, <3>4, <3>5, BeginOk
  <2>3. CASE ~(n >= Trip /\ Target(s) # None)
    <3>1. UNCHANGED call
      BY <1>1, <2>3
    <3> QED
      BY <2>1, <3>1 DEF FilesTypeOK, NamesOk, CallOk, Phase
  <2> QED
    BY <2>2, <2>3
<1> QED
  BY <1>2, <1>3 DEF Fail, dir, store, FilesTypeOK

\* What a record becomes is a record.
LEMMA AddedType ==
  ASSUME FilesTypeOK, NEW o \in Calls, NEW v \in Seq(Times \union {Current}) \union {None}
  PROVE  Added(o, v) \in Seq(Times \union {Current}) /\ Added(o, v) # None
<1> DEFINE S == Times \union {Current}
           base == IF v = None THEN <<>> ELSE v
           self == IF file[call[o].skill] # None THEN <<Current>> ELSE <<>>
           prev == IF call[o].old # None THEN <<call[o].old>> ELSE <<>>
<1>1. call[o].old \in Times \union {None}
  BY DEF FilesTypeOK, Call
<1>2. base \in Seq(S) /\ self \in Seq(S) /\ prev \in Seq(S)
  <2>1. <<>> \in Seq(S) /\ <<Current>> \in Seq(S)
    OBVIOUS
  <2>2. call[o].old # None => <<call[o].old>> \in Seq(S)
    BY <1>1
  <2> QED
    BY <2>1, <2>2
<1>3. Added(o, v) = Truncated(base \o self \o prev)
  BY DEF Added
<1> HIDE DEF S, base, self, prev
<1>4. base \o self \o prev \in Seq(S)
  BY <1>2, ConcatProperties
<1>5. Added(o, v) \in Seq(S)
  BY <1>3, <1>4, TruncatedType
<1> QED
  BY <1>5, NoneAssumption DEF S

\* What is registered can be imported.
LEMMA RegisterType ==
  ASSUME FilesTypeOK, NEW o \in Calls, NEW s \in Skills, Register(o, s)
  PROVE  handler' \in [Skills -> (Codes \ Broken) \union {None}] /\ apart' \subseteq Skills
BY DEF Register, Imports, FilesTypeOK

\* A deployment takes its snapshot.
LEMMA SnapshotTyped ==
  ASSUME FilesTypeOK, NamesOk, NEW o \in Calls, Snapshot(o)
  PROVE  FilesTypeOK' /\ NamesOk'
<1>1. PICK ok \in BOOLEAN, read \in Readable :
        /\ snaps' = IF ok THEN Zipped(read) ELSE snaps
        /\ Becomes(o, [call[o] EXCEPT !.snap = IF ok THEN now ELSE None,
                                      !.phase = IF file[call[o].skill] # None
                                                THEN "archive" ELSE "write"])
  BY DEF Snapshot
<1> DEFINE sn == IF ok THEN now ELSE None
           ph == IF file[call[o].skill] # None THEN "archive" ELSE "write"
           d == [call[o] EXCEPT !.snap = sn, !.phase = ph]
<1>2. CallOk(o) /\ call[o] \in Call /\ Phase(o) = "snapshot"
  BY DEF NamesOk, FilesTypeOK, Snapshot
<1>3. sn \in Times \union {None} /\ ph \in Phases /\ ph \in {"archive", "write"}
  BY DEF FilesTypeOK, Phases
<1>4. Becomes(o, d)
  BY <1>1
<1> HIDE DEF ph
<1>5. /\ d \in Call /\ d.phase = ph /\ d.snap = sn /\ d.kind = call[o].kind
      /\ d.skill = call[o].skill /\ d.code = call[o].code
  <2> DEFINE c == call[o]
  <2>1. d = [c EXCEPT !.snap = sn, !.phase = ph] /\ c \in Call
    BY <1>2
  <2> HIDE DEF c, sn, d
  <2>2. /\ d \in Call /\ d.phase = ph /\ d.snap = sn /\ d.kind = c.kind
        /\ d.skill = c.skill /\ d.code = c.code
    BY <1>3, <2>1 DEF Call
  <2> QED
    BY <2>2 DEF c
<1> HIDE DEF d
<1>6. /\ call' \in [Calls -> Call] /\ call'[o] = d
      /\ \A p \in Calls \ {o} : call'[p] = call[p]
  BY <1>4, <1>5, OneCallType
<1>7. /\ snaps' \in [Times -> Zipfile \union {None}] /\ SnapsGrow
      /\ sn # None => snaps'[sn] # None
  <2>1. read \in Records
    BY ReadableType
  <2> QED
    BY <1>1, <2>1, ZippedType DEF SnapsGrow, FilesTypeOK
<1> HIDE DEF sn
<1>8. CallOk(o)'
  BY <1>2, <1>3, <1>5, <1>6, <1>7 DEF CallOk, Phase
<1>9. \A p \in Calls \ {o} : Rests(p)
  BY <1>6 DEF Rests
<1>10. \A s \in Skills : journal'[s] # None => snaps'[journal'[s]] # None
  BY <1>7 DEF Snapshot, NamesOk, FilesTypeOK, SnapsGrow
<1>11. NamesOk'
  BY <1>7, <1>8, <1>9, <1>10, StepOk
<1> QED
  BY <1>6, <1>7, <1>11 DEF Snapshot, dir, FilesTypeOK

\* A step of a call that goes on to its next part, or ends.
LEMMA NextPartOk ==
  ASSUME FilesTypeOK, NamesOk, UNCHANGED <<snaps, journal>>, NEW o \in Calls,
         NEW c \in Call, Becomes(o, c),
         \/ c = Idle
         \/ /\ Phase(o) # "idle" /\ c.phase # "idle"
            /\ c.kind = call[o].kind /\ c.skill = call[o].skill /\ c.code = call[o].code
            /\ c.snap = call[o].snap
            /\ c.phase \in {"snapshot", "archive", "write", "install", "record"}
                 => c.kind = "add"
            /\ c.phase \in {"restore", "reinstall"} => c.kind = "rollback"
            /\ c.phase \in {"clear", "unpack"} => c.snap # None
            /\ c.phase \in {"writing", "reinstall"} =>
                 c.copy \in Records /\ c.copy[c.skill] # None
  PROVE  call' \in [Calls -> Call] /\ NamesOk'
<1>1. /\ call' \in [Calls -> Call] /\ call'[o] = c
      /\ \A p \in Calls \ {o} : call'[p] = call[p]
  BY OneCallType
<1>2. CallOk(o) /\ call[o] \in Call
  BY DEF NamesOk, FilesTypeOK
<1>3. CallOk(o)'
  <2>1. CASE c = Idle
    <3>1. call'[o].phase = "idle" /\ call'[o].snap = None
      BY <1>1, <2>1 DEF Idle, Attempt
    <3> QED
      BY <3>1 DEF CallOk, Phase
  <2>2. CASE c # Idle
    BY <1>1, <1>2, <2>2 DEF CallOk, Phase
  <2> QED
    BY <2>1, <2>2
<1>4. \A p \in Calls \ {o} : Rests(p)
  BY <1>1 DEF Rests
<1> QED
  BY <1>1, <1>3, <1>4, PlainStepOk

\* A step after which the call raises.
LEMMA RaisedOk ==
  ASSUME FilesTypeOK, NamesOk, UNCHANGED <<snaps, journal>>, NEW o \in Calls, Raises(o),
         Phase(o) \in {"archive", "install", "restore", "reinstall"}
  PROVE  call' \in [Calls -> Call] /\ NamesOk'
<1>1. /\ call' \in [Calls -> Call] /\ CallOk(o)'
      /\ \A p \in Calls \ {o} : call'[p] = call[p]
  BY RaisesOk
<1>2. \A p \in Calls \ {o} : Rests(p)
  BY <1>1 DEF Rests
<1> QED
  BY <1>1, <1>2, PlainStepOk

\* The end of a call.
LEMMA EndTyped ==
  ASSUME FilesTypeOK, NamesOk, UNCHANGED <<snaps, journal>>, NEW o \in Calls, Becomes(o, Idle)
  PROVE  call' \in [Calls -> Call] /\ NamesOk'
<1>1. Idle \in Call
  BY DEF Idle, Attempt, Call, Phases
<1> QED
  BY <1>1, NextPartOk

\* A part that changes nothing but the state of its call.
LEMMA ToTyped ==
  ASSUME FilesTypeOK, NamesOk, UNCHANGED <<snaps, journal>>, NEW o \in Calls,
         NEW ph \in Phases, To(o, ph), Phase(o) # "idle", ph # "idle",
         ph \in {"snapshot", "archive", "write", "install", "record"} => call[o].kind = "add",
         ph \in {"restore", "reinstall"} => call[o].kind = "rollback",
         ph \in {"clear", "unpack"} => call[o].snap # None,
         ph \in {"writing", "reinstall"} =>
           call[o].copy \in Records /\ call[o].copy[call[o].skill] # None
  PROVE  call' \in [Calls -> Call] /\ NamesOk'
<1> DEFINE c == call[o]
           d == [c EXCEPT !.phase = ph]
<1>1. c \in Call /\ Becomes(o, d)
  BY DEF FilesTypeOK, To
<1> HIDE DEF c
<1>2. /\ d \in Call /\ d.phase = ph /\ d.snap = c.snap /\ d.kind = c.kind
      /\ d.skill = c.skill /\ d.code = c.code /\ d.copy = c.copy
  BY <1>1 DEF Call
<1> HIDE DEF d
<1> QED
  BY <1>1, <1>2, NextPartOk DEF c

\* The file that a deployment replaces is copied to the archive.
LEMMA ArchiveTyped ==
  ASSUME FilesTypeOK, NamesOk, NEW o \in Calls, Archive(o)
  PROVE  FilesTypeOK' /\ NamesOk'
<1>1. CallOk(o) /\ call[o] \in Call /\ Phase(o) = "archive" /\ UNCHANGED <<snaps, journal>>
  BY DEF NamesOk, FilesTypeOK, Archive, store
<1>2. CASE file[call[o].skill] # None
  <2> DEFINE c == call[o]
             d == [c EXCEPT !.old = now, !.phase = "write"]
  <2>1. Becomes(o, d)
    BY <1>2 DEF Archive
  <2>2. archive' = [archive EXCEPT ![c.skill][now] = file[c.skill]]
    BY <1>2 DEF Archive
  <2>3. c \in Call /\ now \in Times
    BY <1>1 DEF FilesTypeOK
  <2>4. c.skill \in Skills /\ c.kind = "add"
    BY <1>1 DEF CallOk
  <2> HIDE DEF c
  <2>5. /\ d \in Call /\ d.phase = "write" /\ d.snap = c.snap /\ d.kind = c.kind
        /\ d.skill = c.skill /\ d.code = c.code /\ d.copy = c.copy
    BY <2>3 DEF Call, Phases
  <2> HIDE DEF d
  <2>6. call' \in [Calls -> Call] /\ NamesOk'
    BY <1>1, <2>1, <2>4, <2>5, NextPartOk DEF c
  <2>7. archive' \in [Skills -> [Times -> Contents]]
    BY <2>2, <2>3, <2>4 DEF FilesTypeOK
  <2> QED
    BY <2>6, <2>7 DEF Archive, store, FilesTypeOK
<1>3. CASE ~(file[call[o].skill] # None)
  <2>1. Raises(o) /\ UNCHANGED archive
    BY <1>3 DEF Archive
  <2>2. call' \in [Calls -> Call] /\ NamesOk'
    BY <1>1, <2>1, RaisedOk
  <2> QED
    BY <2>1, <2>2 DEF Archive, store, FilesTypeOK
<1> QED
  BY <1>2, <1>3

\* The file is written.
LEMMA WriteFileTyped ==
  ASSUME FilesTypeOK, NamesOk, NEW o \in Calls, WriteFile(o)
  PROVE  FilesTypeOK' /\ NamesOk'
<1>1. /\ CallOk(o) /\ Phase(o) = "write" /\ UNCHANGED <<snaps, journal>> /\ To(o, "install")
  BY DEF NamesOk, WriteFile, store
<1>2. call[o].kind = "add" /\ call[o].skill \in Skills /\ call[o].code \in Codes
  BY <1>1 DEF CallOk
<1>3. "install" \in Phases
  BY DEF Phases
<1>4. call' \in [Calls -> Call] /\ NamesOk'
  BY <1>1, <1>2, <1>3, ToTyped
<1>5. file' \in [Skills -> Contents]
  BY <1>2 DEF WriteFile, FilesTypeOK, Contents
<1> QED
  BY <1>4, <1>5 DEF WriteFile, store, FilesTypeOK

\* The deployment is noted and the file imported.
LEMMA InstallTyped ==
  ASSUME FilesTypeOK, NamesOk, NEW o \in Calls, Install(o)
  PROVE  FilesTypeOK' /\ NamesOk'
<1>1. /\ CallOk(o) /\ Phase(o) = "install" /\ snaps' = snaps /\ call[o] \in Call
  BY DEF NamesOk, Install, FilesTypeOK
<1>2. /\ call[o].kind = "add" /\ call[o].skill \in Skills
      /\ call[o].snap # None => call[o].snap \in Times /\ snaps[call[o].snap] # None
  BY <1>1 DEF CallOk, Call
<1>3. /\ journal' \in [Skills -> Times \union {None}]
      /\ \A s \in Skills : journal'[s] # None => snaps'[journal'[s]] # None
  BY <1>1, <1>2 DEF Install, FilesTypeOK, NamesOk
<1>4. handler' \in [Skills -> (Codes \ Broken) \union {None}] /\ apart' \subseteq Skills
  BY <1>2, RegisterType DEF Install
<1>5. SnapsGrow
  BY <1>1 DEF SnapsGrow
<1>6. call' \in [Calls -> Call] /\ CallOk(o)' /\ \A p \in Calls \ {o} : Rests(p)
  <2>1. CASE Imports(file[call[o].skill])
    <3>1. To(o, "record") /\ "record" \in Phases
      BY <2>1 DEF Install, Phases
    <3>2. /\ call' \in [Calls -> Call] /\ call'[o] = [call[o] EXCEPT !.phase = "record"]
          /\ \A p \in Calls \ {o} : call'[p] = call[p]
      BY <3>1, ToType
    <3> DEFINE c == call[o]
               d == call'[o]
    <3>3. c \in Call /\ d = [c EXCEPT !.phase = "record"]
      BY <1>1, <3>2
    <3> HIDE DEF c, d
    <3>4. /\ d.phase = "record" /\ d.snap = c.snap /\ d.kind = c.kind
          /\ d.skill = c.skill /\ d.code = c.code
      BY <3>3 DEF Call
    <3>5. CallOk(o)'
      BY <1>1, <1>2, <3>4 DEF CallOk, Phase, c, d
    <3> QED
      BY <3>2, <3>5 DEF Rests
  <2>2. CASE ~Imports(file[call[o].skill])
    <3>1. Raises(o)
      BY <2>2 DEF Install
    <3> QED
      BY <1>1, <3>1, RaisesOk DEF Rests
  <2> QED
    BY <2>1, <2>2
<1>7. NamesOk'
  BY <1>3, <1>5, <1>6, StepOk
<1> QED
  BY <1>3, <1>4, <1>6, <1>7 DEF Install, dir, FilesTypeOK

\* The manifest is read for its next version.
LEMMA RecordTyped ==
  ASSUME FilesTypeOK, NamesOk, NEW o \in Calls, Record(o)
  PROVE  FilesTypeOK' /\ NamesOk'
<1> DEFINE c == call[o]
<1>1. /\ CallOk(o) /\ Phase(o) = "record" /\ UNCHANGED <<snaps, journal>> /\ c \in Call
      /\ c.skill \in Skills
  BY DEF NamesOk, Record, store, FilesTypeOK, CallOk
<1>2. PICK read \in Readable :
        Becomes(o, [c EXCEPT !.phase = "writing",
                             !.copy = [read EXCEPT ![c.skill] = Added(o, @)]])
  BY DEF Record
<1> DEFINE r == [read EXCEPT ![c.skill] = Added(o, @)]
           d == [c EXCEPT !.phase = "writing", !.copy = r]
<1>3. read \in Records
  BY ReadableType
<1>4. r \in Records /\ r[c.skill] # None
  <2>1. read[c.skill] \in Seq(Times \union {Current}) \union {None}
    BY <1>1, <1>3 DEF Records
  <2>2. Added(o, read[c.skill]) \in Seq(Times \union {Current}) /\ Added(o, read[c.skill]) # None
    BY <2>1, AddedType
  <2> HIDE DEF c
  <2> QED
    BY <1>1, <1>3, <2>2 DEF Records
<1>5. Becomes(o, d)
  BY <1>2
<1> HIDE DEF c, r
<1>6. /\ d \in Call /\ d.phase = "writing" /\ d.snap = c.snap /\ d.kind = c.kind
      /\ d.skill = c.skill /\ d.code = c.code /\ d.copy = r
  BY <1>1, <1>4 DEF Call, Phases
<1> HIDE DEF d
<1>7. call' \in [Calls -> Call] /\ NamesOk'
  BY <1>1, <1>4, <1>5, <1>6, NextPartOk DEF c
<1> QED
  BY <1>7 DEF Record, dir, store, FilesTypeOK

\* The manifest is written.
LEMMA WriteManifestTyped ==
  ASSUME FilesTypeOK, NamesOk, NEW o \in Calls, WriteManifest(o)
  PROVE  FilesTypeOK' /\ NamesOk'
<1>1. call' \in [Calls -> Call] /\ NamesOk'
  BY EndTyped DEF WriteManifest, store
<1>2. manifest' \in Records
  BY DEF WriteManifest, NamesOk, CallOk
<1>3. apart' \subseteq Skills
  BY DEF WriteManifest, FilesTypeOK, Forgotten
<1> QED
  BY <1>1, <1>2, <1>3 DEF WriteManifest, store, FilesTypeOK

\* An archived version is put back.
LEMMA RestoreTyped ==
  ASSUME FilesTypeOK, NamesOk, NEW o \in Calls, Restore(o)
  PROVE  FilesTypeOK' /\ NamesOk'
<1> DEFINE c == call[o]
           From(versions) == IF versions = None THEN None ELSE Chosen(c.skill, versions, c.code)
<1>1. /\ CallOk(o) /\ Phase(o) = "restore" /\ UNCHANGED <<snaps, journal>> /\ c \in Call
      /\ c.skill \in Skills /\ c.kind = "rollback" /\ c.code \in Times \union {Latest}
  BY DEF NamesOk, Restore, store, FilesTypeOK, CallOk
<1>2. PICK read \in Readable :
        IF From(read[c.skill]) \in {None, Current}
        THEN Raises(o) /\ UNCHANGED file
        ELSE /\ file' = [file EXCEPT ![c.skill] = archive[c.skill][From(read[c.skill])]]
             /\ Becomes(o, [c EXCEPT !.phase = "reinstall", !.copy = read])
  BY DEF Restore
<1>3. CASE From(read[c.skill]) \in {None, Current}
  <2>1. Raises(o) /\ UNCHANGED file
    BY <1>2, <1>3
  <2>2. call' \in [Calls -> Call] /\ NamesOk'
    BY <1>1, <2>1, RaisedOk
  <2> QED
    BY <2>1, <2>2 DEF Restore, store, FilesTypeOK
<1>4. CASE ~(From(read[c.skill]) \in {None, Current})
  <2>1. read \in Records
    BY ReadableType
  <2>2. read[c.skill] \in Seq(Times \union {Current}) \union {None}
    BY <1>1, <2>1 DEF Records
  <2>3. read[c.skill] # None /\ From(read[c.skill]) = Chosen(c.skill, read[c.skill], c.code)
    BY <1>4
  <2>4. Chosen(c.skill, read[c.skill], c.code) \in Times \union {Current, None}
    BY <1>1, <2>2, <2>3, ChosenType
  <2>5. From(read[c.skill]) \in Times
    BY <1>4, <2>3, <2>4
  <2> DEFINE d == [c EXCEPT !.phase = "reinstall", !.copy = read]
  <2>6. Becomes(o, d) /\ file' = [file EXCEPT ![c.skill] = archive[c.skill][From(read[c.skill])]]
    BY <1>2, <1>4
  <2> HIDE DEF c, From
  <2>7. file' \in [Skills -> Contents]
    BY <1>1, <2>5, <2>6 DEF FilesTypeOK
  <2>8. /\ d \in Call /\ d.phase = "reinstall" /\ d.snap = c.snap /\ d.kind = c.kind
        /\ d.skill = c.skill /\ d.code = c.code /\ d.copy = read
    BY <1>1, <2>1 DEF Call, Phases
  <2> HIDE DEF d
  <2>9. call' \in [Calls -> Call] /\ NamesOk'
    BY <1>1, <2>1, <2>3, <2>6, <2>8, NextPartOk DEF c
  <2> QED
    BY <2>7, <2>9 DEF Restore, store, FilesTypeOK
<1> QED
  BY <1>3, <1>4

\* What was put back is imported.
LEMMA ReinstallTyped ==
  ASSUME FilesTypeOK, NamesOk, NEW o \in Calls, Reinstall(o)
  PROVE  FilesTypeOK' /\ NamesOk'
<1>1. /\ CallOk(o) /\ Phase(o) = "reinstall" /\ UNCHANGED <<snaps, journal>>
  BY DEF NamesOk, Reinstall, store
<1>2. /\ call[o].skill \in Skills /\ call[o].copy \in Records
      /\ call[o].copy[call[o].skill] # None
  BY <1>1 DEF CallOk
<1>3. handler' \in [Skills -> (Codes \ Broken) \union {None}] /\ apart' \subseteq Skills
  BY <1>2, RegisterType DEF Reinstall
<1>4. call' \in [Calls -> Call] /\ NamesOk'
  <2>1. CASE Imports(file[call[o].skill])
    <3>1. To(o, "writing") /\ "writing" \in Phases
      BY <2>1 DEF Reinstall, Phases
    <3> QED
      BY <1>1, <1>2, <3>1, ToTyped
  <2>2. CASE ~Imports(file[call[o].skill])
    <3>1. Raises(o)
      BY <2>2 DEF Reinstall
    <3> QED
      BY <1>1, <3>1, RaisedOk
  <2> QED
    BY <2>1, <2>2
<1> QED
  BY <1>3, <1>4 DEF Reinstall, dir, store, FilesTypeOK

\* The directory is emptied.
LEMMA ClearTyped ==
  ASSUME FilesTypeOK, NamesOk, NEW o \in Calls, Clear(o)
  PROVE  FilesTypeOK' /\ NamesOk'
<1>1. /\ CallOk(o) /\ Phase(o) = "clear" /\ UNCHANGED <<snaps, journal>> /\ To(o, "unpack")
  BY DEF NamesOk, Clear, store
<1>2. call[o].snap # None /\ "unpack" \in Phases
  BY <1>1 DEF CallOk, Phases
<1>3. call' \in [Calls -> Call] /\ NamesOk'
  BY <1>1, <1>2, ToTyped
<1>4. /\ file' \in [Skills -> Contents] /\ archive' \in [Skills -> [Times -> Contents]]
      /\ manifest' \in Records
  BY DEF Clear, Contents, Emptied, NoRecords, Records
<1> QED
  BY <1>3, <1>4 DEF Clear, store, FilesTypeOK

\* The snapshot is unpacked, or is not.
LEMMA UnpackTyped ==
  ASSUME FilesTypeOK, NamesOk, NEW o \in Calls, Unpack(o)
  PROVE  FilesTypeOK' /\ NamesOk'
<1> DEFINE kept == snaps[call[o].snap]
<1>1. /\ CallOk(o) /\ Phase(o) = "unpack" /\ UNCHANGED <<snaps, journal>> /\ call[o] \in Call
  BY DEF NamesOk, Unpack, store, FilesTypeOK
<1>2. kept \in Zipfile /\ call[o].skill \in Skills /\ call[o].snap # None
  BY <1>1 DEF CallOk, Call, FilesTypeOK
<1>3. CASE /\ file' = [s \in Skills |-> Over(kept.file[s], file[s])]
           /\ archive' = [s \in Skills |->
                            [t \in Times |-> Over(kept.archive[s][t], archive[s][t])]]
           /\ manifest' = kept.manifest
           /\ errors' = [errors EXCEPT ![call[o].skill] = 0]
           /\ To(o, "reload")
           /\ UNCHANGED apart
  <2>1. "reload" \in Phases
    BY DEF Phases
  <2>2. call' \in [Calls -> Call] /\ NamesOk'
    BY <1>1, <1>3, <2>1, ToTyped
  <2> HIDE DEF kept
  <2>3. /\ kept.file \in [Skills -> Contents] /\ kept.manifest \in Records
        /\ kept.archive \in [Skills -> [Times -> Contents]]
    BY <1>2 DEF Zipfile
  <2>4. file' \in [Skills -> Contents] /\ manifest' \in Records
    BY <1>3, <2>3 DEF Over, FilesTypeOK
  <2>5. archive' \in [Skills -> [Times -> Contents]]
    BY <1>3, <2>3 DEF Over, FilesTypeOK
  <2>6. errors' \in [Skills -> 0..Trip]
    BY <1>2, <1>3, FilesAssumption DEF FilesTypeOK
  <2> QED
    BY <1>3, <2>2, <2>4, <2>5, <2>6 DEF Unpack, store, FilesTypeOK
<1>4. CASE Becomes(o, Idle) /\ apart' = Skills /\ UNCHANGED <<dir, errors>>
  <2>1. call' \in [Calls -> Call] /\ NamesOk'
    BY <1>1, <1>4, EndTyped
  <2> QED
    BY <1>4, <2>1 DEF Unpack, dir, store, FilesTypeOK
<1> QED
  BY <1>3, <1>4 DEF Unpack

\* The handlers are read anew.
LEMMA ReloadTyped ==
  ASSUME FilesTypeOK, NamesOk, NEW o \in Calls, Reload(o)
  PROVE  FilesTypeOK' /\ NamesOk'
<1>1. call' \in [Calls -> Call] /\ NamesOk'
  BY EndTyped DEF Reload, store
<1>2. handler' \in [Skills -> (Codes \ Broken) \union {None}]
  BY LoadableType DEF Reload
<1>3. apart' \subseteq Skills
  <2>1. \A p \in Calls : Phase(p) # "idle" => call[p].skill \in Skills
    BY DEF NamesOk, CallOk
  <2> QED
    BY <2>1 DEF Reload
<1> QED
  BY <1>1, <1>2, <1>3 DEF Reload, dir, store, FilesTypeOK

\* The process starts again.
LEMMA RestartTyped ==
  ASSUME FilesTypeOK, NamesOk, Restart
  PROVE  FilesTypeOK' /\ NamesOk'
<1>1. Idle \in Call /\ Idle.phase = "idle" /\ Idle.snap = None
  BY DEF Idle, Attempt, Call, Phases
<1>2. call' \in [Calls -> Call] /\ \A o \in Calls : call'[o] = Idle
  BY <1>1 DEF Restart
<1>3. \A o \in Calls : CallOk(o)'
  BY <1>1, <1>2 DEF CallOk, Phase
<1>4. UNCHANGED <<snaps, journal>>
  BY DEF Restart, store
<1>5. NamesOk'
  BY <1>3, <1>4 DEF NamesOk
<1>6. manifest' \in Records
  BY ReadableType DEF Restart
<1>7. handler' \in [Skills -> (Codes \ Broken) \union {None}]
  BY LoadableType DEF Restart
<1>8. errors' \in [Skills -> 0..Trip] /\ started' \in Nat
  BY FilesAssumption DEF Restart, FilesTypeOK
<1> QED
  BY <1>2, <1>4, <1>5, <1>6, <1>7, <1>8 DEF Restart, store, FilesTypeOK

\* A second passes.
LEMMA SecondTyped ==
  ASSUME FilesTypeOK, NamesOk, Second
  PROVE  FilesTypeOK' /\ NamesOk'
<1>1. now' \in Times
  BY FilesAssumption DEF Second, FilesTypeOK, Times
<1> QED
  BY <1>1 DEF Second, dir, store, FilesTypeOK, NamesOk, CallOk, Phase

-----------------------------------------------------------------------------
(* What the registry serves                                                  *)

\* The other calls stay where they are.
OthersStay(o) ==
  \A p \in Calls \ {o} :
    /\ Phase(p)' = Phase(p)
    /\ Phase(p) # "idle" =>
         call'[p].skill = call[p].skill /\ (call'[p].alone => call[p].alone)

\* A step that is not about a skill.
SkillStays(o, s) ==
  /\ file'[s] = file[s] /\ handler'[s] = handler[s]
  /\ manifest'[s] = None <=> manifest[s] = None
  /\ s \in apart => s \in apart'
  /\ Phase(o)' \in {"unpack", "reload"} <=> Phase(o) \in {"unpack", "reload"}
  /\ At(o, s, {"install", "reinstall"})' <=> At(o, s, {"install", "reinstall"})
  /\ At(o, s, {"record", "writing"})' <=> At(o, s, {"record", "writing"})

\* Such a step keeps the skill's handler right.
LEMMA StaysOk ==
  ASSUME NEW o \in Calls, NEW s \in Skills, OthersStay(o), SkillStays(o, s), HandlersOk
  PROVE  (Unsettled(s) \/ HandlerOk(s))'
<1> DEFINE Same(p) == /\ At(p, s, {"install", "reinstall"})' <=> At(p, s, {"install", "reinstall"})
                      /\ At(p, s, {"record", "writing"})' <=> At(p, s, {"record", "writing"})
                      /\ Phase(p)' \in {"unpack", "reload"} <=> Phase(p) \in {"unpack", "reload"}
<1>1. \A p \in Calls : Same(p)
  <2>1. \A p \in Calls \ {o} : Same(p)
    BY DEF OthersStay, At, Phase
  <2>2. Same(o)
    BY DEF SkillStays
  <2> QED
    BY <2>1, <2>2
<1>2. CASE Unsettled(s)
  <2>1. s \in apart => s \in apart'
    BY DEF SkillStays
  <2> QED
    BY <1>1, <1>2, <2>1 DEF Unsettled
<1>3. CASE HandlerOk(s)
  <2>1. /\ file'[s] = file[s] /\ handler'[s] = handler[s]
        /\ manifest'[s] = None <=> manifest[s] = None
    BY DEF SkillStays
  <2>2. Imports(file[s])' <=> Imports(file[s])
    BY <2>1 DEF Imports
  <2>3. Loadable(manifest)[s]' = Loadable(manifest)[s]
    BY <2>1, <2>2 DEF Loadable
  <2>4. (\E p \in Calls : At(p, s, {"record", "writing"}))'
        <=> \E p \in Calls : At(p, s, {"record", "writing"})
    BY <1>1
  <2>5. HandlerOk(s)'
    BY <1>3, <2>1, <2>2, <2>3, <2>4 DEF HandlerOk
  <2> QED
    BY <2>5
<1> QED
  BY <1>2, <1>3 DEF HandlersOk

\* The parts of a call before it touches its file, or after it gave up.
Outside == {"idle", "snapshot", "archive", "write", "restore", "clear"}

\* A step between such parts.
LEMMA OutsideOk ==
  ASSUME NEW o \in Calls, OthersStay(o), UNCHANGED <<file, manifest, handler>>,
         apart \subseteq apart', Phase(o) \in Outside, Phase(o)' \in Outside, HandlersOk
  PROVE  HandlersOk'
<1>1. \A s \in Skills : SkillStays(o, s)
  BY DEF SkillStays, Outside, At, Phase
<1>2. \A s \in Skills : (Unsettled(s) \/ HandlerOk(s))'
  BY <1>1, StaysOk
<1> QED
  BY <1>2 DEF HandlersOk

\* After a step that separates every skill there is nothing to serve right.
LEMMA AllUnsettled ==
  ASSUME \A s \in Skills : Unsettled(s)'
  PROVE  HandlersOk'
BY DEF HandlersOk

\* What becomes of a call that raises.
LEMMA RaisedPhase ==
  ASSUME FilesTypeOK, NamesOk, UNCHANGED snaps, NEW o \in Calls, Raises(o),
         Phase(o) \in {"archive", "install", "restore", "reinstall"}
  PROVE  /\ Phase(o)' \in {"idle", "snapshot", "restore"} /\ OthersStay(o)
         /\ Phase(o)' # "idle" => call'[o].alone = call[o].alone
<1>1. /\ call'[o] = Raised(o) /\ \A p \in Calls \ {o} : call'[p] = call[p]
  BY RaisesOk
<1>2. OthersStay(o)
  BY <1>1 DEF OthersStay, Phase
<1>3. CASE call[o].tries = 1
  <2>1. /\ call'[o].phase = IF call[o].kind = "add" THEN "snapshot" ELSE "restore"
        /\ call'[o].alone = call[o].alone
    BY <1>1, <1>3 DEF Raised, Attempt
  <2> QED
    BY <1>2, <2>1 DEF Phase
<1>4. CASE call[o].tries # 1
  <2>1. call'[o].phase = "idle"
    BY <1>1, <1>4 DEF Raised, Idle, Attempt
  <2> QED
    BY <1>2, <2>1 DEF Phase
<1> QED
  BY <1>3, <1>4

\* What becomes of a call that goes on.
LEMMA BecomesPhase ==
  ASSUME FilesTypeOK, NEW o \in Calls, NEW c, Becomes(o, c)
  PROVE  /\ OthersStay(o) /\ call'[o] = c /\ Phase(o)' = c.phase
         /\ \A p \in Calls \ {o} : call'[p] = call[p]
<1>1. /\ call'[o] = c /\ \A p \in Calls \ {o} : call'[p] = call[p]
  BY DEF Becomes, FilesTypeOK
<1> QED
  BY <1>1 DEF OthersStay, Phase

\* The same for a call of which the phase alone changes.
LEMMA ToPhase ==
  ASSUME FilesTypeOK, NEW o \in Calls, NEW ph, To(o, ph)
  PROVE  /\ OthersStay(o) /\ Phase(o)' = ph
         /\ call'[o].skill = call[o].skill /\ call'[o].alone = call[o].alone
         /\ \A p \in Calls \ {o} : call'[p] = call[p]
<1> DEFINE c == call[o]
           d == [c EXCEPT !.phase = ph]
<1>1. c \in Call /\ Becomes(o, d)
  BY DEF FilesTypeOK, To
<1> HIDE DEF c
<1>2. d.phase = ph /\ d.skill = c.skill /\ d.alone = c.alone
  BY <1>1 DEF Call
<1> HIDE DEF d
<1> QED
  BY <1>1, <1>2, BecomesPhase DEF c

\* What becomes of a call that starts.
LEMMA BeginPhase ==
  ASSUME FilesTypeOK, NEW o \in Calls, NEW first \in Call, Begin(o, first)
  PROVE  /\ OthersStay(o) /\ Phase(o)' = first.phase
         /\ call'[o].alone = (\A q \in Calls \ {o} : Phase(q) = "idle")
         /\ \A p \in Calls \ {o} : Phase(p) # "idle" => call'[p].alone = FALSE
<1>1. /\ call'[o] = [first EXCEPT !.alone = \A q \in Calls \ {o} : Phase(q) = "idle"]
      /\ \A p \in Calls \ {o} :
           call'[p] = IF Phase(p) = "idle" THEN Idle ELSE [call[p] EXCEPT !.alone = FALSE]
  BY BeginType
<1>2. /\ call'[o].phase = first.phase
      /\ call'[o].alone = (\A q \in Calls \ {o} : Phase(q) = "idle")
  BY <1>1 DEF Call
<1>3. \A p \in Calls \ {o} :
        /\ Phase(p) = "idle" => call'[p].phase = "idle"
        /\ Phase(p) # "idle" => /\ call'[p].phase = call[p].phase /\ call'[p].alone = FALSE
                                /\ call'[p].skill = call[p].skill
  <2> SUFFICES ASSUME NEW p \in Calls \ {o}
               PROVE  /\ Phase(p) = "idle" => call'[p].phase = "idle"
                      /\ Phase(p) # "idle" =>
                           /\ call'[p].phase = call[p].phase /\ call'[p].alone = FALSE
                           /\ call'[p].skill = call[p].skill
    OBVIOUS
  <2>1. CASE Phase(p) = "idle"
    <3>1. call'[p] = Idle
      BY <1>1, <2>1
    <3>2. Idle.phase = "idle"
      BY DEF Idle, Attempt
    <3> QED
      BY <2>1, <3>1, <3>2
  <2>2. CASE Phase(p) # "idle"
    <3>1. call[p] \in Call /\ call'[p] = [call[p] EXCEPT !.alone = FALSE]
      BY <1>1, <2>2 DEF FilesTypeOK
    <3> QED
      BY <2>2, <3>1 DEF Call
  <2> QED
    BY <2>1, <2>2
<1>4. OthersStay(o)
  BY <1>3 DEF OthersStay, Phase
<1> QED
  BY <1>2, <1>3, <1>4 DEF Phase

\* A deployment, a rollback or a failure starts.
LEMMA BeginHandlers ==
  ASSUME FilesTypeOK, HandlersOk, NEW o \in Calls, NEW first \in Call, Begin(o, first),
         Phase(o) = "idle", first.phase \in Outside,
         UNCHANGED <<file, manifest, handler, apart>>
  PROVE  HandlersOk'
<1>1. OthersStay(o) /\ Phase(o)' = first.phase
  BY BeginPhase
<1> QED
  BY <1>1, OutsideOk DEF Outside

\* A deployment that starts touches no skill.
LEMMA AddHandlers ==
  ASSUME FilesInv, NEW o \in Calls, NEW s \in Skills, NEW c \in Codes, Add(o, s, c)
  PROVE  HandlersOk'
<1> DEFINE first == Attempt("snapshot", "add", s, c, 1)
<1>1. first \in Call /\ first.phase \in Outside
  BY DEF Attempt, Call, Phases, Outside
<1>2. Begin(o, first) /\ Phase(o) = "idle" /\ UNCHANGED <<file, manifest, handler, apart>>
  BY DEF Add, dir
<1> HIDE DEF first
<1> QED
  BY <1>1, <1>2, BeginHandlers DEF FilesInv

\* Nor does a rollback that starts.
LEMMA RollbackHandlers ==
  ASSUME FilesInv, NEW o \in Calls, NEW s \in Skills, NEW v \in Times \union {Latest},
         Rollback(o, s, v)
  PROVE  HandlersOk'
<1> DEFINE first == Attempt("restore", "rollback", s, v, 1)
<1>1. first \in Call /\ first.phase \in Outside
  BY DEF Attempt, Call, Phases, Outside
<1>2. Begin(o, first) /\ Phase(o) = "idle" /\ UNCHANGED <<file, manifest, handler, apart>>
  BY DEF Rollback, dir
<1> HIDE DEF first
<1> QED
  BY <1>1, <1>2, BeginHandlers DEF FilesInv

\* What a failure may start.
LEMMA GuardCall ==
  ASSUME FilesTypeOK, NamesOk, NEW s \in Skills, Target(s) # None
  PROVE  LET first == [Attempt("clear", "guard", s, None, 0) EXCEPT !.snap = Target(s)]
         IN first \in Call /\ first.phase = "clear"
<1>1. Target(s) \in Times
  BY TargetIsThere
<1>2. Attempt("clear", "guard", s, None, 0) \in Call
  BY DEF Attempt, Call, Phases
<1>3. Attempt("clear", "guard", s, None, 0).phase = "clear"
  BY DEF Attempt
<1> QED
  BY <1>1, <1>2, <1>3 DEF Call

\* Nor does a failure, whether or not the guard acts on it.
LEMMA FailHandlers ==
  ASSUME FilesInv, NEW o \in Calls, NEW s \in Skills, Fail(o, s)
  PROVE  HandlersOk'
<1> DEFINE first == [Attempt("clear", "guard", s, None, 0) EXCEPT !.snap = Target(s)]
<1>1. Phase(o) = "idle" /\ UNCHANGED <<file, manifest, handler, apart>>
  BY DEF Fail, dir
<1>2. (Target(s) # None /\ Begin(o, first)) \/ UNCHANGED call
  BY DEF Fail
<1>3. CASE Target(s) # None /\ Begin(o, first)
  <2>1. first \in Call /\ first.phase \in Outside
    BY <1>3, GuardCall DEF FilesInv, Outside
  <2> HIDE DEF first
  <2> QED
    BY <1>1, <1>3, <2>1, BeginHandlers DEF FilesInv
<1>4. CASE UNCHANGED call
  <2>1. OthersStay(o) /\ Phase(o)' = Phase(o) /\ Phase(o) \in Outside
    BY <1>1, <1>4 DEF OthersStay, Phase, Outside
  <2> QED
    BY <1>1, <2>1, OutsideOk DEF FilesInv
<1> QED
  BY <1>2, <1>3, <1>4

\* Nor does a snapshot.
LEMMA SnapshotHandlers ==
  ASSUME FilesInv, NEW o \in Calls, Snapshot(o)
  PROVE  HandlersOk'
<1>1. PICK sn \in {now, None}, ph \in {"archive", "write"} :
        Becomes(o, [call[o] EXCEPT !.snap = sn, !.phase = ph])
  BY DEF Snapshot
<1> DEFINE c == call[o]
           d == [c EXCEPT !.snap = sn, !.phase = ph]
<1>2. c \in Call /\ Becomes(o, d)
  BY <1>1 DEF FilesInv, FilesTypeOK
<1> HIDE DEF c
<1>3. d.phase = ph
  BY <1>2 DEF Call
<1> HIDE DEF d
<1>4. OthersStay(o) /\ Phase(o)' = ph
  BY <1>2, <1>3, BecomesPhase DEF FilesInv
<1> QED
  BY <1>4, OutsideOk DEF Snapshot, dir, FilesInv, Outside

\* What becomes of a deployment that archives.
LEMMA ArchivePart ==
  ASSUME FilesTypeOK, NamesOk, NEW o \in Calls, Archive(o)
  PROVE  /\ OthersStay(o) /\ Phase(o)' \in {"write", "idle", "snapshot", "restore"}
         /\ Phase(o)' # "idle" => call'[o].alone = call[o].alone
         /\ Phase(o)' = "write" =>
              /\ archive' = [archive EXCEPT ![call[o].skill][now] = file[call[o].skill]]
              /\ call'[o].skill = call[o].skill
<1>1. Phase(o) = "archive" /\ UNCHANGED snaps
  BY DEF Archive, store
<1>2. CASE file[call[o].skill] # None
  <2> DEFINE c == call[o]
             d == [c EXCEPT !.old = now, !.phase = "write"]
  <2>1. c \in Call /\ Becomes(o, d)
    BY <1>2 DEF Archive, FilesTypeOK
  <2>2. archive' = [archive EXCEPT ![c.skill][now] = file[c.skill]]
    BY <1>2 DEF Archive
  <2> HIDE DEF c
  <2>3. d.phase = "write" /\ d.alone = c.alone /\ d.skill = c.skill
    BY <2>1 DEF Call
  <2> HIDE DEF d
  <2> QED
    BY <2>1, <2>2, <2>3, BecomesPhase DEF c
<1>3. CASE ~(file[call[o].skill] # None)
  <2>1. Raises(o)
    BY <1>3 DEF Archive
  <2> QED
    BY <1>1, <2>1, RaisedPhase
<1> QED
  BY <1>2, <1>3

\* Archiving touches no skill that is served.
LEMMA ArchiveHandlers ==
  ASSUME FilesInv, NEW o \in Calls, Archive(o)
  PROVE  HandlersOk'
<1>1. OthersStay(o) /\ Phase(o)' \in Outside
  BY ArchivePart DEF FilesInv, Outside
<1> QED
  BY <1>1, OutsideOk DEF Archive, FilesInv, Outside

\* What is not about a skill when a call is about another.
LEMMA OtherSkillOk ==
  ASSUME HandlersOk, NEW o \in Calls, OthersStay(o), NEW s \in Skills, call[o].skill # s,
         Phase(o)' # "idle" => call'[o].skill # s,
         file'[s] = file[s], handler'[s] = handler[s], manifest'[s] = None <=> manifest[s] = None,
         s \in apart => s \in apart', 
         ~(Phase(o) \in {"unpack", "reload"}), ~(Phase(o)' \in {"unpack", "reload"})
  PROVE  (Unsettled(s) \/ HandlerOk(s))'
<1>1. SkillStays(o, s)
  BY DEF SkillStays, At, Phase
<1> QED
  BY <1>1, StaysOk

\* A file that is written separates its skill until it is imported.
LEMMA WriteFileHandlers ==
  ASSUME FilesInv, NEW o \in Calls, WriteFile(o)
  PROVE  HandlersOk'
<1>1. /\ OthersStay(o) /\ Phase(o)' = "install" /\ call'[o].skill = call[o].skill
  BY ToPhase DEF WriteFile, FilesInv
<1>2. /\ Phase(o) = "write" /\ UNCHANGED <<handler, manifest, apart>>
      /\ file' = [file EXCEPT ![call[o].skill] = call[o].code]
  BY DEF WriteFile
<1>3. \A s \in Skills : call[o].skill = s => Unsettled(s)'
  BY <1>1 DEF Unsettled, At, Phase
<1>4. \A s \in Skills : call[o].skill # s => (Unsettled(s) \/ HandlerOk(s))'
  <2>1. \A s \in Skills : call[o].skill # s => file'[s] = file[s]
    BY <1>2 DEF FilesInv, FilesTypeOK
  <2> QED
    BY <1>1, <1>2, <2>1, OtherSkillOk DEF FilesInv
<1> QED
  BY <1>3, <1>4 DEF HandlersOk

\* An import, of a file that was written or put back.
LEMMA RegisterHandlers ==
  ASSUME FilesTypeOK, NamesOk, HandlersOk, NEW o \in Calls, NEW s \in Skills,
         s = call[o].skill, Phase(o) \in {"install", "reinstall"}, Register(o, s),
         UNCHANGED <<file, manifest, snaps>>, NEW ph \in {"record", "writing"},
         IF Imports(file[s]) THEN To(o, ph) ELSE Raises(o)
  PROVE  HandlersOk'
<1>1. CASE Imports(file[s])
  <2>1. OthersStay(o) /\ Phase(o)' = ph /\ call'[o].skill = call[o].skill
    BY <1>1, ToPhase
  <2>2. handler' = [handler EXCEPT ![s] = file[s]] /\ apart' = apart \ {s}
    BY <1>1 DEF Register
  <2>3. HandlerOk(s)'
    <3>1. At(o, s, {"record", "writing"})'
      BY <2>1 DEF At, Phase
    <3>2. Imports(file[s])'
      BY <1>1 DEF Imports
    <3>3. handler'[s] = file'[s]
      BY <2>2 DEF FilesTypeOK
    <3> QED
      BY <3>1, <3>2, <3>3 DEF HandlerOk
  <2>4. \A t \in Skills \ {s} : (Unsettled(t) \/ HandlerOk(t))'
    <3>1. \A t \in Skills \ {s} : handler'[t] = handler[t] /\ (t \in apart => t \in apart')
      BY <2>2 DEF FilesTypeOK
    <3> QED
      BY <2>1, <3>1, OtherSkillOk
  <2> QED
    BY <2>3, <2>4 DEF HandlersOk
<1>2. CASE ~Imports(file[s])
  <2>1. OthersStay(o) /\ Phase(o)' \in {"idle", "snapshot", "restore"}
    BY <1>2, RaisedPhase
  <2>2. handler' = handler /\ apart' = apart \union {s}
    BY <1>2 DEF Register
  <2>3. Unsettled(s)'
    BY <2>2 DEF Unsettled
  <2>4. \A t \in Skills \ {s} : (Unsettled(t) \/ HandlerOk(t))'
    <3>1. \A t \in Skills \ {s} : SkillStays(o, t)
      BY <2>1, <2>2 DEF SkillStays, At, Phase
    <3> QED
      BY <2>1, <3>1, StaysOk
  <2> QED
    BY <2>3, <2>4 DEF HandlersOk
<1> QED
  BY <1>1, <1>2

\* The import of a deployment.
LEMMA InstallHandlers ==
  ASSUME FilesInv, NEW o \in Calls, Install(o)
  PROVE  HandlersOk'
<1>1. Phase(o) = "install" /\ call[o].skill \in Skills
  BY DEF Install, FilesInv, NamesOk, CallOk
<1>2. /\ Register(o, call[o].skill) /\ UNCHANGED <<file, manifest, snaps>>
      /\ IF Imports(file[call[o].skill]) THEN To(o, "record") ELSE Raises(o)
  BY DEF Install, dir
<1> QED
  BY <1>1, <1>2, RegisterHandlers DEF FilesInv

\* The import of a rollback.
LEMMA ReinstallHandlers ==
  ASSUME FilesInv, NEW o \in Calls, Reinstall(o)
  PROVE  HandlersOk'
<1>1. Phase(o) = "reinstall" /\ call[o].skill \in Skills
  BY DEF Reinstall, FilesInv, NamesOk, CallOk
<1>2. /\ Register(o, call[o].skill) /\ UNCHANGED <<file, manifest, snaps>>
      /\ IF Imports(file[call[o].skill]) THEN To(o, "writing") ELSE Raises(o)
  BY DEF Reinstall, dir, store
<1> QED
  BY <1>1, <1>2, RegisterHandlers DEF FilesInv

\* What becomes of a deployment that reads the manifest.
LEMMA RecordPart ==
  ASSUME FilesTypeOK, NEW o \in Calls, Record(o)
  PROVE  /\ OthersStay(o) /\ Phase(o)' = "writing" /\ call'[o].skill = call[o].skill
         /\ call'[o].alone = call[o].alone
<1>1. PICK r : Becomes(o, [call[o] EXCEPT !.phase = "writing", !.copy = r])
  BY DEF Record
<1> DEFINE c == call[o]
           d == [c EXCEPT !.phase = "writing", !.copy = r]
<1>2. c \in Call /\ Becomes(o, d)
  BY <1>1 DEF FilesTypeOK
<1> HIDE DEF c
<1>3. d.phase = "writing" /\ d.skill = c.skill /\ d.alone = c.alone
  BY <1>2 DEF Call
<1> HIDE DEF d
<1> QED
  BY <1>2, <1>3, BecomesPhase DEF c

\* Reading the manifest touches no skill.
LEMMA RecordHandlers ==
  ASSUME FilesInv, NEW o \in Calls, Record(o)
  PROVE  HandlersOk'
<1>1. OthersStay(o) /\ Phase(o)' = "writing" /\ call'[o].skill = call[o].skill
  BY RecordPart DEF FilesInv
<1>2. Phase(o) = "record" /\ UNCHANGED <<file, manifest, handler, apart>>
  BY DEF Record, dir
<1>3. \A s \in Skills : SkillStays(o, s)
  BY <1>1, <1>2 DEF SkillStays, At, Phase
<1>4. \A s \in Skills : (Unsettled(s) \/ HandlerOk(s))'
  BY <1>1, <1>3, StaysOk DEF FilesInv
<1> QED
  BY <1>4 DEF HandlersOk

\* The manifest names what the registry has from the file already, and the
\* records that a stale copy drops are separated.
LEMMA WriteManifestHandlers ==
  ASSUME FilesInv, NEW o \in Calls, WriteManifest(o)
  PROVE  HandlersOk'
<1> DEFINE s == call[o].skill
           Busy(t) == \E p \in Calls : At(p, t, {"record", "writing"})
<1>1. /\ s \in Skills /\ Phase(o) = "writing" /\ call[o].copy \in Records
      /\ call[o].copy[s] # None
  BY DEF WriteManifest, FilesInv, NamesOk, CallOk
<1>2. /\ manifest' = call[o].copy /\ apart' = apart \union Forgotten(o)
      /\ UNCHANGED <<file, handler>>
  BY DEF WriteManifest
<1>3. OthersStay(o) /\ Phase(o)' = "idle"
  <2>1. OthersStay(o) /\ Phase(o)' = Idle.phase
    BY BecomesPhase DEF WriteManifest, FilesInv
  <2> QED
    BY <2>1 DEF Idle, Attempt
<1> SUFFICES ASSUME NEW t \in Skills PROVE (Unsettled(t) \/ HandlerOk(t))'
  BY DEF HandlersOk
<1>4. \A p \in Calls \ {o} :
        /\ At(p, t, {"install", "reinstall"}) => At(p, t, {"install", "reinstall"})'
        /\ At(p, t, {"record", "writing"})' <=> At(p, t, {"record", "writing"})
        /\ Phase(p) \in {"unpack", "reload"} => Phase(p)' \in {"unpack", "reload"}
  BY <1>3 DEF OthersStay, At, Phase
<1>5. CASE Unsettled(t)
  BY <1>1, <1>2, <1>4, <1>5 DEF Unsettled, At
<1>6. CASE HandlerOk(t)
  <2>1. Imports(file[t])' <=> Imports(file[t])
    BY <1>2 DEF Imports
  <2>2. CASE Busy(t)'
    <3>1. Busy(t)
      BY <1>3, <1>4, <2>2 DEF At
    <3>2. Imports(file[t]) /\ handler[t] = file[t]
      BY <1>6, <3>1 DEF HandlerOk
    <3>3. Imports(file[t])' /\ handler'[t] = file'[t]
      BY <1>2, <2>1, <3>2
    <3>4. HandlerOk(t)'
      BY <2>2, <3>3 DEF HandlerOk
    <3> QED
      BY <3>4
  <2>3. CASE ~Busy(t)'
    <3>1. CASE t = s
      <4>1. Busy(t)
        BY <1>1, <3>1 DEF At
      <4>2. Imports(file[t]) /\ handler[t] = file[t]
        BY <1>6, <4>1 DEF HandlerOk
      <4>3. Loadable(manifest)[t]' = file[t]
        BY <1>1, <1>2, <2>1, <3>1, <4>2 DEF Loadable
      <4>4. handler'[t] = Loadable(manifest)[t]'
        BY <1>2, <4>2, <4>3
      <4>5. HandlerOk(t)'
        BY <2>3, <4>4 DEF HandlerOk
      <4> QED
        BY <4>5
    <3>2. CASE t # s /\ manifest[t] # call[o].copy[t]
      BY <1>2, <3>2 DEF Forgotten, Unsettled
    <3>3. CASE t # s /\ manifest[t] = call[o].copy[t]
      <4>1. ~Busy(t)
        BY <1>4, <2>3, <3>3 DEF At
      <4>2. handler[t] = Loadable(manifest)[t]
        BY <1>6, <4>1 DEF HandlerOk
      <4>3. Loadable(manifest)[t]' = Loadable(manifest)[t]
        BY <1>2, <2>1, <3>3 DEF Loadable
      <4>4. HandlerOk(t)'
        BY <1>2, <2>3, <4>2, <4>3 DEF HandlerOk
      <4> QED
        BY <4>4
    <3> QED
      BY <3>1, <3>2, <3>3
  <2> QED
    BY <2>2, <2>3
<1> QED
  BY <1>5, <1>6 DEF FilesInv, HandlersOk

\* What becomes of a rollback that puts a file back.
LEMMA RestorePart ==
  ASSUME FilesTypeOK, NamesOk, NEW o \in Calls, Restore(o)
  PROVE  /\ OthersStay(o)
         /\ Phase(o)' # "idle" => call'[o].alone = call[o].alone
         /\ \/ Phase(o)' \in {"idle", "snapshot", "restore"} /\ UNCHANGED file
            \/ /\ Phase(o)' = "reinstall" /\ call'[o].skill = call[o].skill
               /\ \E c \in Contents : file' = [file EXCEPT ![call[o].skill] = c]
<1> DEFINE c == call[o]
<1>1. /\ Phase(o) = "restore" /\ UNCHANGED snaps
  BY DEF Restore, store
<1>2. CASE Raises(o) /\ UNCHANGED file
  BY <1>1, <1>2, RaisedPhase
<1>3. CASE \E r : Becomes(o, [c EXCEPT !.phase = "reinstall", !.copy = r])
  <2>1. PICK r : Becomes(o, [c EXCEPT !.phase = "reinstall", !.copy = r])
    BY <1>3
  <2> DEFINE d == [c EXCEPT !.phase = "reinstall", !.copy = r]
  <2>2. c \in Call /\ Becomes(o, d)
    BY <2>1 DEF FilesTypeOK
  <2>3. d.phase = "reinstall" /\ d.skill = c.skill /\ d.alone = c.alone
    <3> HIDE DEF c
    <3> QED
      BY <2>2 DEF Call
  <2> HIDE DEF d
  <2>4. /\ OthersStay(o) /\ Phase(o)' = "reinstall"
        /\ call'[o].skill = c.skill /\ call'[o].alone = c.alone
    BY <2>2, <2>3, BecomesPhase
  <2>5. file' \in [Skills -> Contents] /\ c.skill \in Skills
    BY <1>1, RestoreTyped DEF FilesTypeOK, NamesOk, CallOk
  <2>6. \E x \in Contents : file' = [file EXCEPT ![c.skill] = x]
    <3>1. \/ UNCHANGED file
          \/ \E x : file' = [file EXCEPT ![c.skill] = x]
      BY DEF Restore
    <3>2. CASE UNCHANGED file
      <4>1. file[c.skill] \in Contents /\ file' = [file EXCEPT ![c.skill] = file[c.skill]]
        BY <2>5, <3>2 DEF FilesTypeOK
      <4> QED
        BY <4>1
    <3>3. CASE \E x : file' = [file EXCEPT ![c.skill] = x]
      <4>1. PICK x : file' = [file EXCEPT ![c.skill] = x]
        BY <3>3
      <4>2. x = file'[c.skill]
        BY <2>5, <4>1 DEF FilesTypeOK
      <4> QED
        BY <2>5, <4>1, <4>2
    <3> QED
      BY <3>1, <3>2, <3>3
  <2> QED
    BY <2>4, <2>6
<1> QED
  BY <1>2, <1>3 DEF Restore

\* A file that is put back separates its skill until it is imported.
LEMMA RestoreHandlers ==
  ASSUME FilesInv, NEW o \in Calls, Restore(o)
  PROVE  HandlersOk'
<1>1. Phase(o) = "restore" /\ UNCHANGED <<manifest, handler, apart>> /\ OthersStay(o)
  <2>1. FilesTypeOK /\ NamesOk
    BY DEF FilesInv
  <2>2. OthersStay(o)
    BY <2>1, RestorePart
  <2> QED
    BY <2>2 DEF Restore
<1>2. CASE Phase(o)' \in {"idle", "snapshot", "restore"} /\ UNCHANGED file
  BY <1>1, <1>2, OutsideOk DEF FilesInv, Outside
<1>3. CASE /\ Phase(o)' = "reinstall" /\ call'[o].skill = call[o].skill
           /\ \E c \in Contents : file' = [file EXCEPT ![call[o].skill] = c]
  <2>1. \A s \in Skills : call[o].skill = s => Unsettled(s)'
    BY <1>3 DEF Unsettled, At, Phase
  <2>2. \A s \in Skills : call[o].skill # s => file'[s] = file[s]
    BY <1>3 DEF FilesInv, FilesTypeOK
  <2>3. \A s \in Skills : call[o].skill # s => (Unsettled(s) \/ HandlerOk(s))'
    BY <1>1, <1>3, <2>2, OtherSkillOk DEF FilesInv
  <2> QED
    BY <2>1, <2>3 DEF HandlersOk
<1> QED
  BY <1>2, <1>3, RestorePart DEF FilesInv

\* The emptied directory separates every skill until it is filled and read.
LEMMA ClearHandlers ==
  ASSUME FilesInv, NEW o \in Calls, Clear(o)
  PROVE  HandlersOk'
<1>1. Phase(o)' = "unpack"
  BY ToPhase DEF Clear, FilesInv
<1> QED
  BY <1>1, AllUnsettled DEF Unsettled

\* So does the unpacked one, until it is read.
LEMMA UnpackHandlers ==
  ASSUME FilesInv, NEW o \in Calls, Unpack(o)
  PROVE  HandlersOk'
<1>1. CASE To(o, "reload")
  <2>1. Phase(o)' = "reload"
    BY <1>1, ToPhase DEF FilesInv
  <2> QED
    BY <2>1, AllUnsettled DEF Unsettled
<1>2. CASE apart' = Skills
  BY <1>2, AllUnsettled DEF Unsettled
<1> QED
  BY <1>1, <1>2 DEF Unpack

\* What was read anew is what the manifest serves, but for skills that are
\* between their file and their record.
LEMMA ReloadHandlers ==
  ASSUME FilesInv, NEW o \in Calls, Reload(o)
  PROVE  HandlersOk'
<1>1. OthersStay(o) /\ Phase(o)' = "idle"
  <2>1. OthersStay(o) /\ Phase(o)' = Idle.phase
    BY BecomesPhase DEF Reload, FilesInv
  <2> QED
    BY <2>1 DEF Idle, Attempt
<1>2. CASE Torn
  <2>1. Skills \subseteq apart'
    BY <1>2 DEF Reload
  <2> QED
    BY <2>1, AllUnsettled DEF Unsettled
<1>3. CASE ~Torn
  <2>1. handler' = Loadable(manifest) /\ UNCHANGED <<file, manifest>>
    BY <1>3, ReadableType DEF Reload, dir, FilesInv
  <2>2. Loadable(manifest)' = Loadable(manifest)
    BY <2>1 DEF Loadable, Imports
  <2> SUFFICES ASSUME NEW t \in Skills, ~(t \in apart') PROVE HandlerOk(t)'
    BY DEF HandlersOk, Unsettled
  <2>3. \A p \in Calls \ {o} : ~At(p, t, {"record"})
    BY DEF Reload, At
  <2>4. \A p \in Calls \ {o} : ~At(p, t, {"record", "writing"})
    BY <1>3, <2>3 DEF Torn, At
  <2>5. \A p \in Calls \ {o} : ~At(p, t, {"record", "writing"})'
    BY <1>1, <2>4 DEF OthersStay, At, Phase
  <2>6. ~At(o, t, {"record", "writing"})'
    BY <1>1 DEF At, Phase
  <2>7. ~(\E p \in Calls : At(p, t, {"record", "writing"}))'
    BY <2>5, <2>6
  <2> QED
    BY <2>1, <2>2, <2>7 DEF HandlerOk
<1> QED
  BY <1>2, <1>3

\* A restart reads everything.
LEMMA RestartHandlers ==
  ASSUME FilesInv, Restart
  PROVE  HandlersOk'
<1>1. \A o \in Calls : Phase(o)' = "idle"
  BY DEF Restart, Phase, Idle, Attempt
<1>2. handler' = Loadable(manifest')
  BY DEF Restart
<1>3. Loadable(manifest)' = Loadable(manifest')
  BY DEF Restart, Loadable, Imports
<1>4. \A s \in Skills : ~(\E p \in Calls : At(p, s, {"record", "writing"}))'
  BY <1>1 DEF At, Phase
<1>5. \A s \in Skills : HandlerOk(s)'
  BY <1>2, <1>3, <1>4 DEF HandlerOk
<1> QED
  BY <1>5 DEF HandlersOk

\* A step of neither files nor handlers.
LEMMA StutterHandlers ==
  ASSUME FilesInv, UNCHANGED <<file, manifest, handler, call, apart>>
  PROVE  HandlersOk'
BY DEF FilesInv, HandlersOk, HandlerOk, Unsettled, At, Phase, Loadable, Imports

-----------------------------------------------------------------------------
(* A deployment that is alone                                                *)

\* A call that starts knows whether others run, and they know of it.
LEMMA BeginAlone ==
  ASSUME FilesTypeOK, NEW o \in Calls, NEW first \in Call, Begin(o, first),
         Phase(o) = "idle", first.phase # "write"
  PROVE  AloneOk'
<1>1. /\ OthersStay(o) /\ Phase(o)' = first.phase
      /\ call'[o].alone = (\A q \in Calls \ {o} : Phase(q) = "idle")
      /\ \A p \in Calls \ {o} : Phase(p) # "idle" => call'[p].alone = FALSE
  BY BeginPhase
<1> SUFFICES ASSUME NEW p \in Calls, Phase(p)' # "idle", call'[p].alone
             PROVE  /\ \A q \in Calls \ {p} : Phase(q)' = "idle"
                    /\ Phase(p)' # "write"
  BY DEF AloneOk, Phase
<1>2. p = o
  BY <1>1 DEF OthersStay
<1>3. \A q \in Calls \ {o} : Phase(q)' = "idle"
  BY <1>1, <1>2 DEF OthersStay
<1> QED
  BY <1>1, <1>2, <1>3

\* A part of a call that is alone is followed by another of its parts.
LEMMA PartAlone ==
  ASSUME FilesTypeOK, AloneOk, NEW o \in Calls, Phase(o) # "idle", OthersStay(o),
         Phase(o)' # "idle" => call'[o].alone = call[o].alone,
         Phase(o)' = "write" /\ file'[call'[o].skill] # None =>
           \E t \in Times : archive'[call'[o].skill][t] = file'[call'[o].skill]
  PROVE  AloneOk'
<1> SUFFICES ASSUME NEW p \in Calls, Phase(p)' # "idle", call'[p].alone
             PROVE  /\ \A q \in Calls \ {p} : Phase(q)' = "idle"
                    /\ Phase(p)' = "write" /\ file'[call'[p].skill] # None =>
                         \E t \in Times : archive'[call'[p].skill][t] = file'[call'[p].skill]
  BY DEF AloneOk, Phase
<1>1. p = o
  <2> SUFFICES ASSUME p # o PROVE FALSE
    OBVIOUS
  <2>1. Phase(p) # "idle" /\ call[p].alone
    BY DEF OthersStay
  <2> QED
    BY <2>1 DEF AloneOk
<1>2. call[o].alone
  BY <1>1
<1>3. \A q \in Calls \ {o} : Phase(q) = "idle"
  BY <1>2 DEF AloneOk
<1> QED
  BY <1>1, <1>3 DEF OthersStay

\* A part of a call other than the two that lead to the writing of its file.
LEMMA ToAlone ==
  ASSUME FilesTypeOK, AloneOk, NEW o \in Calls, NEW ph, To(o, ph), Phase(o) # "idle",
         ph # "write"
  PROVE  AloneOk'
<1>1. OthersStay(o) /\ Phase(o)' = ph /\ call'[o].alone = call[o].alone
  BY ToPhase
<1> QED
  BY <1>1, PartAlone

\* A call that raises has not reached its file.
LEMMA RaisesAlone ==
  ASSUME FilesTypeOK, NamesOk, AloneOk, UNCHANGED snaps, NEW o \in Calls, Raises(o),
         Phase(o) \in {"archive", "install", "restore", "reinstall"}
  PROVE  AloneOk'
<1>1. /\ OthersStay(o) /\ Phase(o)' \in {"idle", "snapshot", "restore"}
      /\ Phase(o)' # "idle" => call'[o].alone = call[o].alone
  BY RaisedPhase
<1> QED
  BY <1>1, PartAlone

\* A call that ends.
LEMMA EndAlone ==
  ASSUME FilesTypeOK, AloneOk, NEW o \in Calls, Becomes(o, Idle), Phase(o) # "idle"
  PROVE  AloneOk'
<1>1. OthersStay(o) /\ Phase(o)' = Idle.phase
  BY BecomesPhase
<1>2. Phase(o)' = "idle"
  BY <1>1 DEF Idle, Attempt
<1> QED
  BY <1>1, <1>2, PartAlone

\* A deployment that starts.
LEMMA AddAlone ==
  ASSUME FilesInv, NEW o \in Calls, NEW s \in Skills, NEW c \in Codes, Add(o, s, c)
  PROVE  AloneOk'
<1> DEFINE first == Attempt("snapshot", "add", s, c, 1)
<1>1. first \in Call /\ first.phase # "write"
  BY DEF Attempt, Call, Phases
<1>2. Begin(o, first) /\ Phase(o) = "idle"
  BY DEF Add
<1> HIDE DEF first
<1> QED
  BY <1>1, <1>2, BeginAlone DEF FilesInv

\* A rollback that starts.
LEMMA RollbackAlone ==
  ASSUME FilesInv, NEW o \in Calls, NEW s \in Skills, NEW v \in Times \union {Latest},
         Rollback(o, s, v)
  PROVE  AloneOk'
<1> DEFINE first == Attempt("restore", "rollback", s, v, 1)
<1>1. first \in Call /\ first.phase # "write"
  BY DEF Attempt, Call, Phases
<1>2. Begin(o, first) /\ Phase(o) = "idle"
  BY DEF Rollback
<1> HIDE DEF first
<1> QED
  BY <1>1, <1>2, BeginAlone DEF FilesInv

\* A step of neither files nor calls.
LEMMA StutterAlone ==
  ASSUME AloneOk, UNCHANGED <<file, archive, call>>
  PROVE  AloneOk'
BY DEF AloneOk, Phase

\* A failure that may start a rollback.
LEMMA FailAlone ==
  ASSUME FilesInv, NEW o \in Calls, NEW s \in Skills, Fail(o, s)
  PROVE  AloneOk'
<1> DEFINE first == [Attempt("clear", "guard", s, None, 0) EXCEPT !.snap = Target(s)]
<1>1. Phase(o) = "idle" /\ UNCHANGED <<file, archive>>
  BY DEF Fail, dir
<1>2. (Target(s) # None /\ Begin(o, first)) \/ UNCHANGED call
  BY DEF Fail
<1>3. CASE Target(s) # None /\ Begin(o, first)
  <2>1. first \in Call /\ first.phase # "write"
    BY <1>3, GuardCall DEF FilesInv
  <2> HIDE DEF first
  <2> QED
    BY <1>1, <1>3, <2>1, BeginAlone DEF FilesInv
<1>4. CASE UNCHANGED call
  BY <1>1, <1>4, StutterAlone DEF FilesInv
<1> QED
  BY <1>2, <1>3, <1>4

\* Without a file there is nothing to archive.
LEMMA SnapshotAlone ==
  ASSUME FilesInv, NEW o \in Calls, Snapshot(o)
  PROVE  AloneOk'
<1> DEFINE c == call[o]
           ph == IF file[c.skill] # None THEN "archive" ELSE "write"
<1>1. PICK sn \in {now, None} : Becomes(o, [c EXCEPT !.snap = sn, !.phase = ph])
  BY DEF Snapshot
<1> DEFINE d == [c EXCEPT !.snap = sn, !.phase = ph]
<1>2. c \in Call /\ Becomes(o, d) /\ UNCHANGED <<file, archive>> /\ Phase(o) = "snapshot"
  BY <1>1 DEF FilesInv, FilesTypeOK, Snapshot, dir
<1>3. ph = "write" => file[c.skill] = None
  OBVIOUS
<1> HIDE DEF c, ph
<1>4. d.phase = ph /\ d.skill = c.skill /\ d.alone = c.alone
  BY <1>2 DEF Call
<1> HIDE DEF d
<1>5. /\ OthersStay(o) /\ Phase(o)' = ph /\ call'[o].skill = c.skill
      /\ call'[o].alone = c.alone
  BY <1>2, <1>4, BecomesPhase DEF FilesInv
<1> QED
  BY <1>2, <1>3, <1>5, PartAlone DEF FilesInv, c

\* What is overwritten has been archived.
LEMMA ArchiveAlone ==
  ASSUME FilesInv, NEW o \in Calls, Archive(o)
  PROVE  AloneOk'
<1> DEFINE s == call[o].skill
<1>1. /\ OthersStay(o) /\ Phase(o)' \in {"write", "idle", "snapshot", "restore"}
      /\ Phase(o)' # "idle" => call'[o].alone = call[o].alone
      /\ Phase(o)' = "write" => /\ archive' = [archive EXCEPT ![s][now] = file[s]]
                                /\ call'[o].skill = s
  BY ArchivePart DEF FilesInv
<1>2. Phase(o) = "archive" /\ UNCHANGED file /\ s \in Skills /\ now \in Times
      /\ archive \in [Skills -> [Times -> Contents]]
  BY DEF Archive, FilesInv, FilesTypeOK, NamesOk, CallOk
<1> HIDE DEF s
<1>3. Phase(o)' = "write" => archive'[s][now] = file[s]
  BY <1>1, <1>2
<1> QED
  BY <1>1, <1>2, <1>3, PartAlone DEF FilesInv

\* Reading the manifest.
LEMMA RecordAlone ==
  ASSUME FilesInv, NEW o \in Calls, Record(o)
  PROVE  AloneOk'
<1>1. OthersStay(o) /\ Phase(o)' = "writing" /\ call'[o].alone = call[o].alone
  BY RecordPart DEF FilesInv
<1> QED
  BY <1>1, PartAlone DEF FilesInv, Record

\* Putting a file back.
LEMMA RestoreAlone ==
  ASSUME FilesInv, NEW o \in Calls, Restore(o)
  PROVE  AloneOk'
<1>1. FilesTypeOK /\ NamesOk
  BY DEF FilesInv
<1>2. /\ OthersStay(o)
      /\ Phase(o)' # "idle" => call'[o].alone = call[o].alone
      /\ Phase(o)' \in {"idle", "snapshot", "restore", "reinstall"}
  BY <1>1, RestorePart
<1>3. Phase(o) = "restore"
  BY DEF Restore
<1> QED
  BY <1>2, <1>3, PartAlone DEF FilesInv

\* The other parts.
LEMMA OtherPartsAlone ==
  ASSUME FilesInv, NEW o \in Calls,
         WriteFile(o) \/ Install(o) \/ WriteManifest(o) \/ Reinstall(o) \/ Clear(o)
           \/ Unpack(o) \/ Reload(o)
  PROVE  AloneOk'
<1>0. FilesTypeOK /\ NamesOk /\ AloneOk
  BY DEF FilesInv
<1>1. CASE WriteFile(o)
  BY <1>0, <1>1, ToAlone DEF WriteFile
<1>2. CASE Install(o)
  <2>1. Phase(o) = "install" /\ UNCHANGED snaps /\ (To(o, "record") \/ Raises(o))
    BY <1>2 DEF Install
  <2> QED
    BY <1>0, <2>1, ToAlone, RaisesAlone
<1>3. CASE WriteManifest(o)
  BY <1>0, <1>3, EndAlone DEF WriteManifest
<1>4. CASE Reinstall(o)
  <2>1. Phase(o) = "reinstall" /\ UNCHANGED snaps /\ (To(o, "writing") \/ Raises(o))
    BY <1>4 DEF Reinstall, store
  <2> QED
    BY <1>0, <2>1, ToAlone, RaisesAlone
<1>5. CASE Clear(o)
  BY <1>0, <1>5, ToAlone DEF Clear
<1>6. CASE Unpack(o)
  BY <1>0, <1>6, ToAlone, EndAlone DEF Unpack
<1>7. CASE Reload(o)
  BY <1>0, <1>7, EndAlone DEF Reload
<1> QED
  BY <1>1, <1>2, <1>3, <1>4, <1>5, <1>6, <1>7

\* After a restart no call runs.
LEMMA RestartAlone ==
  ASSUME Restart
  PROVE  AloneOk'
<1>1. \A o \in Calls : Phase(o)' = "idle"
  BY DEF Restart, Phase, Idle, Attempt
<1> QED
  BY <1>1 DEF AloneOk, Phase

-----------------------------------------------------------------------------
(* The theorems about the skills                                             *)

\* At the start nothing is there.
LEMMA FilesInitInv == FilesInit => FilesInv
<1> SUFFICES ASSUME FilesInit PROVE FilesInv
  OBVIOUS
<1>1. \A o \in Calls : Phase(o) = "idle" /\ call[o].snap = None
  BY DEF FilesInit, Phase, Idle, Attempt
<1>2. Idle \in Call
  BY DEF Idle, Attempt, Call, Phases
<1>3. FilesTypeOK
  BY <1>2, FilesAssumption DEF FilesInit, FilesTypeOK, Times, Contents, Emptied, NoRecords, Records
<1>4. NamesOk
  BY <1>1 DEF FilesInit, NamesOk, CallOk
<1>5. HandlersOk
  <2>1. \A s \in Skills : ~\E o \in Calls : At(o, s, {"record", "writing"})
    BY <1>1 DEF At
  <2>2. \A s \in Skills : handler[s] = Loadable(manifest)[s]
    BY DEF FilesInit, Loadable, NoRecords
  <2> QED
    BY <2>1, <2>2 DEF HandlersOk, HandlerOk
<1>6. AloneOk
  BY <1>1 DEF AloneOk
<1> QED
  BY <1>3, <1>4, <1>5, <1>6 DEF FilesInv

\* Every step of a call keeps the invariant.
LEMMA CallStepInv ==
  ASSUME FilesInv, NEW o \in Calls,
         \/ \E s \in Skills : \/ \E c \in Codes : Add(o, s, c)
                              \/ \E v \in Times \union {Latest} : Rollback(o, s, v)
                              \/ Fail(o, s)
         \/ Snapshot(o) \/ Archive(o) \/ WriteFile(o) \/ Install(o) \/ Record(o)
         \/ WriteManifest(o) \/ Restore(o) \/ Reinstall(o)
         \/ Clear(o) \/ Unpack(o) \/ Reload(o)
  PROVE  FilesInv'
<1>0. FilesTypeOK /\ NamesOk
  BY DEF FilesInv
<1>1. ASSUME NEW s \in Skills, NEW c \in Codes, Add(o, s, c) PROVE FilesInv'
  BY <1>0, <1>1, AddTyped, AddHandlers, AddAlone DEF FilesInv
<1>2. ASSUME NEW s \in Skills, NEW v \in Times \union {Latest}, Rollback(o, s, v)
      PROVE  FilesInv'
  BY <1>0, <1>2, RollbackTyped, RollbackHandlers, RollbackAlone DEF FilesInv
<1>3. ASSUME NEW s \in Skills, Fail(o, s) PROVE FilesInv'
  BY <1>0, <1>3, FailTyped, FailHandlers, FailAlone DEF FilesInv
<1>4. CASE Snapshot(o)
  BY <1>0, <1>4, SnapshotTyped, SnapshotHandlers, SnapshotAlone DEF FilesInv
<1>5. CASE Archive(o)
  BY <1>0, <1>5, ArchiveTyped, ArchiveHandlers, ArchiveAlone DEF FilesInv
<1>6. CASE WriteFile(o)
  BY <1>0, <1>6, WriteFileTyped, WriteFileHandlers, OtherPartsAlone DEF FilesInv
<1>7. CASE Install(o)
  BY <1>0, <1>7, InstallTyped, InstallHandlers, OtherPartsAlone DEF FilesInv
<1>8. CASE Record(o)
  BY <1>0, <1>8, RecordTyped, RecordHandlers, RecordAlone DEF FilesInv
<1>9. CASE WriteManifest(o)
  BY <1>0, <1>9, WriteManifestTyped, WriteManifestHandlers, OtherPartsAlone DEF FilesInv
<1>10. CASE Restore(o)
  BY <1>0, <1>10, RestoreTyped, RestoreHandlers, RestoreAlone DEF FilesInv
<1>11. CASE Reinstall(o)
  BY <1>0, <1>11, ReinstallTyped, ReinstallHandlers, OtherPartsAlone DEF FilesInv
<1>12. CASE Clear(o)
  BY <1>0, <1>12, ClearTyped, ClearHandlers, OtherPartsAlone DEF FilesInv
<1>13. CASE Unpack(o)
  BY <1>0, <1>13, UnpackTyped, UnpackHandlers, OtherPartsAlone DEF FilesInv
<1>14. CASE Reload(o)
  BY <1>0, <1>14, ReloadTyped, ReloadHandlers, OtherPartsAlone DEF FilesInv
<1> QED
  BY <1>1, <1>2, <1>3, <1>4, <1>5, <1>6, <1>7, <1>8, <1>9, <1>10, <1>11, <1>12, <1>13, <1>14

\* Every step keeps the invariant.
LEMMA FilesNextInv == FilesInv /\ [FilesNext]_filesVars => FilesInv'
<1> SUFFICES ASSUME FilesInv, [FilesNext]_filesVars PROVE FilesInv'
  OBVIOUS
<1>1. CASE Restart
  BY <1>1, RestartTyped, RestartHandlers, RestartAlone DEF FilesInv
<1>2. CASE Second
  <2>1. UNCHANGED <<file, archive, manifest, handler, call, apart>>
    BY <1>2 DEF Second, dir
  <2> QED
    BY <1>2, <2>1, SecondTyped, StutterHandlers, StutterAlone DEF FilesInv
<1>3. CASE UNCHANGED filesVars
  <2>1. UNCHANGED <<file, archive, manifest, handler, call, apart>>
    BY <1>3 DEF filesVars, dir
  <2>2. FilesTypeOK' /\ NamesOk'
    BY <1>3 DEF filesVars, dir, store, FilesInv, FilesTypeOK, NamesOk, CallOk, Phase
  <2> QED
    BY <2>1, <2>2, StutterHandlers, StutterAlone DEF FilesInv
<1>4. CASE FilesNext /\ ~Restart /\ ~Second
  BY <1>4, CallStepInv DEF FilesNext
<1> QED
  BY <1>1, <1>2, <1>3, <1>4

\* The invariant holds throughout.
LEMMA FilesInvariance == FilesSpec => []FilesInv
<1> QED
  BY FilesInitInv, FilesNextInv, PTL DEF FilesSpec

\* The variables of the skills directory, of its snapshots and journal, and of
\* every call keep their types, through failures, overlapping calls, rollbacks
\* and restarts.
THEOREM FilesTypes == FilesSpec => []FilesTypeOK
<1>1. FilesInv => FilesTypeOK
  BY DEF FilesInv
<1> QED
  BY <1>1, FilesInvariance, PTL

\* When no call runs, the handler that the registry has of a skill is the one a
\* restart would import, unless one of the named faults came between.
THEOREM ServesWhatIsOnDisk == FilesSpec => []ServedAsOnDisk
<1>1. FilesInv => ServedAsOnDisk
  <2> SUFFICES ASSUME FilesInv, \A o \in Calls : Phase(o) = "idle", NEW s \in Skills
               PROVE  handler[s] = Loadable(manifest)[s] \/ s \in apart
    BY DEF ServedAsOnDisk
  <2>1. ~\E o \in Calls : At(o, s, {"record", "writing"})
    BY DEF At
  <2>2. Unsettled(s) => s \in apart
    BY DEF Unsettled, At
  <2> QED
    BY <2>1, <2>2 DEF FilesInv, HandlersOk, HandlerOk
<1> QED
  BY <1>1, FilesInvariance, PTL

\* A deployment that no other call overlaps overwrites a file only when the
\* archive has it, on its first attempt and on its second.
THEOREM ArchivedBeforeOverwritten == FilesSpec => OverwritesTheArchived
<1>1. FilesInv /\ [FilesNext]_filesVars =>
        [\A o \in Calls : LET s == call[o].skill IN
           Phase(o) = "write" /\ Phase(o)' = "install" /\ call[o].alone /\ file[s] # None
             => \E t \in Times : archive[s][t] = file[s]]_filesVars
  BY DEF FilesInv, AloneOk
<1> QED
  BY <1>1, FilesInvariance, PTL DEF FilesSpec, OverwritesTheArchived
=============================================================================

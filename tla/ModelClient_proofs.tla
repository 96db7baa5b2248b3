------------------------- MODULE ModelClient_proofs -------------------------
(* Proofs about the language model client: whatever the calls, their sizes   *)
(* and the two rates are, the provider is never asked for more than the      *)
(* buckets allow, a call that returns leaves nothing behind, and the parser  *)
(* finds every call of what it sees of an answer once.                       *)
EXTENDS ModelClient, AnswerParser, SequenceTheorems, WellFoundedInduction, NaturalsInduction, TLAPS

-----------------------------------------------------------------------------
(* The buckets.  RateLimited alone is not inductive: what has been handed out *)
(* and what is left in a bucket are within its capacity together.            *)

BucketTypes == /\ reqs \in Nat /\ toks \in Nat /\ asked \in Nat /\ used \in Nat
               /\ cost \in [Calls -> Costs]

BucketInv == /\ BucketTypes
             /\ asked + reqs <= RequestCap
             /\ used + toks <= TokenCap

\* A bucket's level is cut at its capacity.
LEMMA CappedIsMin ==
  ASSUME NEW level \in Nat, NEW cap \in Nat
  PROVE  Capped(level, cap) = IF level <= cap THEN level ELSE cap
<1> DEFINE m == IF level <= cap THEN level ELSE cap
<1>1. m \in {level, cap} /\ \A y \in {level, cap} : m <= y
  OBVIOUS
<1>2. \A x \in {level, cap} : (\A y \in {level, cap} : x <= y) => x = m
  OBVIOUS
<1> HIDE DEF m
<1>3. (CHOOSE x \in {level, cap} : \A y \in {level, cap} : x <= y) = m
  BY <1>1, <1>2
<1> QED
  BY <1>3 DEF Capped, Min, m

\* A refill gives back to a bucket no more than it takes from the account.
LEMMA RefillBalances ==
  ASSUME NEW level \in Nat, NEW out_ \in Nat, NEW rate \in Nat \ {0},
         NEW cap \in Nat \ {0}, out_ + level <= cap
  PROVE  /\ Capped(level + rate, cap) \in Nat /\ Drained(out_, rate) \in Nat
         /\ Drained(out_, rate) + Capped(level + rate, cap) <= cap
<1>1. level + rate \in Nat /\ cap \in Nat
  OBVIOUS
<1>2. Capped(level + rate, cap) = IF level + rate <= cap THEN level + rate ELSE cap
  BY <1>1, CappedIsMin
<1> QED
  BY <1>2 DEF Drained

\* Each step keeps the accounts of both buckets.
LEMMA BucketStep == BucketInv /\ [Next]_vars => BucketInv'
<1> SUFFICES ASSUME BucketInv, [Next]_vars PROVE BucketInv'
  OBVIOUS
<1> USE DEF BucketInv, BucketTypes
<1>1. ASSUME UNCHANGED <<cost, buckets>> PROVE BucketInv'
  BY <1>1 DEF buckets
<1>2. CASE Tick
  <2>1. reqs' \in Nat /\ asked' \in Nat /\ asked' + reqs' <= RequestCap
    BY <1>2, RefillBalances, ClientAssumption DEF Tick
  <2>2. toks' \in Nat /\ used' \in Nat /\ used' + toks' <= TokenCap
    BY <1>2, RefillBalances, ClientAssumption DEF Tick
  <2> QED
    BY <1>2, <2>1, <2>2 DEF Tick, config
<1>3. ASSUME NEW c \in Calls, AcquireRequest(c) PROVE BucketInv'
  BY <1>3, ClientAssumption DEF AcquireRequest, config
<1>4. ASSUME NEW c \in Calls, AcquireTokens(c) PROVE BucketInv'
  <2>1. cost[c] \in Nat
    BY ClientAssumption
  <2> QED
    BY <1>4, <2>1, ClientAssumption DEF AcquireTokens, Enough, config
<1>5. ASSUME NEW c \in Calls, NEW route \in Routes, Start(c, route) PROVE BucketInv'
  BY <1>1, <1>5 DEF Start, config
<1>6. ASSUME NEW c \in Calls,
             StartRace(c) \/ Post(c) \/ Generated(c) \/ Return(c) \/ Wake(c)
               \/ GraceEnds(c) \/ GiveUp(c)
      PROVE  BucketInv'
  BY <1>1, <1>6 DEF StartRace, Post, Generated, Return, Wake, GraceEnds, GiveUp, config
<1>7. ASSUME NEW c \in Calls, Again(c) PROVE BucketInv'
  BY <1>7 DEF Again, buckets
<1>8. CASE UNCHANGED vars
  BY <1>1, <1>8 DEF vars
<1> QED
  BY <1>2, <1>3, <1>4, <1>5, <1>6, <1>7, <1>8 DEF Next, CallStep

\* For any capacity, rate and sizes of requests: in no stretch of time does the
\* client ask the provider for more requests or tokens than a full bucket and
\* its refill, also with callers that give up in between.
THEOREM NeverOverTheRate == Spec => []RateLimited
<1>1. Init => BucketInv
  BY ClientAssumption DEF Init, Full, BucketInv, BucketTypes
<1>2. BucketInv => RateLimited
  BY ClientAssumption DEF BucketInv, BucketTypes, RateLimited
<1> QED
  BY <1>1, <1>2, BucketStep, PTL DEF Spec
-----------------------------------------------------------------------------
(* The branches of a call.  What the two properties need besides themselves: *)
(* a call that is not over has no cancelled branch, and a call to a single   *)
(* backend has one branch only.                                              *)

BranchTypes ==
  /\ phase \in [Calls -> {"new", "single", "racing", "grace", "done", "cut"}]
  /\ loc \in [Calls -> {"none", "run", "ok", "err", "cancelled"}]
  /\ ext \in [Calls -> {"none", "ok", "err", "cancelled"} \union Waiting]
  /\ DOMAIN out = Calls

Honest(c) ==
  phase[c] = "done" /\ loc[c] # "none" /\ ext[c] # "none" =>
    IF out[c] = "error" THEN loc[c] = "err" /\ ext[c] = "err" ELSE out[c] \in Oks(c)

Sound(c) ==
  /\ phase[c] = "single" => loc[c] = "none" \/ ext[c] = "none"
  /\ phase[c] \in {"single", "racing", "grace"} =>
       loc[c] # "cancelled" /\ ext[c] # "cancelled"
  /\ phase[c] = "done" => ~Pending(c)
  /\ Honest(c)

BranchInv == BranchTypes /\ \A c \in Calls : Sound(c)

\* A call whose entries do not change stays as it is.
LEMMA OthersKept ==
  ASSUME NEW c \in Calls, Sound(c),
         phase'[c] = phase[c], loc'[c] = loc[c], ext'[c] = ext[c], out'[c] = out[c]
  PROVE  Sound(c)'
BY DEF Sound, Honest, Pending, Oks

\* What a call gets when it starts has no branch that is cancelled.
LEMMA StartKeeps ==
  ASSUME BranchInv, NEW c \in Calls,
         (\E route \in Routes : Start(c, route)) \/ StartRace(c)
  PROVE  BranchInv'
<1> USE DEF BranchInv, BranchTypes, Waiting
<1>1. BranchTypes'
  BY DEF Start, StartRace
<1>2. ASSUME NEW d \in Calls PROVE Sound(d)'
  <2>1. CASE d = c
    BY <2>1 DEF Start, StartRace, Sound, Honest
  <2>2. CASE d # c
    BY <2>2, OthersKept DEF Start, StartRace
  <2> QED
    BY <2>1, <2>2
<1> QED
  BY <1>1, <1>2

\* A branch goes on only while it is pending, so its call has not returned.
LEMMA BranchKeeps ==
  ASSUME BranchInv, NEW c \in Calls,
         AcquireRequest(c) \/ AcquireTokens(c) \/ Post(c) \/ Generated(c)
  PROVE  BranchInv'
<1> USE DEF BranchInv, BranchTypes, Waiting
<1>1. BranchTypes'
  BY DEF AcquireRequest, AcquireTokens, Post, Generated
<1>2. ASSUME NEW d \in Calls PROVE Sound(d)'
  <2>1. CASE d = c
    <3>1. CASE AcquireRequest(c)
      BY <2>1, <3>1 DEF AcquireRequest, Sound, Honest, Pending
    <3>2. CASE AcquireTokens(c)
      BY <2>1, <3>2 DEF AcquireTokens, Sound, Honest, Pending
    <3>3. CASE Post(c)
      BY <2>1, <3>3 DEF Post, Sound, Honest, Pending
    <3>4. CASE Generated(c)
      <4>1. CASE loc[c] = "run"
        BY <2>1, <3>4, <4>1 DEF Generated, Sound, Honest, Pending
      <4>2. CASE loc[c] # "run"
        BY <2>1, <3>4, <4>2, OthersKept DEF Generated
      <4> QED
        BY <4>1, <4>2
    <3> QED
      BY <3>1, <3>2, <3>3, <3>4
  <2>2. CASE d # c
    BY <2>2, OthersKept DEF AcquireRequest, AcquireTokens, Post, Generated
  <2> QED
    BY <2>1, <2>2
<1> QED
  BY <1>1, <1>2

\* A call returns when nothing of it is pending, or when what is pending is
\* cancelled, and it returns an answer that it has.
LEMMA ReturnKeeps ==
  ASSUME BranchInv, NEW c \in Calls,
         Return(c) \/ Wake(c) \/ GraceEnds(c) \/ GiveUp(c)
  PROVE  BranchInv'
<1> USE DEF BranchInv, BranchTypes, Waiting
<1>1. BranchTypes'
  BY DEF Return, Wake, GraceEnds, GiveUp, Ended, Cancelled
<1>2. ASSUME NEW d \in Calls PROVE Sound(d)'
  <2>1. CASE d = c
    <3>1. CASE Return(c)
      BY <2>1, <3>1 DEF Return, Ended, Sound, Honest, Pending
    <3>2. CASE Wake(c)
      BY <2>1, <3>2 DEF Wake, Ended, NoneLeft, Sound, Honest, Pending, Oks
    <3>3. CASE GraceEnds(c)
      BY <2>1, <3>3 DEF GraceEnds, Ended, Cancelled, Sound, Honest, Pending, Oks
    <3>4. CASE GiveUp(c)
      BY <2>1, <3>4 DEF GiveUp, Sound, Honest
    <3> QED
      BY <3>1, <3>2, <3>3, <3>4
  <2>2. CASE d # c
    BY <2>2, OthersKept DEF Return, Wake, GraceEnds, GiveUp, Ended, Cancelled
  <2> QED
    BY <2>1, <2>2
<1> QED
  BY <1>1, <1>2

\* A caller's next call has no branches yet.
LEMMA AgainKeeps ==
  ASSUME BranchInv, NEW c \in Calls, Again(c)
  PROVE  BranchInv'
<1> USE DEF BranchInv, BranchTypes, Waiting
<1>1. BranchTypes'
  BY DEF Again
<1>2. ASSUME NEW d \in Calls PROVE Sound(d)'
  <2>1. CASE d = c
    BY <2>1 DEF Again, Sound, Honest
  <2>2. CASE d # c
    BY <2>2, OthersKept DEF Again
  <2> QED
    BY <2>1, <2>2
<1> QED
  BY <1>1, <1>2

\* The invariant of the branches.
LEMMA BranchInvariance == Spec => []BranchInv
<1>1. Init => BranchInv
  BY DEF Init, BranchInv, BranchTypes, Sound, Honest, Waiting
<1>2. BranchInv /\ [Next]_vars => BranchInv'
  <2> SUFFICES ASSUME BranchInv, [Next]_vars PROVE BranchInv'
    OBVIOUS
  <2>1. ASSUME UNCHANGED <<phase, loc, ext, out>> PROVE BranchInv'
    BY <2>1, OthersKept DEF BranchInv, BranchTypes, Waiting
  <2>2. CASE Tick \/ UNCHANGED vars
    BY <2>1, <2>2 DEF Tick, vars
  <2> QED
    BY <2>2, StartKeeps, BranchKeeps, ReturnKeeps, AgainKeeps DEF Next, CallStep
<1> QED
  BY <1>1, <1>2, PTL DEF Spec

\* For any number of calls: a call that has returned has no branch left that
\* would take tokens or ask the provider.
THEOREM ReturnLeavesNothing == Spec => []ReturnedIsOver
<1>1. BranchInv => ReturnedIsOver
  BY DEF BranchInv, Sound, ReturnedIsOver
<1> QED
  BY <1>1, BranchInvariance, PTL

\* For any number of calls: a race fails only when both backends have failed,
\* and what it returns is an answer of the backend it names.
THEOREM RaceIsHonest == Spec => []RaceTakesAnAnswer
<1>1. BranchInv => RaceTakesAnAnswer
  BY DEF BranchInv, Sound, Honest, RaceTakesAnAnswer
<1> QED
  BY <1>1, BranchInvariance, PTL

-----------------------------------------------------------------------------
(* The parser.  What is kept of a sequence, by induction on its length.      *)

\* A set of numbers with zero, and with the next number of each, has them all.
LEMMA AllNumbers ==
  ASSUME NEW S, 0 \in S, \A n \in Nat : n \in S => n + 1 \in S
  PROVE  Nat \subseteq S
<1> DEFINE less == {ss \in Nat \X Nat : ss[1] < ss[2]}
           T == Nat \ S
<1> SUFFICES ASSUME T # {} PROVE FALSE
  OBVIOUS
<1>1. IsWellFoundedOn(less, Nat)
  <2>1. OpToRel(<, Nat) = less
    BY Zenon DEF OpToRel
  <2> QED
    BY <2>1, NatLessThanWellFounded
<1>2. T \subseteq Nat
  OBVIOUS
<1> HIDE DEF less
<1>3. PICK x \in T : \A y \in T : ~(<<y, x>> \in less)
  <2> HIDE DEF T
  <2> QED
    BY <1>1, <1>2, WFMin
<1>4. x \in Nat /\ x # 0 /\ x \notin S
  OBVIOUS
<1>5. x - 1 \in Nat /\ x - 1 < x /\ x = (x - 1) + 1
  BY <1>4
<1>6. x - 1 \in T
  BY <1>4, <1>5
<1>7. <<x - 1, x>> \in less
  BY <1>4, <1>5 DEF less
<1> QED
  BY <1>3, <1>6, <1>7

\* The step of the selection.
Goes(a, i, s, places) == IF i \in places THEN Append(a, s[i]) ELSE a

\* The selection's function exists.
LEMMA KeptExists ==
  ASSUME NEW S, NEW s \in Seq(S), NEW places \in SUBSET DOMAIN s
  PROVE  \E f \in [0..Len(s) -> Seq(S)] :
           \A i \in 0..Len(s) : f[i] = IF i = 0 THEN <<>> ELSE Goes(f[i - 1], i, s, places)
<1> DEFINE Good(f, n) ==
             \A i \in 0..n : f[i] = IF i = 0 THEN <<>> ELSE Goes(f[i - 1], i, s, places)
           Exists(n) == n <= Len(s) => \E f \in [0..n -> Seq(S)] : Good(f, n)
           N == {n \in Nat : Exists(n)}
<1>1. 0 \in N
  <2>1. [i \in 0..0 |-> <<>>] \in [0..0 -> Seq(S)] /\ Good([i \in 0..0 |-> <<>>], 0)
    OBVIOUS
  <2> QED
    BY <2>1
<1>2. ASSUME NEW n \in Nat, n \in N PROVE n + 1 \in N
  <2> SUFFICES ASSUME n + 1 <= Len(s) PROVE \E f \in [0..n + 1 -> Seq(S)] : Good(f, n + 1)
    <3>1. n + 1 \in Nat /\ (n + 1 \in N <=> Exists(n + 1))
      <4> HIDE DEF Exists
      <4> QED
        OBVIOUS
    <3>2. Exists(n + 1)
      OBVIOUS
    <3> HIDE DEF N, Exists
    <3> QED
      BY <3>1, <3>2
  <2>1. PICK f \in [0..n -> Seq(S)] : Good(f, n)
    <3>1. Exists(n)
      <4> HIDE DEF Exists
      <4> QED
        BY <1>2
    <3>2. n <= Len(s)
      OBVIOUS
    <3> HIDE DEF Good
    <3> QED
      BY <3>1, <3>2
  <2> DEFINE e == Goes(f[n], n + 1, s, places)
             g == [i \in 0..n + 1 |-> IF i = n + 1 THEN e ELSE f[i]]
  <2>2. e \in Seq(S)
    BY DEF Goes
  <2> HIDE DEF e
  <2>3. g \in [0..n + 1 -> Seq(S)]
    BY <2>2
  <2>4. ASSUME NEW i \in 0..n + 1
        PROVE  g[i] = IF i = 0 THEN <<>> ELSE Goes(g[i - 1], i, s, places)
    <3>1. CASE i = n + 1
      <4>1. g[n + 1] = e /\ g[n] = f[n] /\ i - 1 = n /\ i # 0
        BY <3>1
      <4> QED
        BY <3>1, <4>1 DEF e
    <3>2. CASE i # n + 1
      <4>1. i \in 0..n /\ g[i] = f[i]
        BY <3>2
      <4>2. i # 0 => i - 1 \in 0..n /\ g[i - 1] = f[i - 1]
        BY <4>1
      <4> HIDE DEF g
      <4> QED
        BY <2>1, <4>1, <4>2
    <3> QED
      BY <3>1, <3>2
  <2> QED
    BY <2>3, <2>4
<1>3. Len(s) \in N
  <2> HIDE DEF N
  <2>1. Nat \subseteq N
    BY <1>1, <1>2, AllNumbers
  <2> QED
    BY <2>1
<1> QED
  BY <1>3

\* The selection is computed place by place.
LEMMA KeptToIs ==
  ASSUME NEW S, NEW s \in Seq(S), NEW places \in SUBSET DOMAIN s
  PROVE  \A i \in 0..Len(s) :
           KeptTo(s, places)[i] = IF i = 0 THEN <<>> ELSE Goes(KeptTo(s, places)[i - 1], i, s, places)
<1> DEFINE Def(f) == [i \in 0..Len(s) |->
                        IF i = 0 THEN <<>>
                        ELSE IF i \in places THEN Append(f[i - 1], s[i]) ELSE f[i - 1]]
<1>1. \E f : f = Def(f)
  <2>1. PICK f \in [0..Len(s) -> Seq(S)] :
          \A i \in 0..Len(s) : f[i] = IF i = 0 THEN <<>> ELSE Goes(f[i - 1], i, s, places)
    BY KeptExists
  <2>2. \A i \in 0..Len(s) : f[i] = Def(f)[i]
    BY <2>1 DEF Goes
  <2>3. f = Def(f)
    BY <2>2
  <2> QED
    BY <2>3
<1>2. KeptTo(s, places) = CHOOSE f : f = Def(f)
  BY DEF KeptTo
<1>3. KeptTo(s, places) = Def(KeptTo(s, places))
  <2> HIDE DEF Def
  <2> QED
    BY <1>1, <1>2
<1> QED
  BY <1>3 DEF Goes

\* What is kept is what the sequence has at the places, each once when it has
\* each once there.
LEMMA KeptIs ==
  ASSUME NEW S, NEW s \in Seq(S), NEW places \in SUBSET DOMAIN s
  PROVE  /\ Kept(s, places) \in Seq(S)
         /\ ToSet(Kept(s, places)) = {s[i] : i \in places}
         /\ (\A i, j \in places : s[i] = s[j] => i = j) => IsInjective(Kept(s, places))
<1> DEFINE k == KeptTo(s, places)
           Upto(i) == {s[n] : n \in places \intersect 1..i}
           Once == \A i, j \in places : s[i] = s[j] => i = j
           Right(i) == i <= Len(s) =>
             k[i] \in Seq(S) /\ ToSet(k[i]) = Upto(i) /\ (Once => IsInjective(k[i]))
           N == {i \in Nat : Right(i)}
<1>1. \A i \in 0..Len(s) : k[i] = IF i = 0 THEN <<>> ELSE Goes(k[i - 1], i, s, places)
  BY KeptToIs
<1> HIDE DEF k
<1>2. Right(0)
  <2>1. k[0] = <<>>
    BY <1>1
  <2>2. DOMAIN <<>> = {} /\ <<>> \in Seq(S)
    OBVIOUS
  <2> QED
    BY <2>1, <2>2 DEF ToSet, IsInjective
<1>3. ASSUME NEW i \in Nat, Right(i), i + 1 <= Len(s)
      PROVE  k[i + 1] \in Seq(S) /\ ToSet(k[i + 1]) = Upto(i + 1) /\ (Once => IsInjective(k[i + 1]))
  <2> DEFINE e == s[i + 1]
             a == k[i]
  <2>1. a \in Seq(S) /\ ToSet(a) = Upto(i) /\ (Once => IsInjective(a))
    BY <1>3
  <2>2. k[i + 1] = Goes(a, i + 1, s, places) /\ e \in S
    <3>1. i + 1 \in 0..Len(s) /\ i + 1 # 0 /\ (i + 1) - 1 = i /\ i + 1 \in 1..Len(s)
      <4> HIDE DEF Right
      <4> QED
        BY <1>3
    <3> QED
      BY <1>1, <3>1
  <2>3. places \intersect 1..i + 1
          = (places \intersect 1..i) \union (IF i + 1 \in places THEN {i + 1} ELSE {})
    OBVIOUS
  <2>4. CASE i + 1 \in places
    <3>1. k[i + 1] = Append(a, e)
      BY <2>2, <2>4 DEF Goes
    <3>2. Upto(i + 1) = Upto(i) \union {e}
      BY <2>3, <2>4
    <3>3. Once => ~(e \in Upto(i))
      BY <2>4
    <3> HIDE DEF a, e, Upto, Once
    <3>4. /\ DOMAIN Append(a, e) = 1..Len(a) + 1 /\ DOMAIN a = 1..Len(a) /\ Len(a) \in Nat
          /\ \A n \in 1..Len(a) : Append(a, e)[n] = a[n]
          /\ Append(a, e)[Len(a) + 1] = e
          /\ Append(a, e) \in Seq(S)
      BY <2>1, <2>2, AppendProperties
    <3>5. ToSet(Append(a, e)) = ToSet(a) \union {e}
      BY <3>4 DEF ToSet
    <3>6. ASSUME Once PROVE IsInjective(Append(a, e))
      <4>1. \A n \in 1..Len(a) : a[n] # e
        BY <2>1, <3>3, <3>4, <3>6 DEF ToSet
      <4>2. \A n, m \in 1..Len(a) : a[n] = a[m] => n = m
        BY <2>1, <3>4, <3>6 DEF IsInjective
      <4>3. \A n, m \in 1..Len(a) + 1 : Append(a, e)[n] = Append(a, e)[m] => n = m
        BY <3>4, <4>1, <4>2
      <4> QED
        BY <3>4, <4>3 DEF IsInjective
    <3> QED
      BY <2>1, <3>1, <3>2, <3>4, <3>5, <3>6
  <2>5. CASE ~(i + 1 \in places)
    <3>1. k[i + 1] = a
      BY <2>2, <2>5 DEF Goes
    <3>2. Upto(i + 1) = Upto(i)
      BY <2>3, <2>5
    <3> HIDE DEF Upto, Once, a
    <3> QED
      BY <2>1, <3>1, <3>2
  <2> QED
    BY <2>4, <2>5
<1>4. Right(Len(s))
  <2>1. 0 \in N
    BY <1>2
  <2>2. ASSUME NEW i \in Nat, i \in N PROVE i + 1 \in N
    <3>1. i + 1 <= Len(s) => i <= Len(s)
      OBVIOUS
    <3>2. Right(i)
      BY <2>2
    <3>3. Right(i + 1)
      BY <1>3, <3>2
    <3> HIDE DEF Right
    <3> QED
      BY <3>3
  <2> HIDE DEF N
  <2>3. Nat \subseteq N
    BY <2>1, <2>2, AllNumbers
  <2>4. Len(s) \in N
    BY <2>3
  <2> HIDE DEF Right
  <2> QED
    BY <2>4 DEF N
<1>5. Upto(Len(s)) = {s[i] : i \in places}
  <2>1. DOMAIN s = 1..Len(s)
    OBVIOUS
  <2> QED
    BY <2>1
<1>6. Kept(s, places) = k[Len(s)]
  BY DEF Kept, k
<1>7. k[Len(s)] \in Seq(S) /\ ToSet(k[Len(s)]) = Upto(Len(s)) /\ (Once => IsInjective(k[Len(s)]))
  BY <1>4
<1> HIDE DEF Upto
<1> QED
  BY <1>5, <1>6, <1>7

\* A pass finds the calls of the pieces it looks at.
LEMMA FoundIs ==
  ASSUME NEW a \in Seq(Pieces), NEW forms
  PROVE  /\ Found(a, forms) \in Seq(Names)
         /\ ToSet(Found(a, forms))
              = {a[i].says : i \in {j \in DOMAIN a : a[j].form \in forms /\ a[j].says \in Names}}
<1> DEFINE at == {i \in DOMAIN a : a[i].form \in forms /\ a[i].says \in Names}
           hits == Kept(a, at)
<1>1. at \in SUBSET DOMAIN a
  OBVIOUS
<1> HIDE DEF at
<1>2. hits \in Seq(Pieces) /\ ToSet(hits) = {a[i] : i \in at}
  BY <1>1, KeptIs
<1>3. Found(a, forms) = [i \in DOMAIN hits |-> hits[i].says]
  BY DEF Found, at
<1> HIDE DEF hits
<1>4. DOMAIN hits = 1..Len(hits) /\ Len(hits) \in Nat
  BY <1>2, LenProperties
<1>5. \A i \in 1..Len(hits) : hits[i] \in {a[j] : j \in at}
  BY <1>2, <1>4 DEF ToSet
<1>6. \A i \in 1..Len(hits) : hits[i].says \in Names
  BY <1>5 DEF at
<1>7. Found(a, forms) \in Seq(Names)
  BY <1>3, <1>4, <1>6
<1>8. ToSet(Found(a, forms)) = {p.says : p \in ToSet(hits)}
  BY <1>3 DEF ToSet
<1>9. ToSet(Found(a, forms)) = {a[i].says : i \in at}
  BY <1>2, <1>8
<1> QED
  BY <1>7, <1>9 DEF at

\* Of equal calls one is kept.
LEMMA DedupeIs ==
  ASSUME NEW S, NEW calls \in Seq(S)
  PROVE  /\ Dedupe(calls) \in Seq(S) /\ IsInjective(Dedupe(calls))
         /\ ToSet(Dedupe(calls)) = ToSet(calls)
<1> DEFINE first == {i \in DOMAIN calls : \A j \in 1..i - 1 : calls[j] # calls[i]}
           less == {ss \in Nat \X Nat : ss[1] < ss[2]}
<1>0. DOMAIN calls = 1..Len(calls) /\ Len(calls) \in Nat
  BY LenProperties
<1>1. first \in SUBSET DOMAIN calls
  OBVIOUS
<1>2. \A i, j \in first : calls[i] = calls[j] => i = j
  <2> SUFFICES ASSUME NEW i \in first, NEW j \in first, calls[i] = calls[j], i < j PROVE FALSE
    BY <1>0
  <2>1. i \in 1..j - 1
    BY <1>0
  <2> QED
    BY <2>1
<1>3. \A n \in DOMAIN calls : \E i \in first : calls[i] = calls[n]
  <2> SUFFICES ASSUME NEW n \in DOMAIN calls PROVE \E i \in first : calls[i] = calls[n]
    OBVIOUS
  <2> DEFINE T == {j \in DOMAIN calls : calls[j] = calls[n]}
  <2>1. IsWellFoundedOn(less, Nat)
    <3>1. OpToRel(<, Nat) = less
      BY Zenon DEF OpToRel
    <3> QED
      BY <3>1, NatLessThanWellFounded
  <2>2. T \subseteq Nat /\ T # {}
    BY <1>0
  <2>3. PICK x \in T : \A y \in T : ~(<<y, x>> \in less)
    <3> HIDE DEF T, less
    <3> QED
      BY <2>1, <2>2, WFMin
  <2>4. \A y \in T : ~(y < x)
    <3> SUFFICES ASSUME NEW y \in T, y < x PROVE FALSE
      OBVIOUS
    <3>1. <<y, x>> \in less
      BY <1>0
    <3> HIDE DEF T, less
    <3> QED
      BY <2>3, <3>1
  <2>5. x \in DOMAIN calls /\ calls[x] = calls[n]
    OBVIOUS
  <2>6. \A j \in 1..x - 1 : calls[j] # calls[x]
    BY <1>0, <2>4, <2>5
  <2> QED
    BY <2>5, <2>6
<1>4. Dedupe(calls) = Kept(calls, first)
  BY DEF Dedupe
<1>5. {calls[i] : i \in first} = ToSet(calls)
  BY <1>1, <1>3 DEF ToSet
<1> HIDE DEF first
<1>6. /\ Kept(calls, first) \in Seq(S)
      /\ ToSet(Kept(calls, first)) = {calls[i] : i \in first}
      /\ IsInjective(Kept(calls, first))
  BY <1>1, <1>2, KeptIs
<1> QED
  BY <1>4, <1>5, <1>6

\* A concatenation holds what its parts hold.
LEMMA BothParts ==
  ASSUME NEW S, NEW s \in Seq(S), NEW t \in Seq(S)
  PROVE  s \o t \in Seq(S) /\ ToSet(s \o t) = ToSet(s) \union ToSet(t)
<1>1. /\ s \o t \in Seq(S) /\ Len(s \o t) = Len(s) + Len(t)
      /\ \A i \in 1..Len(s) + Len(t) : (s \o t)[i] = IF i <= Len(s) THEN s[i] ELSE t[i - Len(s)]
  BY ConcatProperties
<1>2. /\ DOMAIN s = 1..Len(s) /\ DOMAIN t = 1..Len(t)
      /\ DOMAIN (s \o t) = 1..Len(s) + Len(t)
      /\ Len(s) \in Nat /\ Len(t) \in Nat
  BY <1>1, LenProperties
<1>3. \A i \in 1..Len(s) : i \in 1..Len(s) + Len(t) /\ (s \o t)[i] = s[i]
  BY <1>1, <1>2
<1>4. \A i \in 1..Len(t) : Len(s) + i \in 1..Len(s) + Len(t) /\ (s \o t)[Len(s) + i] = t[i]
  BY <1>1, <1>2
<1>5. \A i \in 1..Len(s) + Len(t) :
        (s \o t)[i] \in {s[j] : j \in 1..Len(s)} \union {t[j] : j \in 1..Len(t)}
  <2> SUFFICES ASSUME NEW i \in 1..Len(s) + Len(t)
               PROVE  (s \o t)[i] \in {s[j] : j \in 1..Len(s)} \union {t[j] : j \in 1..Len(t)}
    OBVIOUS
  <2>1. CASE i <= Len(s)
    BY <1>1, <1>2, <2>1
  <2>2. CASE ~(i <= Len(s))
    <3>1. i - Len(s) \in 1..Len(t)
      BY <1>2, <2>2
    <3> QED
      BY <1>1, <2>2, <3>1
  <2> QED
    BY <2>1, <2>2
<1> DEFINE u == s \o t
<1>6. u \in Seq(S) /\ ToSet(u) = {u[i] : i \in 1..Len(s) + Len(t)}
  BY <1>1, <1>2 DEF ToSet
<1>7. \A i \in 1..Len(s) + Len(t) :
        u[i] \in {s[j] : j \in 1..Len(s)} \union {t[j] : j \in 1..Len(t)}
  BY <1>5
<1>8. /\ \A i \in 1..Len(s) : i \in 1..Len(s) + Len(t) /\ u[i] = s[i]
      /\ \A i \in 1..Len(t) : Len(s) + i \in 1..Len(s) + Len(t) /\ u[Len(s) + i] = t[i]
  BY <1>3, <1>4
<1>9. ToSet(s) = {s[j] : j \in 1..Len(s)} /\ ToSet(t) = {t[j] : j \in 1..Len(t)}
  BY <1>2 DEF ToSet
<1> HIDE DEF u
<1>10. ToSet(u) = ToSet(s) \union ToSet(t)
  BY <1>6, <1>7, <1>8, <1>9
<1> QED
  BY <1>6, <1>10 DEF u

\* Every call is found once, and no other; the text that makes none is kept, and
\* nothing is added.
LEMMA ParsedRight ==
  ASSUME NEW a \in Seq(Pieces)
  PROVE  /\ IsInjective(ToolCalls(a))
         /\ ToSet(ToolCalls(a)) = {p.says : p \in ToSet(a)} \intersect Names
         /\ {p \in ToSet(a) : ~Cut(p)} \subseteq ToSet(Text(a))
         /\ ToSet(Text(a)) \subseteq ToSet(a)
<1> DEFINE all == {"tag", "fence", "bare"}
           f == Found(a, {"tag"})
           g == Found(a, {"fence"})
           h == Found(a, all)
           Says(forms) == {a[i].says : i \in {j \in DOMAIN a : a[j].form \in forms /\ a[j].says \in Names}}
<1>1. /\ f \in Seq(Names) /\ ToSet(f) = Says({"tag"})
      /\ g \in Seq(Names) /\ ToSet(g) = Says({"fence"})
      /\ h \in Seq(Names) /\ ToSet(h) = Says(all)
  BY FoundIs
<1>2. ToolCalls(a) = Dedupe(f \o g \o h)
  BY DEF ToolCalls
<1>3. Says({"tag"}) \subseteq Says(all) /\ Says({"fence"}) \subseteq Says(all)
  OBVIOUS
<1>4. \A i \in DOMAIN a : a[i].says \in Names => a[i].form \in all
  <2>1. \A i \in DOMAIN a : a[i] \in Pieces
    OBVIOUS
  <2>2. ASSUME NEW p \in Pieces, p.says \in Names PROVE p.form \in all
    BY <2>2, AnswersAssumption DEF Pieces, Plain, Bare, Framed
  <2> HIDE DEF all
  <2> QED
    BY <2>1, <2>2
<1>5. Says(all) = {p.says : p \in ToSet(a)} \intersect Names
  BY <1>4 DEF ToSet
<1> HIDE DEF f, g, h, Says, all
<1>6. f \o g \o h \in Seq(Names) /\ ToSet(f \o g \o h) = Says(all)
  <2>1. f \o g \in Seq(Names) /\ ToSet(f \o g) = ToSet(f) \union ToSet(g)
    BY <1>1, BothParts
  <2> DEFINE fg == f \o g
  <2>2. fg \o h \in Seq(Names) /\ ToSet(fg \o h) = ToSet(fg) \union ToSet(h)
    <3>1. fg \in Seq(Names)
      BY <2>1
    <3> HIDE DEF fg
    <3> QED
      BY <1>1, <3>1, BothParts
  <2> QED
    BY <1>1, <1>3, <2>1, <2>2
<1>7. IsInjective(ToolCalls(a)) /\ ToSet(ToolCalls(a)) = Says(all)
  BY <1>2, <1>6, DedupeIs
<1>8. /\ {p \in ToSet(a) : ~Cut(p)} \subseteq ToSet(Text(a))
      /\ ToSet(Text(a)) \subseteq ToSet(a)
  <2> DEFINE uncut == {j \in DOMAIN a : ~Cut(a[j])}
             rest == Kept(a, uncut)
  <2>1. uncut \in SUBSET DOMAIN a
    OBVIOUS
  <2>2. Text(a) = IF rest = <<>> THEN a ELSE rest
    BY DEF Text
  <2>3. {p \in ToSet(a) : ~Cut(p)} = {a[j] : j \in uncut}
    BY DEF ToSet
  <2> HIDE DEF uncut
  <2>4. ToSet(rest) = {a[j] : j \in uncut}
    BY <2>1, KeptIs
  <2>5. {a[j] : j \in uncut} \subseteq ToSet(a)
    BY <2>1 DEF ToSet
  <2> HIDE DEF rest
  <2> QED
    BY <2>2, <2>3, <2>4, <2>5
<1> QED
  BY <1>5, <1>7, <1>8

\* What the parser has seen of its answer is made of pieces, and what it has
\* found is what its passes find in that.
HeardTypes ==
  /\ answer \in Seq(Pieces) /\ whole \in 0..Len(answer) /\ torn \in Seq(Plain \union Bare)

ParserInv ==
  /\ HeardTypes
  /\ stage = "parsed" => tool_calls = ToolCalls(Heard) /\ text = Text(Heard)
  /\ stage = "raised" => Malformed(Heard)

\* What is heard of an answer: its first pieces and the rest of the next one.
LEMMA HeardIs ==
  ASSUME HeardTypes
  PROVE  Heard \in Seq(Pieces) /\ ToSet(Heard) = {answer[i] : i \in 1..whole} \union ToSet(torn)
<1> DEFINE b == SubSeq(answer, 1, whole)
<1>1. /\ b \in Seq(Pieces) /\ Len(b) = whole /\ whole \in Nat
      /\ \A i \in 1..whole : b[i] = answer[i]
  <2>1. whole \in Nat /\ whole <= Len(answer) /\ Len(answer) \in Nat
    BY LenProperties DEF HeardTypes
  <2> QED
    BY <2>1, SubSeqProperties DEF HeardTypes
<1>2. torn \in Seq(Pieces)
  <2>1. Plain \union Bare \subseteq Pieces
    BY DEF Pieces
  <2> HIDE DEF Pieces, Plain, Bare
  <2> QED
    BY <2>1 DEF HeardTypes
<1>3. ToSet(b) = {answer[i] : i \in 1..whole}
  BY <1>1 DEF ToSet
<1> HIDE DEF b
<1>4. b \o torn \in Seq(Pieces) /\ ToSet(b \o torn) = ToSet(b) \union ToSet(torn)
  BY <1>1, <1>2, BothParts
<1> QED
  BY <1>3, <1>4 DEF Heard, b

\* What is torn makes nothing malformed: only whole tags and fences are looked at.
LEMMA TornIsNotMalformed ==
  ASSUME HeardTypes, Malformed(Heard)
  PROVE  \E i \in 1..whole : answer[i].says = "broken"
<1>1. PICK p \in ToSet(Heard) : p.says = "broken"
  BY DEF Malformed, ToSet
<1>2. p \in {answer[i] : i \in 1..whole} \union ToSet(torn)
  BY HeardIs
<1>3. ASSUME NEW r \in ToSet(torn) PROVE r.says # "broken"
  <2>1. r \in Plain \union Bare
    BY DEF ToSet, HeardTypes
  <2> QED
    BY <2>1, AnswersAssumption DEF Plain, Bare
<1> QED
  BY <1>1, <1>2, <1>3

\* The parser's two steps.
LEMMA ParserStep == ParserInv /\ [ParserNext]_parserVars => ParserInv'
<1> SUFFICES ASSUME ParserInv, [ParserNext]_parserVars PROVE ParserInv'
  OBVIOUS
<1>1. CASE TakeBeginning
  <2>1. answer' \in Seq(Pieces) /\ Len(answer) \in Nat
    BY <1>1, LenProperties DEF TakeBeginning, ParserInv, HeardTypes
  <2>2. CASE whole' = Len(answer) /\ torn' = <<>>
    BY <1>1, <2>1, <2>2 DEF TakeBeginning, ParserInv, HeardTypes
  <2>3. CASE \E n \in 0..Len(answer) - 1 : whole' = n /\ torn' \in Torn(answer[n + 1])
    <3>1. torn' \in Seq(Plain \union Bare)
      BY <2>3, AnswersAssumption DEF Torn
    <3>2. whole' \in 0..Len(answer)
      BY <2>1, <2>3
    <3> QED
      BY <1>1, <2>1, <3>1, <3>2 DEF TakeBeginning, ParserInv, HeardTypes
  <2> QED
    BY <1>1, <2>2, <2>3 DEF TakeBeginning
<1>2. CASE Parse
  <2>1. HeardTypes' /\ Heard' = Heard
    BY <1>2 DEF Parse, ParserInv, HeardTypes, Heard
  <2> QED
    BY <1>2, <2>1 DEF Parse, ParserInv
<1>3. CASE UNCHANGED parserVars
  BY <1>3 DEF parserVars, ParserInv, HeardTypes, Heard
<1> QED
  BY <1>1, <1>2, <1>3 DEF ParserNext

\* Whatever pieces an answer is made of, wherever it is cut and however often it
\* repeats a call: of the beginning that the parser sees, every call is found once
\* and no other, and the text that makes none is kept; it raises only for a payload
\* in that beginning that is not well-formed.
THEOREM AnswersParsedRight == ParserSpec => []ParserFindsEachOnce
<1>1. ParserInit => ParserInv
  <2> SUFFICES ASSUME ParserInit PROVE ParserInv
    OBVIOUS
  <2>1. answer \in Seq(Pieces) /\ Len(answer) \in Nat
    BY AnswersAssumption, LenProperties DEF ParserInit
  <2> QED
    BY <2>1 DEF ParserInit, ParserInv, HeardTypes
<1>2. ParserInv => ParserFindsEachOnce
  <2> SUFFICES ASSUME ParserInv PROVE ParserFindsEachOnce
    OBVIOUS
  <2> DEFINE seen == {answer[i] : i \in 1..whole} \union ToSet(torn)
  <2>1. Heard \in Seq(Pieces) /\ ToSet(Heard) = seen
    BY HeardIs DEF ParserInv
  <2>2. stage = "raised" => \E i \in 1..whole : answer[i].says = "broken"
    BY TornIsNotMalformed DEF ParserInv
  <2>3. ASSUME stage = "parsed"
        PROVE  /\ IsInjective(tool_calls)
               /\ ToSet(tool_calls) = {p.says : p \in seen} \intersect Names
               /\ {p \in seen : ~Cut(p)} \subseteq ToSet(text) /\ ToSet(text) \subseteq seen
    <3>1. tool_calls = ToolCalls(Heard) /\ text = Text(Heard)
      BY <2>3 DEF ParserInv
    <3> HIDE DEF seen
    <3> QED
      BY <2>1, <3>1, ParsedRight
  <2> QED
    BY <2>2, <2>3 DEF ParserFindsEachOnce
<1> QED
  BY <1>1, <1>2, ParserStep, PTL DEF ParserSpec
=============================================================================

---------------------------- MODULE ModelClient ----------------------------
(* The language model client: which backend a call goes to, the provider's   *)
(* two token buckets, the local model's threads, the race of both backends,  *)
(* and callers that give up.  A branch that parses an answer and raises over  *)
(* it (AnswerParser) has failed like one that was not answered.              *)
EXTENDS Naturals, FiniteSetsExt

CONSTANTS
  Calls,          \* the callers; each makes one call after the other
  Costs,          \* the estimated tokens of requests
  RequestCap,     \* requests of a minute: capacity of the first bucket
  TokenCap,       \* tokens of a minute: capacity of the second bucket
  RequestRate, TokenRate,  \* refill of each bucket in a unit of time
  None

ASSUME ClientAssumption ==
  /\ Costs \subseteq Nat \ {0}
  /\ RequestCap \in Nat \ {0} /\ TokenCap \in Nat \ {0}
  /\ RequestRate \in Nat \ {0} /\ TokenRate \in Nat \ {0}

VARIABLES
  cost,       \* estimated tokens of each call's request
  ready,      \* the local model could be loaded
  external,   \* a provider is configured
  local,      \* calls go to the local model first (_use_local_backend)
  phase,      \* "new", "single", "racing", "grace", "done" or "cut" for each call
  loc,        \* its local branch: "none", "run", "ok", "err" or "cancelled"
  ext,        \* its external branch, which also passes the two buckets
  out,        \* what the call returned: a backend, or "error"
  threads,    \* calls whose generation runs in a thread
  reqs, toks, \* levels of the buckets
  asked, used \* history: requests and tokens handed out less what has refilled

config  == <<ready, external, local>>
buckets == <<reqs, toks, asked, used>>
vars    == <<config, cost, phase, loc, ext, out, threads, buckets>>

\* The settings name a provider, or do not, and prefer one backend.
Configured == external \in BOOLEAN /\ local \in BOOLEAN

\* The model is loaded once; when that fails, the error is kept.
Loaded == ready \in BOOLEAN

\* A bucket begins full.
Full == reqs = RequestCap /\ toks = TokenCap /\ asked = 0 /\ used = 0

Init ==
  /\ cost \in [Calls -> Costs]
  /\ Configured /\ Loaded /\ Full
  /\ phase = [c \in Calls |-> "new"]
  /\ loc = [c \in Calls |-> "none"] /\ ext = [c \in Calls |-> "none"]
  /\ out = [c \in Calls |-> None]
  /\ threads = {}
-----------------------------------------------------------------------------
(* Where a call goes *)

Waiting == {"requests", "tokens", "post"}

\* A stressful, long or large request goes to both.
Dual(stress) == stress /\ ready /\ external

\* What generate_brain does with a call, by the prompt's stress.
Brain(stress) ==
  CASE Dual(stress)                  -> "hybrid"
    [] local /\ ~ready /\ external     -> "external"
    [] local /\ (ready \/ ~external)   -> "local"
    [] ~local /\ external              -> "external"
    [] OTHER                           -> "error"

\* generate_with_backend, asked for the local model or for the provider.
Backend(name) ==
  CASE name = "local" /\ ready             -> "local"
    [] name = "local" /\ ~ready /\ external -> "external"
    [] name = "local"                      -> "error"
    [] name = "external" /\ external       -> "external"
    [] name = "external"                   -> "error"

\* The tool call_external_llm does not look whether a provider is configured
\* before it takes its tokens.
Routes == {Brain(TRUE), Brain(FALSE), Backend("local"), Backend("external"), "external"}

\* One backend is asked.  A local model that is not ready is an error.
Start(c, route) ==
  /\ phase[c] = "new" /\ route # "hybrid"
  /\ phase' = [phase EXCEPT ![c] = "single"]
  /\ loc' = [loc EXCEPT ![c] = CASE route = "local" /\ ready        -> "run"
                                 [] route \in {"local", "error"} -> "err"
                                 [] OTHER                        -> "none"]
  /\ ext' = [ext EXCEPT ![c] = IF route = "external" THEN "requests" ELSE "none"]
  /\ threads' = IF route = "local" /\ ready THEN threads \union {c} ELSE threads
  /\ UNCHANGED <<config, cost, out, buckets>>

\* Both are asked, each in a task of its own.
StartRace(c) ==
  /\ phase[c] = "new" /\ "hybrid" \in Routes
  /\ phase' = [phase EXCEPT ![c] = "racing"]
  /\ loc' = [loc EXCEPT ![c] = "run"] /\ ext' = [ext EXCEPT ![c] = "requests"]
  /\ threads' = threads \union {c}
  /\ UNCHANGED <<config, cost, out, buckets>>
-----------------------------------------------------------------------------
(* The buckets.  They are refilled when they are looked at, up to their      *)
(* capacity; what is missing is waited for by polling.                       *)

\* Fault: idle time is credited without limit.
CappedNot(level, cap) == level

Capped(level, cap) == Min({level, cap})

Drained(n, rate) == IF n > rate THEN n - rate ELSE 0

Tick ==
  /\ reqs' = Capped(reqs + RequestRate, RequestCap)
  /\ toks' = Capped(toks + TokenRate, TokenCap)
  /\ asked' = Drained(asked, RequestRate) /\ used' = Drained(used, TokenRate)
  /\ UNCHANGED <<config, cost, phase, loc, ext, out, threads>>

AcquireRequest(c) ==
  /\ ext[c] = "requests" /\ reqs >= 1
  /\ reqs' = reqs - 1 /\ asked' = asked + 1
  /\ ext' = [ext EXCEPT ![c] = "tokens"]
  /\ UNCHANGED <<config, cost, phase, loc, out, threads, toks, used>>

\* Fault: a full bucket does not serve a request of its size.
EnoughLeft(c) == toks > cost[c]

Enough(c) == toks >= cost[c]

\* The request was taken first; it is not given back while tokens are missing.
AcquireTokens(c) ==
  /\ ext[c] = "tokens" /\ Enough(c)
  /\ toks' = toks - cost[c] /\ used' = used + cost[c]
  /\ ext' = [ext EXCEPT ![c] = "post"]
  /\ UNCHANGED <<config, cost, phase, loc, out, threads, reqs, asked>>

\* The provider answers, fails, or the request times out.
Post(c) ==
  /\ ext[c] = "post"
  /\ \E result \in {"ok", "err"} :
       /\ result = "ok" => external
       /\ ext' = [ext EXCEPT ![c] = result]
  /\ UNCHANGED <<config, cost, phase, loc, out, threads, buckets>>

\* The thread's generation returns or raises.  Nobody can stop it earlier.
Generated(c) ==
  /\ c \in threads
  /\ threads' = threads \ {c}
  /\ \E result \in {"ok", "err"} :
       loc' = IF loc[c] = "run" THEN [loc EXCEPT ![c] = result] ELSE loc
  /\ UNCHANGED <<config, cost, phase, ext, out, buckets>>
-----------------------------------------------------------------------------
(* The race *)

Oks(c)     == {b \in {"local", "external"} : (IF b = "local" THEN loc ELSE ext)[c] = "ok"}
Pending(c) == loc[c] = "run" \/ ext[c] \in Waiting

Ended(c, result) ==
  /\ out' = [out EXCEPT ![c] = result] /\ phase' = [phase EXCEPT ![c] = "done"]

\* Fault: the slower branch is left alone.
Abandoned(c) == UNCHANGED <<loc, ext>>

\* The threads of cancelled branches run on.
Cancelled(c) ==
  /\ loc' = [loc EXCEPT ![c] = IF @ = "run" THEN "cancelled" ELSE @]
  /\ ext' = [ext EXCEPT ![c] = IF @ \in Waiting THEN "cancelled" ELSE @]

Return(c) ==
  /\ phase[c] = "single" /\ ~Pending(c)
  /\ \/ \E b \in Oks(c) : Ended(c, b)
     \/ Oks(c) = {} /\ Ended(c, "error")
  /\ UNCHANGED <<config, cost, loc, ext, threads, buckets>>

\* Fault: the first branch to finish decides, also by its error.
FirstOnly(c) == ~(loc[c] = "run" /\ ext[c] \in Waiting)

\* All branches have raised.
NoneLeft(c) == ~Pending(c)

\* A branch has finished: with an answer the other one gets a little longer;
\* with an error the other one is waited for.
Wake(c) ==
  /\ phase[c] = "racing"
  /\ \/ /\ Oks(c) # {} /\ Pending(c)
        /\ phase' = [phase EXCEPT ![c] = "grace"] /\ UNCHANGED out
     \/ ~Pending(c) /\ \E b \in Oks(c) : Ended(c, b)
     \/ Oks(c) = {} /\ NoneLeft(c) /\ Ended(c, "error")
  /\ UNCHANGED <<config, cost, loc, ext, threads, buckets>>

\* The second branch is in, or its time is over and it is cancelled.
GraceEnds(c) ==
  /\ phase[c] = "grace"
  /\ \E b \in Oks(c) : Ended(c, b)
  /\ Cancelled(c)
  /\ UNCHANGED <<config, cost, threads, buckets>>

\* The caller's time-out.  A single branch goes with its caller; the tasks of a
\* race do not: they take tokens and ask the provider for nobody.
GiveUp(c) ==
  /\ phase[c] \in {"single", "racing", "grace"}
  /\ phase' = [phase EXCEPT ![c] = "cut"]
  /\ IF phase[c] = "single" THEN Cancelled(c) ELSE UNCHANGED <<loc, ext>>
  /\ UNCHANGED <<config, cost, out, threads, buckets>>
\* The next call of a caller, when nothing of the last one is under way.
Again(c) ==
  /\ phase[c] \in {"done", "cut"} /\ ~Pending(c) /\ c \notin threads
  /\ phase' = [phase EXCEPT ![c] = "new"]
  /\ \E k \in Costs : cost' = [cost EXCEPT ![c] = k]
  /\ loc' = [loc EXCEPT ![c] = "none"] /\ ext' = [ext EXCEPT ![c] = "none"]
  /\ out' = [out EXCEPT ![c] = None]
  /\ UNCHANGED <<config, threads, buckets>>
-----------------------------------------------------------------------------
CallStep(c) == \/ AcquireRequest(c) \/ AcquireTokens(c) \/ Post(c) \/ Generated(c)
               \/ Return(c) \/ Wake(c) \/ GraceEnds(c)

Next ==
  \/ \E c \in Calls : \/ \E route \in Routes : Start(c, route)
                     \/ StartRace(c) \/ CallStep(c) \/ GiveUp(c) \/ Again(c)
  \/ Tick

Spec     == Init /\ [][Next]_vars
Fairness == /\ WF_vars(Tick)
            /\ \A c \in Calls : /\ WF_vars(AcquireRequest(c)) /\ WF_vars(AcquireTokens(c))
                                /\ WF_vars(Post(c)) /\ WF_vars(Generated(c))
                                /\ WF_vars(Return(c)) /\ WF_vars(Wake(c)) /\ WF_vars(GraceEnds(c))
FairSpec == Spec /\ Fairness
-----------------------------------------------------------------------------
(* Properties *)

\* In every stretch of time, the provider is asked for no more requests and
\* tokens than the buckets' capacity and what refills in that time.
RateLimited == asked <= RequestCap /\ used <= TokenCap

\* A call that raced both backends fails only when both have failed, and
\* returns a backend's answer only when that backend answered.
RaceTakesAnAnswer ==
  \A c \in Calls :
    phase[c] = "done" /\ loc[c] # "none" /\ ext[c] # "none" =>
      IF out[c] = "error" THEN loc[c] = "err" /\ ext[c] = "err" ELSE out[c] \in Oks(c)

\* A call that has returned has no branch left that would take tokens or ask
\* the provider.
ReturnedIsOver == \A c \in Calls : phase[c] = "done" => ~Pending(c)

\* A bucket serves whoever looks first when it has enough: there is no queue,
\* and small requests can keep it from ever having enough for a larger one.
Takes(d) == AcquireRequest(d) \/ AcquireTokens(d)
LeftAlone(c) == <>[][\A d \in Calls \ {c} : ~Takes(d)]_vars

\* A call whose estimate fits into the token bucket ends, unless others go on
\* taking from the buckets for ever; callers that have given up, and requests
\* that never fit and poll for ever, do not hold it up.
CallsEnd ==
  \A c \in Calls :
    LeftAlone(c) => (cost[c] <= TokenCap /\ phase[c] \in {"single", "racing"}
                       ~> phase[c] \in {"done", "cut"})
=============================================================================

-------------------------- MODULE MCTaskConductor --------------------------
(* Constant values for model-checking TaskConductor and its refinement of  *)
(* JobService.                                                             *)
EXTENDS ConductorService, TLC

CONSTANTS a, b, c, s, t

\* a and b share a session; c, the only channel message, is the most urgent.
MCSessionOf == (a :> s @@ b :> s @@ c :> t)
MCPriority  == (a :> 0 @@ b :> 0 @@ c :> 5)

\* One session for all, where sessions play no part.
MCOneSession == [j \in Jobs |-> s]

\* a and b agree in session, priority and kind.
MCSymmetry == Permutations({a, b})
=============================================================================

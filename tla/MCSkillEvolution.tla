-------------------------- MODULE MCSkillEvolution --------------------------
(* Constant values for model-checking SkillEvolution.                      *)
EXTENDS SkillEvolution, TLC

CONSTANT u1

\* A failing and a passing test, the first better than a skill without a rate.
MCScores == {24, 94}
=============================================================================

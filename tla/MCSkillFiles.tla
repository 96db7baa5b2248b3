---------------------------- MODULE MCSkillFiles ----------------------------
(* Constant values for model-checking SkillFiles.                          *)
EXTENDS SkillFiles, TLC

CONSTANTS o1, o2

\* Calls are alike.
MCSymmetry == Permutations({o1, o2})
=============================================================================

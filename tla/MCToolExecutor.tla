--------------------------- MODULE MCToolExecutor ---------------------------
(* Values for the model checker: all tasks belong to one session.          *)
EXTENDS ToolExecutor, TLC

MCSessionOf == [t \in Tasks |-> CHOOSE s \in Sessions : TRUE]

\* One task lacks the permission for one of the calls.
MCNotApproved == {<<CHOOSE t \in Tasks : TRUE, CHOOSE c \in Calls : TRUE>>}

\* The workers of the pool are alike.
MCSymmetry == Permutations(Workers)
=============================================================================

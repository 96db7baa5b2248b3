--------------------------- MODULE MCModelClient ---------------------------
(* Constant values for model-checking ModelClient and AnswerParser in one    *)
(* run.  The parser reads nothing of the client and leaves it alone, so the   *)
(* answers are tried in one of the client's initial states only.             *)
EXTENDS ModelClient, AnswerParser, TLC

\* One request fits well into a bucket of two tokens, one just, one never.
MCCosts == 1..3

\* All answers of up to three pieces, each cut at every place.
MCPieces  == Pieces \ [form : {"tag", "fence", "bare"}, says : {"words"}]
MCAnswers == UNION {[1..n -> MCPieces] : n \in 0..3}

\* Nothing, the beginning of plain text, or of a payload.
MCResidues == {<<>>} \union {<<p>> : p \in Plain}
                \union {<<p, b>> : p \in Plain, b \in Bare \intersect MCPieces}

AtRest == ~ready /\ ~external /\ ~local /\ \A c \in Calls : phase[c] = "new" /\ cost[c] = 1

MCInit == Init /\ ParserInit /\ (answer = <<>> \/ AtRest)
MCNext == \/ Next /\ answer = <<>> /\ stage = "given" /\ UNCHANGED parserVars
          \/ AtRest /\ ParserNext /\ UNCHANGED vars
MCSpec == MCInit /\ [][MCNext]_<<vars, parserVars>> /\ Fairness
=============================================================================

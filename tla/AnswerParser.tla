---------------------------- MODULE AnswerParser ----------------------------
(* The parser that finds tool calls in what a model has answered             *)
(* (ToolCallParser).  An answer is a sequence of pieces: plain text, or a     *)
(* payload in a <tool_call> tag, in a fence, or bare.  A payload makes a      *)
(* call, is JSON that makes none, is anything else, or is XML of a tool call  *)
(* that is not well-formed.  The parser sees the beginning of an answer only, *)
(* and the cut may leave a part of a piece.                                   *)
EXTENDS Naturals, SequencesExt

CONSTANTS
  Names,     \* tool calls, by name and arguments
  Answers,   \* what a model may answer
  Residues   \* what a cut may leave of the piece that it goes through

Plain  == [form : {"plain"}, says : {"words"}]
Bare   == [form : {"bare"}, says : Names \union {"words", "json"}]
Framed == [form : {"tag", "fence"}, says : Names \union {"words", "json", "broken"}]
Pieces == Plain \union Bare \union Framed

\* A tag or a fence that is cut is not closed, so it is none.  The JSON in it may
\* be complete, or hold an object that reads as a call of its own.
ASSUME AnswersAssumption ==
  /\ Answers \subseteq Seq(Pieces) /\ Residues \subseteq Seq(Plain \union Bare)
  /\ {"words", "json", "broken"} \intersect Names = {}

VARIABLES
  answer,      \* what the model has answered
  whole,       \* how many pieces of it the parser sees whole
  torn,        \* what it sees of the next one
  stage,       \* "given", "cut", "parsed" or "raised"
  tool_calls,  \* the calls that were found
  text         \* what is left of the answer without them

parserVars == <<answer, whole, torn, stage, tool_calls, text>>

ParserInit ==
  /\ answer \in Answers
  /\ whole = 0 /\ torn = <<>> /\ stage = "given"
  /\ tool_calls = <<>> /\ text = <<>>
-----------------------------------------------------------------------------
\* What a sequence has at some places, in its order: up to each place, and in all.
KeptTo(s, places) ==
  LET kept[i \in 0..Len(s)] ==
        IF i = 0 THEN <<>>
        ELSE IF i \in places THEN Append(kept[i - 1], s[i]) ELSE kept[i - 1]
  IN kept
Kept(s, places) == KeptTo(s, places)[Len(s)]

\* The calls of all pieces that a pass looks at, in their order.
Found(a, forms) ==
  LET hits == Kept(a, {i \in DOMAIN a : a[i].form \in forms /\ a[i].says \in Names})
  IN [i \in DOMAIN hits |-> hits[i].says]

\* Fault: what two passes find is kept twice.
KeepAll(calls) == calls

\* The first of equal calls is kept.
Dedupe(calls) ==
  Kept(calls, {i \in DOMAIN calls : \A j \in 1..i - 1 : calls[j] # calls[i]})

\* Tags, then fences, then a scan for JSON, which sees tags and fences again.
ToolCalls(a) ==
  Dedupe(Found(a, {"tag"}) \o Found(a, {"fence"}) \o Found(a, {"tag", "fence", "bare"}))

\* XML that is not well-formed raises an error that is no ValueError.
Malformed(a) == \E i \in DOMAIN a : a[i].says = "broken"

\* A tag is cut from the text whatever it holds; the others when they make a
\* call.  Spans within spans are skipped.  An answer that is cut down to
\* nothing keeps its text.
Cut(p) == p.form = "tag" \/ (p.form \in {"fence", "bare"} /\ p.says \in Names)
Text(a) == LET rest == Kept(a, {i \in DOMAIN a : ~Cut(a[i])})
           IN IF rest = <<>> THEN a ELSE rest
-----------------------------------------------------------------------------
\* What may be left of a piece.
Torn(p) == {r \in Residues : p \in Plain => r \in Seq(Plain)}

\* The answer is as long as allowed, or only its beginning is.
TakeBeginning ==
  /\ stage = "given"
  /\ \/ whole' = Len(answer) /\ torn' = <<>>
     \/ \E n \in 0..Len(answer) - 1 : whole' = n /\ torn' \in Torn(answer[n + 1])
  /\ stage' = "cut"
  /\ UNCHANGED <<answer, tool_calls, text>>

Heard == SubSeq(answer, 1, whole) \o torn

\* The first malformed payload ends the parser; what it has found is lost.
Parse ==
  /\ stage = "cut"
  /\ IF Malformed(Heard)
       THEN stage' = "raised" /\ UNCHANGED <<tool_calls, text>>
       ELSE stage' = "parsed" /\ tool_calls' = ToolCalls(Heard) /\ text' = Text(Heard)
  /\ UNCHANGED <<answer, whole, torn>>

ParserNext == TakeBeginning \/ Parse
ParserSpec == ParserInit /\ [][ParserNext]_parserVars
-----------------------------------------------------------------------------
(* Properties *)

\* Of the beginning that is parsed (local_inference.py:54), every call is found
\* once however often it is written, also when the cut goes through its tag, and
\* no other call; text that makes none and is in no tag is kept, and nothing is
\* added.  The parser fails only for a payload that is not well-formed there.
ParserFindsEachOnce ==
  LET seen == {answer[i] : i \in 1..whole} \union ToSet(torn)
  IN /\ stage = "parsed" =>
          /\ IsInjective(tool_calls)
          /\ ToSet(tool_calls) = {p.says : p \in seen} \intersect Names
          /\ {p \in seen : ~Cut(p)} \subseteq ToSet(text) /\ ToSet(text) \subseteq seen
     /\ stage = "raised" => \E i \in 1..whole : answer[i].says = "broken"

\* "Keep the XML support deliberately forgiving so model outputs don't need a
\* rigid schema to be actionable" (local_inference.py:124): one malformed payload
\* does not cost the answer its other calls and its text.
ForgivesPayloads == stage # "raised"
=============================================================================

--------------------------- MODULE MCExplainStream ---------------------------
(***************************************************************************)
(* Three lines of code and answers that quote them: in order or not, a     *)
(* line that occurs twice, an indented one (whose letter the stateful      *)
(* expression may miss), one that does not occur and one without letters.  *)
(***************************************************************************)
EXTENDS ExplainStream

AnswerLine(letters, where) ==
    [is |-> "line", letters |-> letters, where |-> where]

MCAnswerLines ==
    {AnswerLine({0}, {1, 3}), AnswerLine({0}, {2}), AnswerLine({2}, {3}),
     AnswerLine({0}, {}), AnswerLine({}, {2})}
=============================================================================

--------------------------- MODULE MCAnswerContext ---------------------------
(***************************************************************************)
(* An instance of AnswerContext for TLC: four chunks, one of them larger   *)
(* than the budget.                                                        *)
(***************************************************************************)
EXTENDS AnswerContext

CONSTANTS small, middle, large, huge

MCTokens == [c \in Chunks |->
  IF c = small THEN 1 ELSE IF c = middle THEN 2 ELSE IF c = large THEN 3 ELSE 6]
=============================================================================

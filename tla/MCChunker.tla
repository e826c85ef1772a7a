------------------------------ MODULE MCChunker ------------------------------
(***************************************************************************)
(* An instance of Chunker for TLC: a word may be longer than a chunk, and  *)
(* each of the four separators may leave a short piece behind.             *)
(***************************************************************************)
EXTENDS Chunker

CONSTANT MaxTokens  \* bound: tokens of a short text

\* A space goes into the token of the word after it.
MCSepTokens == <<1, 1, 1, 0, 0>>

MCText(before) ==
  LET at[i \in DOMAIN before] ==
        IF i = 1 THEN 1 ELSE at[i - 1] + SepTokens[before[i]] + 1
  IN [before |-> before, at |-> [i \in DOMAIN before |-> at[i]]]

\* Few tokens, with every arrangement of separators.
ShortTexts ==
  {MCText(<<Within>> \o rest) :
     rest \in UNION {[1 .. n -> Separators \cup {Within}] : n \in 0 .. MaxTokens - 1}}

\* Seven words of one token between two that are longer than a chunk, with any
\* separators above the space: the most short pieces side by side.
LongTexts ==
  LET long == [i \in 1 .. ChunkSize |-> Within]
  IN {MCText(<<Within>> \o long \o <<4>> \o s \o <<4>> \o long) : s \in [1 .. 6 -> 1 .. 3]}

\* A word that is cut into two full chunks.
LongWord == MCText([i \in 1 .. 2 * ChunkSize |-> Within])

MCTexts == {MCText(<<>>), LongWord} \cup ShortTexts \cup LongTexts
=============================================================================

---------------------------- MODULE AnswerContext ----------------------------
(***************************************************************************)
(* From a stored question to the sources that the model sees and the       *)
(* citations that the client gets: the hybrid search, the budget of the    *)
(* prompt, the answer.  The rest of the query path is QueryPath.           *)
(*                                                                         *)
(* A chunk is known by its id.  Distances and text ranks are abstracted to *)
(* the orders they give, which are arbitrary; the fused scores are the     *)
(* code's fractions, compared by cross-multiplication.                     *)
(***************************************************************************)
EXTENDS Naturals, Sequences, FiniteSets, Functions

CONSTANTS
  Chunks,              \* ids of chunks
  Tokens,              \* of each chunk rendered as a source block
  Join,                \* tokens of the blank line between two blocks
  VectorCandidates,    \* RETRIEVAL_VECTOR_CANDIDATES
  FulltextCandidates,  \* RETRIEVAL_FULLTEXT_CANDIDATES
  TopK,                \* RETRIEVAL_TOP_K
  Budget               \* _CONTEXT_TOKEN_BUDGET

ASSUME ContextAssumption ==
  /\ IsFiniteSet(Chunks)
  /\ Tokens \in [Chunks -> Nat]
  /\ VectorCandidates \in Nat /\ FulltextCandidates \in Nat
  /\ TopK \in Nat /\ Budget \in Nat /\ Join \in Nat

VARIABLES
  pc,         \* "search", "fit", "answer", "done"
  vector,     \* vector_results, best first
  fulltext,   \* fulltext_results, best first
  retrieved,  \* what hybrid_search returns
  next,       \* position of the loop of _fit_chunks_to_budget
  accepted,   \* the chunks of the prompt
  tokens,     \* running_tokens
  status,     \* response_status
  citations   \* chunk ids of the response's citations

vars == <<pc, vector, fulltext, retrieved, next, accepted, tokens, status, citations>>

Least(a, b) == IF a < b THEN a ELSE b

\* The lists of n different members of S.
Lists(S, n) == {s \in [1 .. n -> S] : IsInjective(s)}

Precedes(s, c, d) == \E i, j \in DOMAIN s : i < j /\ s[i] = c /\ s[j] = d

Init ==
  /\ pc = "search"
  /\ vector = <<>> /\ fulltext = <<>> /\ retrieved = <<>>
  /\ next = 1 /\ accepted = <<>> /\ tokens = 0
  /\ status = "none" /\ citations = <<>>

-----------------------------------------------------------------------------
\* Plausible bugs, each in place of the definition it is named after when the
\* properties are put to the test.

\* A rank that is NULL counts as 0.
RankOrZero(c, list, candidates) ==
  IF c \in Range(list) THEN CHOOSE i \in DOMAIN list : list[i] = c ELSE 0

\* The first chunk has to fit, too.
FitsStrictly(c) == tokens + Tokens[c] <= Budget

\* The size of a skipped chunk is counted.
SkipCounts ==
  /\ pc = "fit" /\ next <= Len(retrieved)
  /\ tokens + Tokens[retrieved[next]] > Budget /\ accepted # <<>>
  /\ next' = next + 1
  /\ tokens' = tokens + Tokens[retrieved[next]]
  /\ UNCHANGED <<pc, vector, fulltext, retrieved, accepted, status, citations>>

\* The chunk is taken before its size is looked at.
FitsLate(c) == accepted = <<>> \/ tokens <= Budget

-----------------------------------------------------------------------------
\* Reciprocal rank fusion.

\* The rank in a list, or the fallback of one that is not in it.
Rank(c, list, candidates) ==
  IF c \in Range(list) THEN CHOOSE i \in DOMAIN list : list[i] = c ELSE candidates + 1

\* 1/(60 + r1) + 1/(60 + r2) is greater for c than for d.
Outscores(c, d, v, f) ==
  LET c1 == 60 + Rank(c, v, VectorCandidates)
      c2 == 60 + Rank(c, f, FulltextCandidates)
      d1 == 60 + Rank(d, v, VectorCandidates)
      d2 == 60 + Rank(d, f, FulltextCandidates)
  IN (c1 + c2) * d1 * d2 > (d1 + d2) * c1 * c2

\* The first TopK of the full outer join by score; equal scores in any order.
Fused(v, f) ==
  LET found == Range(v) \cup Range(f)
  IN {s \in Lists(found, Least(TopK, Cardinality(found))) :
        /\ \A i, j \in DOMAIN s : i < j => ~ Outscores(s[j], s[i], v, f)
        /\ \A c \in found \ Range(s), i \in DOMAIN s : ~ Outscores(c, s[i], v, f)}

\* Any chunks may belong to active documents, and the question's words may
\* match any of these.
Search ==
  /\ pc = "search"
  /\ \E active \in SUBSET Chunks :
       /\ vector' \in Lists(active, Least(VectorCandidates, Cardinality(active)))
       /\ \E n \in 0 .. Least(FulltextCandidates, Cardinality(active)) :
            fulltext' \in Lists(active, n)
  /\ retrieved' \in Fused(vector', fulltext')
  /\ IF retrieved' = <<>>
       THEN pc' = "done" /\ status' = "no_context"
       ELSE pc' = "fit" /\ UNCHANGED status
  /\ UNCHANGED <<next, accepted, tokens, citations>>

-----------------------------------------------------------------------------
\* The prompt.

Fits(c) == tokens + Tokens[c] <= Budget \/ accepted = <<>>

Accept ==
  /\ pc = "fit" /\ next <= Len(retrieved)
  /\ Fits(retrieved[next])
  /\ accepted' = Append(accepted, retrieved[next])
  /\ tokens' = tokens + Tokens[retrieved[next]]
  /\ next' = next + 1
  /\ UNCHANGED <<pc, vector, fulltext, retrieved, status, citations>>

\* The loop goes on with the next chunk, which may be a smaller one.
Skip ==
  /\ pc = "fit" /\ next <= Len(retrieved)
  /\ ~ Fits(retrieved[next])
  /\ next' = next + 1
  /\ UNCHANGED <<pc, vector, fulltext, retrieved, accepted, tokens, status, citations>>

BuildPrompt ==
  /\ pc = "fit" /\ next > Len(retrieved)
  /\ pc' = "answer"
  /\ UNCHANGED <<vector, fulltext, retrieved, next, accepted, tokens, status, citations>>

\* The model answers, declines, or its output does not parse.  An answer cites
\* all that was retrieved.
GenerateAnswer ==
  /\ pc = "answer"
  /\ \/ status' = "answered" /\ citations' = retrieved
     \/ status' \in {"no_answer", "llm_failed"} /\ UNCHANGED citations
  /\ pc' = "done"
  /\ UNCHANGED <<vector, fulltext, retrieved, next, accepted, tokens>>

Terminated == pc = "done" /\ UNCHANGED vars

Next == Search \/ Accept \/ Skip \/ BuildPrompt \/ GenerateAnswer \/ Terminated

Spec == Init /\ [][Next]_vars

-----------------------------------------------------------------------------
\* Properties.

\* Every variable keeps its shape, and no list names a chunk twice.
TypeOK ==
  /\ pc \in {"search", "fit", "answer", "done"}
  /\ \A list \in {vector, fulltext, retrieved, accepted, citations} :
       list \in Seq(Chunks) /\ IsInjective(list)
  /\ next \in 1 .. Len(retrieved) + 1
  /\ tokens \in Nat
  /\ status \in {"none", "no_context", "answered", "no_answer", "llm_failed"}

\* c is ahead of d wherever d was found, and d was not found where c was not.
Ahead(c, d, list) == d \in Range(list) => Precedes(list, c, d)

\* Fusion never turns the judgement of both searches around: a chunk that is
\* ahead of a retrieved one in each list is retrieved, and ahead of it.  This
\* is about the fallback rank of a chunk that one of the searches missed.
FusionKeepsAgreement ==
  \A c, d \in Range(vector) \cup Range(fulltext) :
    /\ pc # "search" /\ d \in Range(retrieved) /\ c # d
    /\ Ahead(c, d, vector) /\ Ahead(c, d, fulltext)
    => Precedes(retrieved, c, d)

\* Tokens of the chunks of a list.
TokensOf(s) ==
  LET sum[n \in 0 .. Len(s)] == IF n = 0 THEN 0 ELSE sum[n - 1] + Tokens[s[n]]
  IN sum[Len(s)]

\* Tokens of the sources as they are joined in the prompt.
Rendered(s) == TokensOf(s) + (IF s = <<>> THEN 0 ELSE (Len(s) - 1) * Join)

\* As the sources are joined in the prompt, they exceed the budget by less than
\* TopK blank lines, which the loop does not count, unless there is only one,
\* which may be too large by itself: the settings alone bound the prompt.
PromptFits ==
  Len(accepted) > 1 => Rendered(accepted) <= Budget + (TopK - 1) * Join

\* A chunk is left out only for better ones: those of the prompt that rank
\* before it come first there, and it does not fit beside them.
OnlyOverflowDropped ==
  \A i \in 1 .. next - 1 :
    retrieved[i] \notin Range(accepted) =>
      \E n \in 0 .. Len(accepted) :
        /\ \A k \in DOMAIN accepted : k <= n <=> Precedes(retrieved, accepted[k], retrieved[i])
        /\ TokensOf(SubSeq(accepted, 1, n)) + Tokens[retrieved[i]] > Budget

\* No answer without sources: the best chunk is in the prompt, whatever its
\* size, and each source of the prompt is cited, in the order the model saw.
AnswerIsGrounded ==
  status = "answered" =>
    /\ accepted # <<>> /\ accepted[1] = citations[1]
    /\ \A i, j \in DOMAIN accepted : i < j => Precedes(citations, accepted[i], accepted[j])
=============================================================================

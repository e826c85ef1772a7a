------------------------ MODULE AnswerContext_proofs ------------------------
(***************************************************************************)
(* Fusion keeps what both searches agree on, the prompt keeps to its       *)
(* budget and leaves out nothing that fits, and an answer is grounded in   *)
(* sources that it cites: for every set of chunks, every size of the       *)
(* candidate lists and every budget.                                       *)
(***************************************************************************)
EXTENDS AnswerContext, FiniteSetTheorems, WellFoundedInduction, TLAPS

ListOK(s) == s \in Seq(Chunks) /\ IsInjective(s)

\* The prompt is made of retrieved chunks before the current position, in
\* their order, and the first of them is in it.
PromptFromRetrieved ==
  /\ \A i \in DOMAIN accepted : \E k \in 1 .. next - 1 : retrieved[k] = accepted[i]
  /\ \A i, j \in DOMAIN accepted : i < j => Precedes(retrieved, accepted[i], accepted[j])
  /\ next > 1 => accepted # <<>> /\ accepted[1] = retrieved[1]

\* What is known at each place.
Placed ==
  /\ pc = "search" => retrieved = <<>> /\ next = 1 /\ accepted = <<>>
  /\ pc # "search" =>
       /\ retrieved \in Fused(vector, fulltext)
       /\ Len(vector) <= VectorCandidates /\ Len(fulltext) <= FulltextCandidates
  /\ pc = "fit" => retrieved # <<>>
  /\ pc = "answer" => next > 1
  /\ status = "answered" => pc = "done" /\ citations = retrieved /\ next > 1

IInv == TypeOK /\ PromptFromRetrieved /\ Placed

\* The running count is that of the prompt, and keeps to the budget from the
\* second chunk on; the prompt has one chunk at most of each turn.
Counted ==
  /\ tokens = TokensOf(accepted)
  /\ Len(accepted) < next
  /\ Len(accepted) > 1 => tokens <= Budget

-----------------------------------------------------------------------------
\* Lists and ranks.

\* The list invariants, list by list.
LEMMA ListsOK ==
  TypeOK <=> /\ pc \in {"search", "fit", "answer", "done"}
             /\ ListOK(vector) /\ ListOK(fulltext) /\ ListOK(retrieved)
             /\ ListOK(accepted) /\ ListOK(citations)
             /\ next \in 1 .. Len(retrieved) + 1
             /\ tokens \in Nat
             /\ status \in {"none", "no_context", "answered", "no_answer", "llm_failed"}
  BY DEF TypeOK, ListOK

\* Lists over a set of chunks are lists of chunks.
LEMMA ListsAreLists ==
  ASSUME NEW S \in SUBSET Chunks, NEW n \in Nat, NEW s \in Lists(S, n)
  PROVE  ListOK(s) /\ Range(s) \subseteq S /\ Len(s) = n
<1>1. s \in [1 .. n -> S] /\ IsInjective(s)
  BY DEF Lists
<1>2. s \in Seq(S) /\ Len(s) = n
  BY <1>1
<1> QED BY <1>1, <1>2 DEF ListOK, Range

\* The size of a list that is cut at a limit.
LEMMA LeastCard ==
  ASSUME NEW S \in SUBSET Chunks, NEW k \in Nat
  PROVE  Least(k, Cardinality(S)) \in Nat /\ Least(k, Cardinality(S)) <= k
<1>1. IsFiniteSet(S)
  BY ContextAssumption, FS_Subset
<1> QED BY <1>1, FS_CardinalityType DEF Least

\* The rank of a chunk is its position, if it has one.
LEMMA RankIsPosition ==
  ASSUME NEW s, ListOK(s), NEW i \in DOMAIN s, NEW k \in Nat
  PROVE  Rank(s[i], s, k) = i
<1>1. s[i] \in Range(s)
  BY DEF Range
<1>2. \A j \in DOMAIN s : s[j] = s[i] => j = i
  BY DEF ListOK, IsInjective
<1> QED BY <1>1, <1>2 DEF Rank

\* The fused list is a list of what was found, no longer than the limit.
LEMMA FusedIsList ==
  ASSUME NEW v, NEW f, ListOK(v), ListOK(f), NEW s \in Fused(v, f)
  PROVE  ListOK(s) /\ Range(s) \subseteq Range(v) \cup Range(f) /\ Len(s) <= TopK
<1> DEFINE found == Range(v) \cup Range(f)
           n == Least(TopK, Cardinality(found))
<1>1. found \in SUBSET Chunks
  BY DEF ListOK, Range
<1>2. s \in Lists(found, n)
  BY DEF Fused
<1>3. n \in Nat /\ n <= TopK
  BY <1>1, LeastCard, ContextAssumption
<1> HIDE DEF n
<1>4. ListOK(s) /\ Range(s) \subseteq found /\ Len(s) = n
  BY <1>1, <1>2, <1>3, ListsAreLists
<1> QED BY <1>3, <1>4

-----------------------------------------------------------------------------
\* Fusion.

\* A smaller first rank and a second that is no greater make a greater score.
LEMMA SmallerRanksOutscore ==
  ASSUME NEW c1 \in Nat, NEW c2 \in Nat, NEW d1 \in Nat, NEW d2 \in Nat,
         c1 > 0, c2 > 0, d1 > 0, d2 > 0, c1 < d1, c2 <= d2
  PROVE  (c1 + c2) * d1 * d2 > (d1 + d2) * c1 * c2
<1> DEFINE x == d1 - c1
           y == d2 - c2
<1>1. x \in Nat /\ x > 0 /\ y \in Nat /\ d1 = c1 + x /\ d2 = c2 + y
  OBVIOUS
<1>2. (c1 + c2) * d1 * d2 - (d1 + d2) * c1 * c2 = c1 * d1 * y + c2 * d2 * x
  BY <1>1
<1>3. c1 * d1 \in Nat /\ c1 * d1 * y >= 0
  BY <1>1
<1>4. c2 * d2 \in Nat /\ c2 * d2 > 0
  OBVIOUS
<1>5. c2 * d2 * x > 0
  BY <1>1, <1>4
<1>6. /\ (c1 + c2) * d1 * d2 \in Int /\ (d1 + d2) * c1 * c2 \in Int
      /\ c1 * d1 * y \in Int /\ c2 * d2 * x \in Int
  BY <1>1
<1> QED BY <1>2, <1>3, <1>5, <1>6

\* To be ahead in a list is to rank no lower, and higher than what is in it.
LEMMA AheadRanks ==
  ASSUME NEW s, ListOK(s), NEW k \in Nat, Len(s) <= k, NEW c, NEW d, Ahead(c, d, s)
  PROVE  /\ Rank(c, s, k) \in Nat /\ Rank(d, s, k) \in Nat
         /\ Rank(c, s, k) <= Rank(d, s, k)
         /\ d \in Range(s) => Rank(c, s, k) < Rank(d, s, k)
<1>1. DOMAIN s = 1 .. Len(s) /\ Len(s) \in Nat
  BY DEF ListOK
<1>2. CASE d \in Range(s)
  <2>1. PICK i, j \in DOMAIN s : i < j /\ s[i] = c /\ s[j] = d
    BY <1>2 DEF Ahead, Precedes
  <2>2. Rank(c, s, k) = i /\ Rank(d, s, k) = j
    BY <2>1, RankIsPosition
  <2> QED BY <1>1, <2>1, <2>2
<1>3. CASE d \notin Range(s)
  <2>1. Rank(d, s, k) = k + 1
    BY <1>3 DEF Rank
  <2>2. CASE c \in Range(s)
    <3>1. PICK i \in DOMAIN s : s[i] = c
      BY <2>2 DEF Range
    <3>2. Rank(c, s, k) = i
      BY <3>1, RankIsPosition
    <3> QED BY <1>1, <1>3, <2>1, <3>2
  <2>3. CASE c \notin Range(s)
    <3>1. Rank(c, s, k) = k + 1
      BY <2>3 DEF Rank
    <3> QED BY <1>3, <2>1, <3>1
  <2> QED BY <2>2, <2>3
<1> QED BY <1>2, <1>3

\* What is ahead in both lists has the greater score.
LEMMA AheadOutscores ==
  ASSUME NEW v, NEW f, ListOK(v), ListOK(f),
         Len(v) <= VectorCandidates, Len(f) <= FulltextCandidates,
         NEW c, NEW d \in Range(v) \cup Range(f), Ahead(c, d, v), Ahead(c, d, f)
  PROVE  Outscores(c, d, v, f)
<1> DEFINE c1 == Rank(c, v, VectorCandidates)
           c2 == Rank(c, f, FulltextCandidates)
           d1 == Rank(d, v, VectorCandidates)
           d2 == Rank(d, f, FulltextCandidates)
<1>1. c1 \in Nat /\ d1 \in Nat /\ c1 <= d1 /\ (d \in Range(v) => c1 < d1)
  BY AheadRanks, ContextAssumption
<1>2. c2 \in Nat /\ d2 \in Nat /\ c2 <= d2 /\ (d \in Range(f) => c2 < d2)
  BY AheadRanks, ContextAssumption
<1> HIDE DEF c1, c2, d1, d2
<1> DEFINE C1 == 60 + c1
           C2 == 60 + c2
           D1 == 60 + d1
           D2 == 60 + d2
<1>3. /\ C1 \in Nat /\ C2 \in Nat /\ D1 \in Nat /\ D2 \in Nat
      /\ C1 > 0 /\ C2 > 0 /\ D1 > 0 /\ D2 > 0 /\ C1 <= D1 /\ C2 <= D2
      /\ C1 < D1 \/ C2 < D2
  BY <1>1, <1>2
<1> HIDE DEF C1, C2, D1, D2
<1>4. (C1 + C2) * D1 * D2 > (D1 + D2) * C1 * C2
  <2>1. CASE C1 < D1
    BY <1>3, <2>1, SmallerRanksOutscore
  <2>2. CASE C2 < D2
    <3>1. (C2 + C1) * D2 * D1 > (D2 + D1) * C2 * C1
      BY <1>3, <2>2, SmallerRanksOutscore
    <3>2. (C2 + C1) * D2 * D1 = (C1 + C2) * D1 * D2 /\ (D2 + D1) * C2 * C1 = (D1 + D2) * C1 * C2
      BY <1>3
    <3> QED BY <3>1, <3>2
  <2> QED BY <1>3, <2>1, <2>2
<1> QED BY <1>4 DEF Outscores, c1, c2, d1, d2, C1, C2, D1, D2

\* Fusion keeps what both searches agree on.
LEMMA FusionAgrees ==
  ASSUME IInv
  PROVE  FusionKeepsAgreement
<1> SUFFICES ASSUME NEW c \in Range(vector) \cup Range(fulltext),
                    NEW d \in Range(vector) \cup Range(fulltext),
                    pc # "search", d \in Range(retrieved), c # d,
                    Ahead(c, d, vector), Ahead(c, d, fulltext)
             PROVE  Precedes(retrieved, c, d)
  BY DEF FusionKeepsAgreement
<1>1. /\ ListOK(vector) /\ ListOK(fulltext) /\ ListOK(retrieved)
      /\ retrieved \in Fused(vector, fulltext)
      /\ Len(vector) <= VectorCandidates /\ Len(fulltext) <= FulltextCandidates
  BY ListsOK DEF IInv, Placed
<1>2. Outscores(c, d, vector, fulltext)
  BY <1>1, AheadOutscores
<1>3. PICK j \in DOMAIN retrieved : retrieved[j] = d
  BY DEF Range
<1>4. c \in Range(retrieved)
  BY <1>1, <1>2, <1>3 DEF Fused
<1>5. PICK i \in DOMAIN retrieved : retrieved[i] = c
  BY <1>4 DEF Range
<1>6. ~ (j < i)
  BY <1>1, <1>2, <1>3, <1>5 DEF Fused
<1>7. i \in Nat /\ j \in Nat /\ i # j
  BY <1>1, <1>3, <1>5 DEF ListOK
<1> QED BY <1>3, <1>5, <1>6, <1>7 DEF Precedes

-----------------------------------------------------------------------------
\* Sums of tokens.

\* Numbers that are not all excluded have a smallest.
LEMMA SmallestNumber ==
  ASSUME NEW S, S \subseteq Nat, S # {}
  PROVE  \E i \in S : \A j \in S : i <= j
<1>1. PICK i \in S : \A j \in S : ~ (<<j, i>> \in OpToRel(<, Nat))
  BY NatLessThanWellFounded, WFMin
<1>2. \A j \in S : ~ (j < i)
  BY <1>1 DEF OpToRel
<1> QED BY <1>2

\* f has the sums of the first 0, 1, ..., n chunks of s.
SumsUpTo(f, s, n) ==
  /\ f \in [0 .. n -> Nat]
  /\ f[0] = 0
  /\ \A i \in 1 .. n : f[i] = f[i - 1] + Tokens[s[i]]

\* There are such sums, up to any place.
LEMMA SumsExist ==
  ASSUME NEW s \in Seq(Chunks), NEW n \in 0 .. Len(s)
  PROVE  \E f : SumsUpTo(f, s, n)
<1> DEFINE Bad == {k \in 0 .. Len(s) : ~ \E f : SumsUpTo(f, s, k)}
<1> SUFFICES ASSUME Bad # {} PROVE FALSE
  OBVIOUS
<1>1. PICK k \in Bad : \A j \in Bad : k <= j
  BY SmallestNumber, Bad \subseteq Nat
<1>2. k # 0
  <2>1. SumsUpTo([i \in 0 .. 0 |-> 0], s, 0)
    BY DEF SumsUpTo
  <2> QED BY <2>1, <1>1
<1>3. k \in 1 .. Len(s) /\ k - 1 \in 0 .. Len(s) /\ k - 1 \notin Bad
  BY <1>1, <1>2
<1>4. PICK f : SumsUpTo(f, s, k - 1)
  BY <1>3
<1>5. Tokens[s[k]] \in Nat
  BY <1>3, ContextAssumption
<1> DEFINE g == [i \in 0 .. k |-> IF i = k THEN f[k - 1] + Tokens[s[k]] ELSE f[i]]
<1>6. SumsUpTo(g, s, k)
  <2>1. f \in [0 .. k - 1 -> Nat] /\ f[0] = 0 /\ k \in Nat
    BY <1>3, <1>4 DEF SumsUpTo
  <2>2. g \in [0 .. k -> Nat] /\ g[0] = 0
    BY <1>3, <1>5, <2>1
  <2>3. \A i \in 1 .. k - 1 : g[i] = g[i - 1] + Tokens[s[i]]
    <3> SUFFICES ASSUME NEW i \in 1 .. k - 1 PROVE g[i] = g[i - 1] + Tokens[s[i]]
      OBVIOUS
    <3>1. g[i] = f[i] /\ g[i - 1] = f[i - 1]
      BY <2>1
    <3> QED BY <3>1, <1>4 DEF SumsUpTo
  <2>4. g[k] = g[k - 1] + Tokens[s[k]]
    BY <1>3, <2>1
  <2>5. \A i \in 1 .. k : i = k \/ i \in 1 .. k - 1
    BY <2>1
  <2> HIDE DEF g
  <2> QED BY <2>2, <2>3, <2>4, <2>5 DEF SumsUpTo
<1> QED BY <1>1, <1>6

\* ... and no others: sums of lists that begin alike begin alike.
LEMMA SumsAgree ==
  ASSUME NEW s \in Seq(Chunks), NEW t \in Seq(Chunks), NEW n \in Nat, NEW m \in Nat, n <= m,
         NEW f, NEW g, SumsUpTo(f, s, n), SumsUpTo(g, t, m),
         \A i \in 1 .. n : s[i] = t[i]
  PROVE  \A i \in 0 .. n : f[i] = g[i]
<1> DEFINE Bad == {i \in 0 .. n : f[i] # g[i]}
<1> SUFFICES ASSUME Bad # {} PROVE FALSE
  OBVIOUS
<1>1. PICK k \in Bad : \A j \in Bad : k <= j
  BY SmallestNumber, Bad \subseteq Nat
<1>2. k # 0
  BY <1>1 DEF SumsUpTo
<1>3. k \in 1 .. n /\ k \in 1 .. m /\ k - 1 \in 0 .. n /\ k - 1 \notin Bad
  BY <1>1, <1>2
<1>4. f[k - 1] = g[k - 1] /\ s[k] = t[k]
  BY <1>3
<1>5. f[k] = f[k - 1] + Tokens[s[k]] /\ g[k] = g[k - 1] + Tokens[t[k]]
  BY <1>3 DEF SumsUpTo
<1> QED BY <1>1, <1>4, <1>5

\* TokensOf is the last of these sums.
LEMMA TokensOfIsSum ==
  ASSUME NEW s \in Seq(Chunks), NEW f, SumsUpTo(f, s, Len(s))
  PROVE  TokensOf(s) = f[Len(s)]
<1> DEFINE Sums(g) == g = [n \in 0 .. Len(s) |-> IF n = 0 THEN 0 ELSE g[n - 1] + Tokens[s[n]]]
<1>0. Len(s) \in Nat
  OBVIOUS
<1>1. Sums(f)
  BY <1>0 DEF SumsUpTo
<1>2. \A g : Sums(g) => g = f
  <2> SUFFICES ASSUME NEW g, Sums(g) PROVE g = f
    OBVIOUS
  <2> DEFINE Bad == {i \in 0 .. Len(s) : f[i] # g[i]}
  <2>1. Bad = {}
    <3> SUFFICES ASSUME Bad # {} PROVE FALSE
      OBVIOUS
    <3>1. PICK k \in Bad : \A j \in Bad : k <= j
      BY SmallestNumber, Bad \subseteq Nat
    <3>2. k \in 0 .. Len(s) /\ f[k] # g[k]
      BY <3>1
    <3>3. k # 0
      BY <3>2 DEF SumsUpTo
    <3>4. k - 1 \in 0 .. Len(s) /\ k - 1 \notin Bad /\ k \in 1 .. Len(s)
      BY <3>1, <3>2, <3>3, <1>0
    <3>5. f[k - 1] = g[k - 1]
      BY <3>4
    <3>6. g[k] = g[k - 1] + Tokens[s[k]]
      BY <3>2, <3>3
    <3> QED BY <3>2, <3>4, <3>5, <3>6 DEF SumsUpTo
  <2>2. f = [i \in 0 .. Len(s) |-> f[i]] /\ g = [i \in 0 .. Len(s) |-> g[i]]
    BY DEF SumsUpTo
  <2>3. \A i \in 0 .. Len(s) : f[i] = g[i]
    BY <2>1
  <2> HIDE DEF Bad, Sums
  <2> QED BY <2>2, <2>3
<1>3. f = CHOOSE g : Sums(g)
  BY <1>1, <1>2
<1> QED BY <1>3 DEF TokensOf

\* The sum of a list is a number; nothing has none; one more chunk adds its own.
LEMMA TokensOfAppend ==
  ASSUME NEW s \in Seq(Chunks), NEW c \in Chunks
  PROVE  TokensOf(Append(s, c)) = TokensOf(s) + Tokens[c]
<1> DEFINE t == Append(s, c)
<1>1. /\ t \in Seq(Chunks) /\ Len(t) = Len(s) + 1 /\ Len(s) \in Nat
      /\ t[Len(s) + 1] = c /\ \A i \in 1 .. Len(s) : t[i] = s[i]
  OBVIOUS
<1> HIDE DEF t
<1>2. PICK f : SumsUpTo(f, s, Len(s))
  BY <1>1, SumsExist
<1>3. PICK g : SumsUpTo(g, t, Len(t))
  BY <1>1, SumsExist
<1>4. f[Len(s)] = g[Len(s)]
  BY <1>1, <1>2, <1>3, SumsAgree
<1>5. g[Len(s) + 1] = g[Len(s)] + Tokens[c]
  BY <1>1, <1>3 DEF SumsUpTo
<1>6. TokensOf(s) = f[Len(s)] /\ TokensOf(t) = g[Len(t)]
  BY <1>1, <1>2, <1>3, TokensOfIsSum
<1> QED BY <1>1, <1>4, <1>5, <1>6 DEF t

\* The sum of no chunks is 0.
LEMMA TokensOfNone == TokensOf(<<>>) = 0
<1>1. <<>> \in Seq(Chunks) /\ Len(<<>>) = 0
  OBVIOUS
<1>2. PICK f : SumsUpTo(f, <<>>, 0)
  <2>1. 0 \in 0 .. Len(<<>>)
    BY <1>1
  <2> QED BY <1>1, <2>1, SumsExist
<1> QED BY <1>1, <1>2, TokensOfIsSum DEF SumsUpTo

-----------------------------------------------------------------------------
\* The inductive invariant.

\* The first state.
LEMMA InitialInv == Init => IInv
  <1> SUFFICES ASSUME Init PROVE IInv
    OBVIOUS
  <1>1. ListOK(<<>>) /\ Len(<<>>) = 0
    BY DEF ListOK, IsInjective
  <1>2. TypeOK
    BY <1>1, ListsOK DEF Init
  <1>3. PromptFromRetrieved /\ Placed
    BY DEF Init, PromptFromRetrieved, Placed
  <1> QED BY <1>2, <1>3 DEF IInv

\* Every step keeps it.
LEMMA InvStep ==
  ASSUME IInv, [Next]_vars
  PROVE  IInv'
<1> USE ListsOK
<1>1. TypeOK /\ PromptFromRetrieved /\ Placed
  BY DEF IInv
<1>2. TypeOK' <=> /\ pc' \in {"search", "fit", "answer", "done"}
                  /\ ListOK(vector') /\ ListOK(fulltext') /\ ListOK(retrieved')
                  /\ ListOK(accepted') /\ ListOK(citations')
                  /\ next' \in 1 .. Len(retrieved') + 1
                  /\ tokens' \in Nat
                  /\ status' \in {"none", "no_context", "answered", "no_answer", "llm_failed"}
  BY DEF TypeOK, ListOK
<1>3. ASSUME Search PROVE IInv'
  <2>1. PICK active \in SUBSET Chunks :
          /\ vector' \in Lists(active, Least(VectorCandidates, Cardinality(active)))
          /\ \E n \in 0 .. Least(FulltextCandidates, Cardinality(active)) :
               fulltext' \in Lists(active, n)
    BY <1>3 DEF Search
  <2>2. Least(VectorCandidates, Cardinality(active)) \in 0 .. VectorCandidates
    BY ContextAssumption, LeastCard, FS_Subset, FS_CardinalityType DEF Least
  <2>3. Least(FulltextCandidates, Cardinality(active)) \in 0 .. FulltextCandidates
    BY ContextAssumption, LeastCard, FS_Subset, FS_CardinalityType DEF Least
  <2>4. ListOK(vector') /\ Len(vector') <= VectorCandidates
    BY <2>1, <2>2, ListsAreLists
  <2>5. ListOK(fulltext') /\ Len(fulltext') <= FulltextCandidates
    <3>1. PICK n \in 0 .. Least(FulltextCandidates, Cardinality(active)) :
            fulltext' \in Lists(active, n)
      BY <2>1
    <3>2. n \in Nat /\ n <= FulltextCandidates
      BY <2>3, ContextAssumption
    <3> QED BY <3>1, <3>2, ListsAreLists
  <2>6. retrieved' \in Fused(vector', fulltext') /\ ListOK(retrieved')
    BY <1>3, <2>4, <2>5, FusedIsList DEF Search
  <2>7. /\ pc = "search" /\ UNCHANGED <<next, accepted, tokens, citations>>
        /\ \/ retrieved' = <<>> /\ pc' = "done" /\ status' = "no_context"
           \/ retrieved' # <<>> /\ pc' = "fit" /\ UNCHANGED status
    BY <1>3 DEF Search
  <2>8. next = 1 /\ accepted = <<>> /\ status # "answered"
    BY <1>1, <2>7 DEF Placed
  <2>9. Len(retrieved') \in Nat
    BY <2>6 DEF ListOK
  <2>10. TypeOK'
    BY <1>1, <1>2, <2>4, <2>5, <2>6, <2>7, <2>8, <2>9
  <2>11. PromptFromRetrieved'
    BY <2>7, <2>8 DEF PromptFromRetrieved
  <2>12. Placed'
    BY <2>4, <2>5, <2>6, <2>7, <2>8 DEF Placed
  <2> QED BY <2>10, <2>11, <2>12 DEF IInv
<1>4. ASSUME Accept PROVE IInv'
  <2>1. /\ pc = "fit" /\ next <= Len(retrieved)
        /\ accepted' = Append(accepted, retrieved[next])
        /\ tokens' = tokens + Tokens[retrieved[next]] /\ next' = next + 1
        /\ UNCHANGED <<pc, vector, fulltext, retrieved, status, citations>>
    BY <1>4 DEF Accept
  <2>2. /\ ListOK(retrieved) /\ ListOK(accepted) /\ next \in 1 .. Len(retrieved) + 1
        /\ Len(retrieved) \in Nat /\ Len(accepted) \in Nat /\ tokens \in Nat
        /\ DOMAIN retrieved = 1 .. Len(retrieved) /\ DOMAIN accepted = 1 .. Len(accepted)
    BY <1>1 DEF ListOK
  <2>3. next \in DOMAIN retrieved /\ retrieved[next] \in Chunks
    BY <2>1, <2>2 DEF ListOK
  <2>4. /\ accepted' \in Seq(Chunks) /\ Len(accepted') = Len(accepted) + 1
        /\ DOMAIN accepted' = 1 .. Len(accepted) + 1
        /\ accepted'[Len(accepted) + 1] = retrieved[next]
        /\ \A i \in DOMAIN accepted : accepted'[i] = accepted[i]
    BY <2>1, <2>2, <2>3 DEF ListOK
  <2>5. \A i \in DOMAIN accepted :
          \E k \in 1 .. next - 1 : retrieved[k] = accepted[i] /\ k \in DOMAIN retrieved /\ k < next
    BY <1>1, <2>1, <2>2 DEF PromptFromRetrieved
  <2>6. \A i \in DOMAIN accepted : Precedes(retrieved, accepted[i], retrieved[next])
    BY <2>3, <2>5 DEF Precedes
  <2>7. \A i \in DOMAIN accepted : accepted[i] # retrieved[next]
    <3> SUFFICES ASSUME NEW i \in DOMAIN accepted, accepted[i] = retrieved[next] PROVE FALSE
      OBVIOUS
    <3>1. PICK k \in 1 .. next - 1 :
            retrieved[k] = accepted[i] /\ k \in DOMAIN retrieved /\ k < next
      BY <2>5
    <3>2. IsInjective(retrieved)
      BY <2>2 DEF ListOK
    <3>3. k = next
      BY <2>3, <3>1, <3>2 DEF IsInjective
    <3>4. next \in Nat
      BY <2>2
    <3> QED BY <3>1, <3>3, <3>4
  <2>8. ListOK(accepted')
    BY <2>2, <2>4, <2>7 DEF ListOK, IsInjective
  <2>9. tokens' \in Nat
    BY <2>1, <2>2, <2>3, ContextAssumption
  <2>10. TypeOK'
    BY <1>1, <1>2, <2>1, <2>2, <2>8, <2>9
  <2>11. PromptFromRetrieved'
    <3>1. \A i \in DOMAIN accepted' : \E k \in 1 .. next' - 1 : retrieved'[k] = accepted'[i]
      <4>1. next \in 1 .. next' - 1 /\ \A k \in 1 .. next - 1 : k \in 1 .. next' - 1
        BY <2>1, <2>2
      <4> QED BY <2>1, <2>2, <2>4, <2>5, <4>1
    <3>2. \A i, j \in DOMAIN accepted' :
            i < j => Precedes(retrieved', accepted'[i], accepted'[j])
      <4> SUFFICES ASSUME NEW i \in DOMAIN accepted', NEW j \in DOMAIN accepted', i < j
                   PROVE  Precedes(retrieved, accepted'[i], accepted'[j])
        BY <2>1
      <4>1. i \in DOMAIN accepted
        BY <2>2, <2>4
      <4>2. CASE j = Len(accepted) + 1
        BY <2>4, <2>6, <4>1, <4>2
      <4>3. CASE j # Len(accepted) + 1
        <5>1. j \in DOMAIN accepted
          BY <2>2, <2>4, <4>3
        <5> QED BY <1>1, <2>4, <4>1, <5>1 DEF PromptFromRetrieved
      <4> QED BY <4>2, <4>3
    <3>3. accepted' # <<>> /\ accepted'[1] = retrieved'[1]
      <4>1. CASE next = 1
        <5>1. DOMAIN accepted = {}
          BY <2>2, <2>5, <4>1
        <5>2. Len(accepted) = 0
          BY <2>2, <5>1
        <5> QED BY <2>1, <2>4, <4>1, <5>2
      <4>2. CASE next # 1
        <5>1. accepted # <<>> /\ accepted[1] = retrieved[1]
          BY <1>1, <2>2, <4>2 DEF PromptFromRetrieved
        <5>2. 1 \in DOMAIN accepted
          BY <2>2, <5>1 DEF ListOK
        <5> QED BY <2>1, <2>2, <2>4, <5>1, <5>2
      <4> QED BY <4>1, <4>2
    <3> QED BY <3>1, <3>2, <3>3 DEF PromptFromRetrieved
  <2>12. Placed'
    BY <1>1, <2>1, <2>2 DEF Placed
  <2> QED BY <2>10, <2>11, <2>12 DEF IInv
<1>5. ASSUME Skip PROVE IInv'
  <2>1. /\ pc = "fit" /\ next <= Len(retrieved) /\ accepted # <<>> /\ next' = next + 1
        /\ UNCHANGED <<pc, vector, fulltext, retrieved, accepted, tokens, status, citations>>
    BY <1>5 DEF Skip, Fits
  <2>2. /\ next \in 1 .. Len(retrieved) + 1 /\ Len(retrieved) \in Nat
        /\ ListOK(accepted) /\ DOMAIN accepted = 1 .. Len(accepted) /\ Len(accepted) \in Nat
    BY <1>1 DEF ListOK
  <2>3. next > 1
    <3>1. 1 \in DOMAIN accepted
      BY <2>1, <2>2 DEF ListOK
    <3>2. PICK k \in 1 .. next - 1 : retrieved[k] = accepted[1]
      BY <1>1, <3>1 DEF PromptFromRetrieved
    <3> QED BY <2>2, <3>2
  <2>4. TypeOK'
    BY <1>1, <1>2, <2>1, <2>2
  <2>5. PromptFromRetrieved'
    <3>1. \A k \in 1 .. next - 1 : k \in 1 .. next' - 1
      BY <2>1, <2>2
    <3> QED BY <1>1, <2>1, <2>3, <3>1 DEF PromptFromRetrieved
  <2>6. Placed'
    BY <1>1, <2>1, <2>2 DEF Placed
  <2> QED BY <2>4, <2>5, <2>6 DEF IInv
<1>6. ASSUME BuildPrompt PROVE IInv'
  <2>1. /\ pc = "fit" /\ next > Len(retrieved) /\ pc' = "answer"
        /\ UNCHANGED <<vector, fulltext, retrieved, next, accepted, tokens, status, citations>>
    BY <1>6 DEF BuildPrompt
  <2>2. TypeOK' /\ PromptFromRetrieved'
    BY <1>1, <1>2, <2>1 DEF PromptFromRetrieved
  <2>3. next > 1
    <3>1. retrieved # <<>> /\ ListOK(retrieved) /\ next \in 1 .. Len(retrieved) + 1
      BY <1>1, <2>1 DEF Placed
    <3>2. Len(retrieved) \in Nat /\ Len(retrieved) > 0
      BY <3>1 DEF ListOK
    <3> QED BY <2>1, <3>1, <3>2
  <2>4. Placed'
    BY <1>1, <2>1, <2>3 DEF Placed
  <2> QED BY <2>2, <2>4 DEF IInv
<1>7. ASSUME GenerateAnswer PROVE IInv'
  <2>1. /\ pc = "answer" /\ pc' = "done"
        /\ \/ status' = "answered" /\ citations' = retrieved
           \/ status' \in {"no_answer", "llm_failed"} /\ UNCHANGED citations
        /\ UNCHANGED <<vector, fulltext, retrieved, next, accepted, tokens>>
    BY <1>7 DEF GenerateAnswer
  <2>2. TypeOK' /\ PromptFromRetrieved'
    BY <1>1, <1>2, <2>1 DEF PromptFromRetrieved
  <2>3. Placed'
    BY <1>1, <2>1 DEF Placed
  <2> QED BY <2>2, <2>3 DEF IInv
<1>8. CASE UNCHANGED vars
  <2>1. TypeOK' /\ PromptFromRetrieved' /\ Placed'
    BY <1>1, <1>2, <1>8 DEF vars, PromptFromRetrieved, Placed
  <2> QED BY <2>1 DEF IInv
<1> QED BY <1>3, <1>4, <1>5, <1>6, <1>7, <1>8 DEF Next, Terminated

\* The budget: the count follows the prompt, which leaves out only what overflows.
LEMMA BudgetStep ==
  ASSUME IInv, Counted, OnlyOverflowDropped, [Next]_vars
  PROVE  Counted' /\ OnlyOverflowDropped'
<1>1. TypeOK /\ PromptFromRetrieved /\ Placed
  BY DEF IInv
<1>2. /\ ListOK(retrieved) /\ ListOK(accepted) /\ next \in 1 .. Len(retrieved) + 1
      /\ Len(retrieved) \in Nat /\ Len(accepted) \in Nat /\ tokens \in Nat
      /\ DOMAIN retrieved = 1 .. Len(retrieved) /\ DOMAIN accepted = 1 .. Len(accepted)
  BY <1>1, ListsOK DEF ListOK
<1>3. /\ Budget \in Nat /\ Tokens \in [Chunks -> Nat]
      /\ accepted \in Seq(Chunks) /\ retrieved \in Seq(Chunks)
  BY <1>2, ContextAssumption DEF ListOK
<1>4. CASE Search
  <2>1. /\ pc = "search" /\ next' = next /\ accepted' = accepted /\ tokens' = tokens
    BY <1>4 DEF Search
  <2>2. next = 1
    BY <1>1, <2>1 DEF Placed
  <2> QED BY <2>1, <2>2 DEF Counted, OnlyOverflowDropped
<1>5. CASE Accept
  <2> DEFINE c == retrieved[next]
  <2>1. /\ next <= Len(retrieved) /\ Fits(c)
        /\ accepted' = Append(accepted, c)
        /\ tokens' = tokens + Tokens[c] /\ next' = next + 1 /\ retrieved' = retrieved
    BY <1>5 DEF Accept
  <2>2. next \in DOMAIN retrieved /\ c \in Chunks /\ Tokens[c] \in Nat
    BY <1>2, <1>3, <2>1
  <2>3. /\ Len(accepted') = Len(accepted) + 1
        /\ DOMAIN accepted' = 1 .. Len(accepted) + 1
        /\ accepted'[Len(accepted) + 1] = c
        /\ \A i \in DOMAIN accepted : accepted'[i] = accepted[i]
    BY <1>2, <1>3, <2>1, <2>2
  <2>4. Counted'
    <3>1. tokens' = TokensOf(accepted')
      BY <1>3, <2>1, <2>2, TokensOfAppend DEF Counted
    <3>2. Len(accepted') > 1 => accepted # <<>>
      BY <1>2, <2>3
    <3>3. Len(accepted') > 1 => tokens' <= Budget
      BY <2>1, <3>2 DEF Fits
    <3>4. Len(accepted') < next'
      BY <1>2, <2>1, <2>3 DEF Counted
    <3> QED BY <3>1, <3>3, <3>4 DEF Counted
  <2>5. OnlyOverflowDropped'
    <3> SUFFICES ASSUME NEW i \in 1 .. next, retrieved[i] \notin Range(accepted')
                 PROVE  \E n \in 0 .. Len(accepted') :
                          /\ \A k \in DOMAIN accepted' :
                               k <= n <=> Precedes(retrieved, accepted'[k], retrieved[i])
                          /\ TokensOf(SubSeq(accepted', 1, n)) + Tokens[retrieved[i]] > Budget
      BY <1>2, <2>1 DEF OnlyOverflowDropped
    <3>1. c \in Range(accepted')
      BY <1>2, <2>3 DEF Range
    <3>2. i \in 1 .. next - 1
      BY <1>2, <3>1
    <3>3. retrieved[i] \notin Range(accepted)
      BY <1>2, <2>3 DEF Range
    <3>4. PICK n \in 0 .. Len(accepted) :
            /\ \A k \in DOMAIN accepted :
                 k <= n <=> Precedes(retrieved, accepted[k], retrieved[i])
            /\ TokensOf(SubSeq(accepted, 1, n)) + Tokens[retrieved[i]] > Budget
      BY <3>2, <3>3 DEF OnlyOverflowDropped
    <3>5. SubSeq(accepted', 1, n) = SubSeq(accepted, 1, n)
      BY <1>2, <1>3, <2>1, <2>2, <2>3
    <3>6. ~ Precedes(retrieved, c, retrieved[i])
      <4> SUFFICES ASSUME NEW j \in DOMAIN retrieved, NEW k \in DOMAIN retrieved, j < k,
                          retrieved[j] = c, retrieved[k] = retrieved[i]
                   PROVE  FALSE
        BY DEF Precedes
      <4>1. i \in DOMAIN retrieved
        BY <1>2, <3>2
      <4>2. j = next /\ k = i
        BY <1>2, <2>2, <4>1 DEF ListOK, IsInjective
      <4> QED BY <1>2, <3>2, <4>2
    <3>7. n \in 0 .. Len(accepted') /\ ~ (Len(accepted) + 1 <= n)
      BY <1>2, <2>3
    <3>8. \A k \in DOMAIN accepted' : k \in DOMAIN accepted \/ k = Len(accepted) + 1
      BY <1>2, <2>3
    <3>9. \A k \in DOMAIN accepted' :
            k <= n <=> Precedes(retrieved, accepted'[k], retrieved[i])
      BY <2>3, <3>4, <3>6, <3>7, <3>8
    <3> QED BY <3>4, <3>5, <3>7, <3>9
  <2> QED BY <2>4, <2>5
<1>6. CASE Skip
  <2> DEFINE c == retrieved[next]
  <2>1. /\ next <= Len(retrieved) /\ ~ Fits(c) /\ next' = next + 1
        /\ retrieved' = retrieved /\ accepted' = accepted /\ tokens' = tokens
    BY <1>6 DEF Skip
  <2>2. next \in DOMAIN retrieved /\ c \in Chunks /\ Tokens[c] \in Nat
    BY <1>2, <1>3, <2>1
  <2>3. Counted'
    BY <1>2, <2>1 DEF Counted
  <2>4. OnlyOverflowDropped'
    <3> SUFFICES ASSUME NEW i \in 1 .. next, retrieved[i] \notin Range(accepted)
                 PROVE  \E n \in 0 .. Len(accepted) :
                          /\ \A k \in DOMAIN accepted :
                               k <= n <=> Precedes(retrieved, accepted[k], retrieved[i])
                          /\ TokensOf(SubSeq(accepted, 1, n)) + Tokens[retrieved[i]] > Budget
      BY <1>2, <2>1 DEF OnlyOverflowDropped
    <3>1. CASE i \in 1 .. next - 1
      BY <3>1 DEF OnlyOverflowDropped
    <3>2. CASE i = next
      <4>1. \A k \in DOMAIN accepted : Precedes(retrieved, accepted[k], c)
        <5> SUFFICES ASSUME NEW k \in DOMAIN accepted PROVE Precedes(retrieved, accepted[k], c)
          OBVIOUS
        <5>1. PICK j \in 1 .. next - 1 : retrieved[j] = accepted[k]
          BY <1>1 DEF PromptFromRetrieved
        <5>2. j \in DOMAIN retrieved /\ j < next
          BY <1>2
        <5> QED BY <2>2, <5>1, <5>2 DEF Precedes
      <4>2. SubSeq(accepted, 1, Len(accepted)) = accepted
        BY <1>2, <1>3
      <4>3. TokensOf(accepted) + Tokens[c] > Budget
        <5>1. ~ (tokens + Tokens[c] <= Budget) /\ tokens = TokensOf(accepted)
          BY <2>1 DEF Fits, Counted
        <5>2. Budget \in Nat /\ tokens \in Nat /\ Tokens[c] \in Nat
          BY <1>2, <1>3, <2>2
        <5> HIDE DEF c
        <5>3. tokens + Tokens[c] > Budget
          BY <5>1, <5>2
        <5> QED BY <5>1, <5>3
      <4>4. \A k \in DOMAIN accepted :
              k <= Len(accepted) <=> Precedes(retrieved, accepted[k], retrieved[i])
        BY <1>2, <3>2, <4>1
      <4>5. TokensOf(SubSeq(accepted, 1, Len(accepted))) + Tokens[retrieved[i]] > Budget
        BY <3>2, <4>2, <4>3
      <4> HIDE DEF c
      <4> QED BY <1>2, <4>4, <4>5
    <3> QED BY <1>2, <3>1, <3>2
  <2> QED BY <2>3, <2>4
<1>7. CASE BuildPrompt \/ GenerateAnswer \/ Terminated \/ UNCHANGED vars
  <2>1. UNCHANGED <<retrieved, next, accepted, tokens>>
    BY <1>7 DEF BuildPrompt, GenerateAnswer, Terminated, vars
  <2> QED BY <2>1 DEF Counted, OnlyOverflowDropped
<1> QED BY <1>4, <1>5, <1>6, <1>7 DEF Next

-----------------------------------------------------------------------------
\* The theorems.

\* The inductive invariant holds in every state.
THEOREM Invariant == Spec => []IInv
<1>1. IInv /\ [Next]_vars => IInv'
  BY InvStep
<1> QED BY InitialInv, <1>1, PTL DEF Spec

\* Every variable keeps its shape, and no list names a chunk twice.
THEOREM TypeCorrect == Spec => []TypeOK
<1>1. IInv => TypeOK
  BY DEF IInv
<1> QED BY Invariant, <1>1, PTL

\* A chunk ahead of a retrieved one in each search is retrieved ahead of it.
THEOREM AgreementKept == Spec => []FusionKeepsAgreement
<1>1. IInv => FusionKeepsAgreement
  BY FusionAgrees
<1> QED BY Invariant, <1>1, PTL

\* What the loop of the budget keeps to.
THEOREM BudgetInvariant == Spec => [](Counted /\ OnlyOverflowDropped)
<1>1. Init => Counted /\ OnlyOverflowDropped
  <2> SUFFICES ASSUME Init PROVE Counted /\ OnlyOverflowDropped
    OBVIOUS
  <2> QED BY TokensOfNone DEF Init, Counted, OnlyOverflowDropped
<1>2. IInv /\ (Counted /\ OnlyOverflowDropped) /\ [Next]_vars => (Counted /\ OnlyOverflowDropped)'
  BY BudgetStep
<1> QED BY Invariant, <1>1, <1>2, PTL DEF Spec

\* A chunk is left out of the prompt only if it does not fit beside those that
\* are there before it.
THEOREM NothingFittingDropped == Spec => []OnlyOverflowDropped
  BY BudgetInvariant, PTL

\* The sources of a prompt exceed the budget by less than TopK blank lines,
\* unless there is only one.
THEOREM BudgetKept == Spec => []PromptFits
<1>1. IInv /\ Counted => PromptFits
  <2> SUFFICES ASSUME IInv, Counted, Len(accepted) > 1
               PROVE  Rendered(accepted) <= Budget + (TopK - 1) * Join
    BY DEF PromptFits
  <2>1. /\ ListOK(accepted) /\ ListOK(retrieved) /\ ListOK(vector) /\ ListOK(fulltext)
        /\ Len(accepted) \in Nat /\ Len(retrieved) \in Nat /\ tokens \in Nat
        /\ next \in 1 .. Len(retrieved) + 1
    BY ListsOK DEF IInv, TypeOK, ListOK
  <2>2. accepted # <<>> /\ tokens = TokensOf(accepted) /\ tokens <= Budget
    BY DEF Counted
  <2>3. Len(accepted) <= Len(retrieved)
    BY <2>1 DEF Counted
  <2>4. retrieved \in Fused(vector, fulltext)
    <3>1. pc # "search"
      BY <2>2 DEF IInv, Placed
    <3> QED BY <3>1 DEF IInv, Placed
  <2>5. Len(retrieved) <= TopK
    BY <2>1, <2>4, FusedIsList
  <2>6. (Len(accepted) - 1) * Join <= (TopK - 1) * Join
    <3>1. ASSUME NEW a \in Nat, NEW b \in Nat, NEW j \in Nat, a <= b
          PROVE  a * j <= b * j
      <4>1. b * j = a * j + (b - a) * j /\ (b - a) * j \in Nat /\ a * j \in Nat
        BY <3>1
      <4> QED BY <4>1
    <3>2. Len(accepted) - 1 \in Nat /\ TopK - 1 \in Nat /\ Len(accepted) - 1 <= TopK - 1 /\ Join \in Nat
      BY <2>1, <2>3, <2>5, ContextAssumption
    <3> QED BY <3>1, <3>2
  <2>7. /\ (Len(accepted) - 1) * Join \in Nat /\ (TopK - 1) * Join \in Nat /\ Budget \in Nat
    <3>1. Len(accepted) - 1 \in Nat /\ TopK - 1 \in Nat /\ Join \in Nat
      BY <2>1, <2>3, <2>5, ContextAssumption
    <3> QED BY <3>1, ContextAssumption
  <2>8. Rendered(accepted) = tokens + (Len(accepted) - 1) * Join
    BY <2>2 DEF Rendered
  <2> QED BY <2>1, <2>2, <2>6, <2>7, <2>8
<1> QED BY Invariant, BudgetInvariant, <1>1, PTL

\* An answer has its best source in the prompt, and cites all of the prompt.
THEOREM Grounded == Spec => []AnswerIsGrounded
<1>1. IInv => AnswerIsGrounded
  <2> SUFFICES ASSUME IInv, status = "answered"
               PROVE  /\ accepted # <<>> /\ accepted[1] = citations[1]
                      /\ \A i, j \in DOMAIN accepted :
                           i < j => Precedes(citations, accepted[i], accepted[j])
    BY DEF AnswerIsGrounded
  <2> QED BY DEF IInv, PromptFromRetrieved, Placed
<1> QED BY Invariant, <1>1, PTL
=============================================================================

--------------------------- MODULE Chunker_proofs ---------------------------
(***************************************************************************)
(* What chunk_text makes of any text, for all sizes: how long its chunks   *)
(* are, where they are cut, and how much of the text is in none of them.   *)
(***************************************************************************)
EXTENDS Chunker, WellFoundedInduction, TLAPS

Places == 1 .. Last
Pieces == {p \in [lo : Places, hi : Places] : p.lo <= p.hi}
SizeOf(p) == Count(p.lo, p.hi)

\* Where what is not yet in raw begins.
From == IF raw = <<>> THEN 1 ELSE raw[Len(raw)].hi + 1

\* raw is the text up to there, piece by piece, none of them too long.
Partition ==
  /\ raw # <<>> => raw[1].lo = 1
  /\ \A k \in DOMAIN raw : k + 1 \in DOMAIN raw => raw[k + 1].lo = raw[k].hi + 1
  /\ \A j, k \in DOMAIN raw : j < k => raw[j].hi < raw[k].lo
  /\ \A x \in 1 .. From - 1 : \E k \in DOMAIN raw : x \in raw[k].lo .. raw[k].hi
  /\ \A k \in DOMAIN raw : SizeOf(raw[k]) <= ChunkSize

\* The unit behind the piece does not fit beside it.
NoRoomBehind(p) ==
  /\ \A j \in p.lo + 1 .. p.hi : Depth(j) >= Depth(p.hi + 1)
  /\ \E u \in p.hi + 1 .. Last :
       /\ \A j \in p.hi + 2 .. u : Depth(j) > Depth(p.hi + 1)
       /\ Count(p.lo, u) > ChunkSize

\* The unit that ends with the piece was too long.
EndOfLongUnit(p) ==
  \E w \in 1 .. p.hi :
    /\ \A j \in w + 1 .. p.hi : Depth(j) > Depth(p.hi + 1)
    /\ Count(w, p.hi) > ChunkSize

\* Each cut has its reason.
CutsHaveReasons ==
  \A k \in DOMAIN raw : raw[k].hi < Last => NoRoomBehind(raw[k]) \/ EndOfLongUnit(raw[k])

\* The open calls: the text of each is within that of its caller, it ends where
\* it does or before a separator of a lower level, and was too long.
CallsNest ==
  /\ stack[1] = Last
  /\ \A l \in 2 .. Level :
       /\ stack[l] <= stack[l - 1]
       /\ stack[l] < Last => Depth(stack[l] + 1) < l
       /\ \E w \in 1 .. stack[l] :
            /\ \A j \in w + 1 .. stack[l] : Depth(j) >= l
            /\ Count(w, stack[l]) > ChunkSize
  /\ \A l \in 1 .. Level : \A j \in next + 1 .. stack[l] : Depth(j) >= l

\* What is held back is between raw and the next part, and fits a chunk.
HeldBack ==
  /\ current = None => From = next
  /\ current # None =>
       /\ current.lo = From /\ current.hi = next - 1 /\ SizeOf(current) <= ChunkSize
       /\ \A j \in current.lo + 1 .. current.hi : Depth(j) >= Level
       /\ Level < 5 /\ (next <= End => Depth(next) = Level)

\* What is known at each place.
Placed ==
  /\ pc = "start" => stack = <<>> /\ next = 1 /\ current = None /\ raw = <<>>
  /\ pc = "split" =>
       Last > 0 /\ Level > 0 /\ next <= End + 1 /\ CallsNest /\ HeldBack
  /\ pc \in {"start", "split"} => turn = 1 /\ chunks = <<>>
  /\ pc \notin {"start", "split"} => From = Last + 1
  /\ pc \in {"chunked", "empty"} => turn = Len(raw) + 1

\* The piece may be too short even with an overlap.
MayDrop(i) == \E c \in WithOverlap(i) : \E n \in ChunkTokens(c) : ~ LongEnough(n)

\* The chunks so far are of raw, in its order, and all of it that is always long
\* enough is there.
Chosen ==
  /\ \A k \in DOMAIN chunks : \E i \in 1 .. turn - 1 : chunks[k] \in WithOverlap(i)
  /\ \A i \in 1 .. turn - 1 :
       MayDrop(i) \/ \E k \in DOMAIN chunks : chunks[k] \in WithOverlap(i)
  /\ \A j, k \in DOMAIN chunks : j < k => chunks[j].own.hi < chunks[k].own.lo

IInv == TypeOK /\ Partition /\ CutsHaveReasons /\ Placed /\ Chosen

-----------------------------------------------------------------------------
\* Counting.

\* Numbers that are not all excluded have a smallest.
LEMMA SmallestNumber ==
  ASSUME NEW S, S \subseteq Nat, S # {}
  PROVE  \E i \in S : \A j \in S : i <= j
<1>1. PICK i \in S : \A j \in S : ~ (<<j, i>> \in OpToRel(<, Nat))
  BY NatLessThanWellFounded, WFMin
<1>2. \A j \in S : ~ (j < i)
  BY <1>1 DEF OpToRel
<1> QED BY <1>2

\* Min is the smallest.
LEMMA MinIsSmallest ==
  ASSUME NEW S, S \subseteq Nat, S # {}
  PROVE  Min(S) \in S /\ \A j \in S : Min(S) <= j
  BY SmallestNumber DEF Min

\* What a text is made of.
LEMMA TextFacts ==
  ASSUME text \in Texts
  PROVE  /\ Last \in Nat
         /\ \A i \in Places : Depth(i) \in 1 .. 5 /\ text.at[i] \in Nat
         /\ \A i \in Places : i > 1 =>
              text.at[i] = text.at[i - 1] + SepTokens[Depth(i)] + 1
<1>1. TextOK(text)
  BY ChunkerAssumption
<1>2. text.before \in Seq(1 .. 5) /\ DOMAIN text.before = Places
  BY <1>1 DEF TextOK, Separators, Within, Places, Last
<1> QED BY <1>1, <1>2 DEF TextOK, Depth, Last, Places

\* What the constants are.
LEMMA Sizes ==
  /\ ChunkSize \in Nat /\ Overlap \in Nat /\ MinTokens \in Nat
  /\ Grow \in Nat /\ Shrink \in Nat
  /\ ChunkSize > 0 /\ MinTokens > 0
  /\ \A d \in 1 .. 5 : SepTokens[d] \in {0, 1}
  /\ SepTokens[5] = 0
  BY ChunkerAssumption DEF Separators, Within

\* A token further is a token more, at least.
LEMMA AtGrows ==
  ASSUME text \in Texts, NEW i \in Places, NEW j \in Places, i <= j
  PROVE  text.at[j] - text.at[i] >= j - i
<1> DEFINE Bad == {k \in Places : i <= k /\ ~ (text.at[k] - text.at[i] >= k - i)}
<1> SUFFICES ASSUME Bad # {} PROVE FALSE
  OBVIOUS
<1>1. PICK k \in Bad : \A m \in Bad : k <= m
  <2>1. Bad \subseteq Nat
    BY DEF Places
  <2> QED BY <2>1, SmallestNumber
<1>2. k # i
  <2>1. text.at[i] - text.at[i] >= i - i
    BY TextFacts DEF Places
  <2> QED BY <1>1, <2>1
<1>3. k - 1 \in Places /\ i <= k - 1 /\ k - 1 \notin Bad /\ k > 1 /\ k \in Places
  BY <1>1, <1>2, TextFacts DEF Places
<1>4. text.at[k - 1] - text.at[i] >= k - 1 - i
  BY <1>3
<1>5. text.at[k] = text.at[k - 1] + SepTokens[Depth(k)] + 1 /\ SepTokens[Depth(k)] \in {0, 1}
  BY <1>3, TextFacts, Sizes
<1>6. text.at[k] \in Nat /\ text.at[k - 1] \in Nat /\ text.at[i] \in Nat
  BY <1>3, TextFacts
<1>7. ~ (text.at[k] - text.at[i] >= k - i) /\ i \in Nat /\ k \in Nat
  BY <1>1 DEF Places
<1> QED BY <1>4, <1>5, <1>6, <1>7

\* A piece has at least its own tokens.
LEMMA CountFacts ==
  ASSUME text \in Texts, NEW lo \in Places, NEW hi \in Places, lo <= hi
  PROVE  Count(lo, hi) \in Nat /\ Count(lo, hi) >= hi - lo + 1
  BY AtGrows, TextFacts DEF Count, Places

\* More text is not less.
LEMMA CountMonotone ==
  ASSUME text \in Texts, NEW lo \in Places, NEW hi \in Places,
         NEW a \in lo .. hi, NEW b \in a .. hi
  PROVE  Count(a, b) <= Count(lo, hi)
<1>1. a \in Places /\ b \in Places /\ lo <= a /\ b <= hi
  BY TextFacts DEF Places
<1>2. text.at[a] - text.at[lo] >= a - lo /\ text.at[hi] - text.at[b] >= hi - b
  BY <1>1, AtGrows
<1> QED BY <1>1, <1>2, TextFacts DEF Count, Places

\* Two pieces make one, with what stands between them.
LEMMA CountJoined ==
  ASSUME text \in Texts, NEW lo \in Places, NEW m \in Places, NEW hi \in Places, lo < m, m <= hi
  PROVE  /\ Count(lo, hi) = Count(lo, m - 1) + SepTokens[Depth(m)] + Count(m, hi)
         /\ SepTokens[Depth(m)] \in {0, 1}
<1>1. m > 1 /\ m - 1 \in Places
  BY TextFacts DEF Places
<1>2. text.at[m] = text.at[m - 1] + SepTokens[Depth(m)] + 1 /\ SepTokens[Depth(m)] \in {0, 1}
  BY <1>1, TextFacts, Sizes
<1>3. {text.at[m], text.at[m - 1], text.at[lo], text.at[hi]} \subseteq Nat
  BY <1>1, TextFacts
<1> QED BY <1>2, <1>3 DEF Count

\* Inside of a word the tokens are the word's own.
LEMMA CountWithin ==
  ASSUME text \in Texts, NEW lo \in Places, NEW hi \in Places, lo <= hi,
         \A j \in lo + 1 .. hi : Depth(j) = 5
  PROVE  Count(lo, hi) = hi - lo + 1
<1> DEFINE Bad == {k \in lo .. hi : text.at[k] - text.at[lo] # k - lo}
<1>1. Bad = {}
  <2> SUFFICES ASSUME Bad # {} PROVE FALSE
    OBVIOUS
  <2>1. PICK k \in Bad : \A m \in Bad : k <= m
    <3>1. Bad \subseteq Nat
      BY DEF Places
    <3> QED BY <3>1, SmallestNumber
  <2>2. k # lo
    BY <2>1, TextFacts
  <2>3. /\ k \in lo + 1 .. hi /\ k - 1 \in lo .. hi /\ k - 1 \notin Bad
        /\ k \in Places /\ k - 1 \in Places /\ k > 1 /\ k \in Nat /\ lo \in Nat
    BY <2>1, <2>2, TextFacts DEF Places
  <2>4. text.at[k - 1] - text.at[lo] = k - 1 - lo
    BY <2>3
  <2>5. text.at[k] = text.at[k - 1] + 1
    BY <2>3, TextFacts, Sizes
  <2>6. {text.at[k], text.at[k - 1], text.at[lo]} \subseteq Nat
    BY <2>3, TextFacts
  <2>7. text.at[k] - text.at[lo] # k - lo
    BY <2>1
  <2> QED BY <2>3, <2>4, <2>5, <2>6, <2>7
<1>2. hi \in lo .. hi
  BY DEF Places
<1>3. text.at[hi] - text.at[lo] = hi - lo
  BY <1>1, <1>2
<1> QED BY <1>3, TextFacts DEF Count, Places

-----------------------------------------------------------------------------
\* Parts, pieces and overlaps.

\* A part ends where its text does, or before the next separator of the level.
LEMMA PartFacts ==
  ASSUME text \in Texts, NEW lo \in Places, NEW end \in Places, lo <= end, NEW level
  PROVE  LET p == Part(lo, level, end)
         IN /\ p \in Pieces /\ p.lo = lo /\ p.hi \in lo .. end
            /\ p.hi < end => Depth(p.hi + 1) = level
            /\ \A j \in lo + 1 .. p.hi : Depth(j) # level
<1> DEFINE ends == {end} \cup {i \in lo .. end - 1 : Depth(i + 1) = level}
<1>1. lo \in Nat /\ end \in Nat /\ Last \in Nat /\ lo >= 1 /\ end <= Last
  BY TextFacts DEF Places
<1>2. ends \subseteq lo .. end /\ ends # {} /\ ends \subseteq Nat
  BY <1>1
<1>3. Min(ends) \in ends /\ \A i \in ends : Min(ends) <= i
  BY <1>2, MinIsSmallest
<1> DEFINE hi == Min(ends)
<1>4. hi \in lo .. end
  BY <1>2, <1>3
<1>5. hi < end => Depth(hi + 1) = level
  <2>1. hi \in ends /\ hi \in Nat /\ (hi < end => hi # end)
    BY <1>1, <1>2, <1>3
  <2> QED BY <2>1
<1>6. \A j \in lo + 1 .. hi : Depth(j) # level
  <2> SUFFICES ASSUME NEW j \in lo + 1 .. hi, Depth(j) = level PROVE FALSE
    OBVIOUS
  <2>1. j - 1 \in lo .. end - 1 /\ (j - 1) + 1 = j
    BY <1>1, <1>4
  <2>2. j - 1 \in ends
    BY <2>1
  <2>3. hi <= j - 1
    BY <1>3, <2>2
  <2> QED BY <1>1, <1>4, <2>1, <2>3
<1>7. Part(lo, level, end) = [lo |-> lo, hi |-> hi]
  BY DEF Part, Piece
<1> HIDE DEF hi
<1>8. [lo |-> lo, hi |-> hi] \in Pieces
  BY <1>1, <1>4 DEF Pieces, Places
<1> QED BY <1>4, <1>5, <1>6, <1>7, <1>8

\* A piece is not the marker for none.
LEMMA PieceIsSome ==
  ASSUME NEW p \in Pieces
  PROVE  p # None /\ p.lo \in Places /\ p.hi \in Places /\ p.lo <= p.hi
  BY DEF Pieces, Places, None, Piece

\* The tail of a piece is all of it, or as much as makes an overlap.
LEMMA TailFacts ==
  ASSUME text \in Texts, NEW p \in Pieces, NEW i \in TailStarts(p)
  PROVE  /\ i \in Places /\ i \in p.lo .. p.hi
         /\ Count(i, p.hi) \in Nat
         /\ Count(i, p.hi) <= Overlap + Shrink
         /\ i # p.lo => Count(i, p.hi) + 1 + Grow >= Overlap
         /\ SizeOf(p) + Grow <= Overlap => i = p.lo
<1>1. p.lo \in Places /\ p.hi \in Places /\ p.lo <= p.hi
  BY PieceIsSome
<1>2. p.lo \in Nat /\ p.hi \in Nat /\ Last \in Nat /\ p.lo >= 1 /\ p.hi <= Last
  BY <1>1, TextFacts DEF Places
<1>3. PICK more \in 0 .. Grow, less \in 0 .. Shrink :
        /\ Count(i, p.hi) <= Overlap + less
        /\ i > p.lo => Count(i - 1, p.hi) + more > Overlap
  <2>1. 0 \in 0 .. Grow /\ Grow \in 0 .. Grow /\ 0 \in 0 .. Shrink /\ Shrink \in 0 .. Shrink
    BY Sizes
  <2>2. CASE Torn(p)
    BY <2>1, <2>2 DEF TailStarts
  <2>3. CASE ~ Torn(p)
    BY <2>1, <2>3 DEF TailStarts
  <2> QED BY <2>2, <2>3
<1>4. i \in p.lo .. p.hi
  BY DEF TailStarts
<1>5. i \in Places /\ i <= p.hi
  BY <1>2, <1>4 DEF Places
<1>6. Count(i, p.hi) \in Nat /\ SizeOf(p) \in Nat
  BY <1>1, <1>5, CountFacts DEF SizeOf
<1>7. ASSUME i # p.lo
      PROVE  /\ Count(i - 1, p.hi) \in Nat /\ Count(i - 1, p.hi) + Grow > Overlap
             /\ Count(i - 1, p.hi) <= Count(i, p.hi) + 2
             /\ Count(i - 1, p.hi) <= SizeOf(p)
  <2>1. i > p.lo /\ i - 1 \in Places /\ i - 1 < i /\ i - 1 \in p.lo .. p.hi /\ i - 1 <= p.hi
    BY <1>2, <1>4, <1>7 DEF Places
  <2>2. Count(i - 1, p.hi) \in Nat
    BY <1>1, <2>1, CountFacts
  <2>3. Count(i - 1, p.hi) + more > Overlap
    BY <1>3, <2>1
  <2>4. /\ Count(i - 1, p.hi) = Count(i - 1, i - 1) + SepTokens[Depth(i)] + Count(i, p.hi)
        /\ SepTokens[Depth(i)] \in {0, 1}
    BY <1>1, <1>5, <2>1, CountJoined
  <2>5. Count(i - 1, i - 1) = 1
    BY <2>1, TextFacts DEF Count
  <2>6. p.hi \in i - 1 .. p.hi
    BY <1>2, <2>1
  <2>7. Count(i - 1, p.hi) <= SizeOf(p)
    BY <1>1, <2>1, <2>6, CountMonotone DEF SizeOf
  <2> QED BY <1>3, <1>6, <2>2, <2>3, <2>4, <2>5, <2>7, Sizes
<1>8. i # p.lo => Count(i, p.hi) + 1 + Grow >= Overlap
  BY <1>6, <1>7, Sizes
<1>9. SizeOf(p) + Grow <= Overlap => i = p.lo
  BY <1>6, <1>7, Sizes
<1> QED BY <1>3, <1>4, <1>5, <1>6, <1>8, <1>9, Sizes

\* Where raw ends.
LEMMA FromFacts ==
  ASSUME text \in Texts, raw \in Seq(Pieces)
  PROVE  /\ Len(raw) \in Nat /\ DOMAIN raw = 1 .. Len(raw)
         /\ raw = <<>> => From = 1 /\ Len(raw) = 0
         /\ raw # <<>> => Len(raw) \in DOMAIN raw /\ From = raw[Len(raw)].hi + 1
         /\ From \in 1 .. Last + 1
<1>1. Last \in Nat /\ Len(raw) \in Nat
  BY TextFacts
<1>2. CASE raw = <<>>
  BY <1>1, <1>2 DEF From
<1>3. CASE raw # <<>>
  <2>1. Len(raw) \in DOMAIN raw /\ raw[Len(raw)] \in Pieces
    BY <1>3
  <2>2. raw[Len(raw)].hi \in Places
    BY <2>1, PieceIsSome
  <2> QED BY <1>1, <1>3, <2>1, <2>2 DEF From, Places
<1> QED BY <1>2, <1>3

\* The type invariant, with the names above.
LEMMA TypeParts ==
  TypeOK <=> /\ text \in Texts
             /\ pc \in {"start", "split", "overlap", "chunked", "empty"}
             /\ stack \in Seq(Places) /\ Level <= 5
             /\ next \in 1 .. Last + 1
             /\ current \in Pieces \cup {None}
             /\ raw \in Seq(Pieces)
             /\ turn \in 1 .. Len(raw) + 1
             /\ chunks \in Seq([own : Pieces, overlap : Pieces \cup {None}])
  BY DEF TypeOK, Pieces, Places, Within

-----------------------------------------------------------------------------
\* One more piece.

\* A piece behind what is in raw goes on with the text.
LEMMA RawGrows ==
  ASSUME text \in Texts, raw \in Seq(Pieces), Partition, CutsHaveReasons,
         NEW p \in Pieces, p.lo = From, SizeOf(p) <= ChunkSize,
         p.hi < Last => NoRoomBehind(p) \/ EndOfLongUnit(p),
         text' = text, raw' = Append(raw, p)
  PROVE  /\ raw' \in Seq(Pieces) /\ From' = p.hi + 1
         /\ Partition' /\ CutsHaveReasons'
<1>1. /\ Len(raw) \in Nat /\ DOMAIN raw = 1 .. Len(raw)
      /\ raw = <<>> => From = 1 /\ Len(raw) = 0
      /\ raw # <<>> => Len(raw) \in DOMAIN raw /\ From = raw[Len(raw)].hi + 1
  BY FromFacts
<1>2. /\ raw' \in Seq(Pieces) /\ raw' # <<>> /\ Len(raw') = Len(raw) + 1
      /\ DOMAIN raw' = 1 .. Len(raw) + 1
      /\ raw'[Len(raw) + 1] = p /\ \A k \in DOMAIN raw : raw'[k] = raw[k]
  BY <1>1
<1>3. From' = p.hi + 1
  BY <1>2 DEF From
<1>4. \A k \in DOMAIN raw' : k \in DOMAIN raw \/ k = Len(raw) + 1
  BY <1>1, <1>2
<1>5. /\ p.lo \in Nat /\ p.hi \in Nat /\ p.lo <= p.hi
      /\ \A k \in DOMAIN raw : raw[k].lo \in Nat /\ raw[k].hi \in Nat /\ raw[k].lo <= raw[k].hi
  BY PieceIsSome DEF Places
<1>6. Partition'
  <2>1. raw'[1].lo = 1
    <3>1. CASE raw = <<>>
      BY <1>1, <1>2, <3>1
    <3>2. CASE raw # <<>>
      <4>1. 1 \in DOMAIN raw
        BY <1>1, <3>2
      <4> QED BY <1>2, <3>2, <4>1 DEF Partition
    <3> QED BY <3>1, <3>2
  <2>2. \A k \in DOMAIN raw' : k + 1 \in DOMAIN raw' => raw'[k + 1].lo = raw'[k].hi + 1
    <3> SUFFICES ASSUME NEW k \in DOMAIN raw', k + 1 \in DOMAIN raw'
                 PROVE  raw'[k + 1].lo = raw'[k].hi + 1
      OBVIOUS
    <3>1. k \in DOMAIN raw
      BY <1>1, <1>2
    <3>2. CASE k = Len(raw)
      BY <1>1, <1>2, <3>1, <3>2
    <3>3. CASE k # Len(raw)
      <4>1. k + 1 \in DOMAIN raw
        BY <1>1, <3>1, <3>3
      <4> QED BY <1>2, <3>1, <4>1 DEF Partition
    <3> QED BY <3>2, <3>3
  <2>3. \A k \in DOMAIN raw : raw[k].hi < p.lo
    <3> SUFFICES ASSUME NEW k \in DOMAIN raw PROVE raw[k].hi < p.lo
      OBVIOUS
    <3>1. Len(raw) \in DOMAIN raw /\ p.lo = raw[Len(raw)].hi + 1 /\ k <= Len(raw)
      BY <1>1
    <3>2. k < Len(raw) => raw[k].hi < raw[Len(raw)].lo
      BY <3>1 DEF Partition
    <3>3. /\ raw[k].hi \in Nat
          /\ raw[Len(raw)].lo \in Nat /\ raw[Len(raw)].hi \in Nat
          /\ raw[Len(raw)].lo <= raw[Len(raw)].hi
      BY <1>5, <3>1
    <3>4. k = Len(raw) \/ k < Len(raw)
      BY <1>1, <3>1
    <3> QED BY <3>1, <3>2, <3>3, <3>4
  <2>4. \A j, k \in DOMAIN raw' : j < k => raw'[j].hi < raw'[k].lo
    <3> SUFFICES ASSUME NEW j \in DOMAIN raw', NEW k \in DOMAIN raw', j < k
                 PROVE  raw'[j].hi < raw'[k].lo
      OBVIOUS
    <3>1. j \in DOMAIN raw
      BY <1>1, <1>2
    <3>2. CASE k \in DOMAIN raw
      BY <1>2, <3>1, <3>2 DEF Partition
    <3>3. CASE k = Len(raw) + 1
      BY <1>2, <2>3, <3>1, <3>3
    <3> QED BY <1>4, <3>2, <3>3
  <2>5. \A x \in 1 .. p.hi : \E k \in DOMAIN raw' : x \in raw'[k].lo .. raw'[k].hi
    <3> SUFFICES ASSUME NEW x \in 1 .. p.hi
                 PROVE  \E k \in DOMAIN raw' : x \in raw'[k].lo .. raw'[k].hi
      OBVIOUS
    <3>1. CASE x \in p.lo .. p.hi
      <4>1. Len(raw) + 1 \in DOMAIN raw'
        BY <1>1, <1>2
      <4> QED BY <1>2, <3>1, <4>1
    <3>2. CASE x \notin p.lo .. p.hi
      <4>1. x \in 1 .. From - 1
        BY <1>5, <3>2
      <4>2. PICK k \in DOMAIN raw : x \in raw[k].lo .. raw[k].hi
        BY <4>1 DEF Partition
      <4>3. k \in DOMAIN raw'
        BY <1>1, <1>2
      <4> QED BY <1>2, <4>2, <4>3
    <3> QED BY <3>1, <3>2
  <2>6. \A k \in DOMAIN raw' : SizeOf(raw'[k]) <= ChunkSize
    BY <1>2, <1>4 DEF Partition
  <2>7. \A x \in 1 .. From' - 1 : x \in 1 .. p.hi
    BY <1>3, <1>5
  <2>8. \A x \in 1 .. From' - 1 : \E k \in DOMAIN raw' : x \in raw'[k].lo .. raw'[k].hi
    BY <2>5, <2>7
  <2> QED BY <2>1, <2>2, <2>4, <2>6, <2>8 DEF Partition, SizeOf, Count
<1>7. CutsHaveReasons'
  <2>1. \A k \in DOMAIN raw' :
          raw'[k].hi < Last => NoRoomBehind(raw'[k]) \/ EndOfLongUnit(raw'[k])
    BY <1>2, <1>4 DEF CutsHaveReasons
  <2>2. \A x : NoRoomBehind(x)' <=> NoRoomBehind(x)
    BY DEF NoRoomBehind, Depth, Count, Last
  <2>3. \A x : EndOfLongUnit(x)' <=> EndOfLongUnit(x)
    BY DEF EndOfLongUnit, Depth, Count
  <2>4. Last' = Last
    BY DEF Last
  <2> QED BY <2>1, <2>2, <2>3, <2>4 DEF CutsHaveReasons
<1> QED BY <1>2, <1>3, <1>6, <1>7

\* What is held back goes into raw, if anything is.
LEMMA FlushedGrows ==
  ASSUME text \in Texts, raw \in Seq(Pieces), Partition, CutsHaveReasons, HeldBack,
         current \in Pieces \cup {None},
         current # None /\ next <= Last => NoRoomBehind(current) \/ EndOfLongUnit(current),
         next \in 1 .. Last + 1, text' = text, raw' = Flushed
  PROVE  /\ raw' \in Seq(Pieces) /\ From' = next
         /\ Partition' /\ CutsHaveReasons'
<1>1. CASE current = None
  <2>1. raw' = raw /\ From = next
    BY <1>1 DEF Flushed, HeldBack
  <2>2. From' = From /\ Partition'
    BY <2>1 DEF From, Partition, SizeOf, Count
  <2>3. CutsHaveReasons'
    BY <2>1 DEF CutsHaveReasons, NoRoomBehind, EndOfLongUnit, Depth, Count, Last
  <2> QED BY <2>1, <2>2, <2>3
<1>2. CASE current # None
  <2>1. /\ raw' = Append(raw, current) /\ current \in Pieces /\ current.lo = From
        /\ current.hi = next - 1 /\ SizeOf(current) <= ChunkSize
    BY <1>2 DEF Flushed, HeldBack
  <2>2. current.hi + 1 = next /\ (current.hi < Last => next <= Last)
    BY <2>1, TextFacts
  <2>3. current.hi < Last => NoRoomBehind(current) \/ EndOfLongUnit(current)
    BY <1>2, <2>2
  <2> QED BY <2>1, <2>2, <2>3, RawGrows
<1> QED BY <1>1, <1>2

-----------------------------------------------------------------------------
\* The turns of the loop.

\* Nothing is chosen before the first turn.
LEMMA NothingChosen ==
  ASSUME turn' = 1, chunks' = <<>>
  PROVE  Chosen'
  BY DEF Chosen

\* What the steps of the split rely on.
LEMMA SplitFacts ==
  ASSUME IInv, pc = "split"
  PROVE  /\ text \in Texts /\ raw \in Seq(Pieces) /\ Partition /\ CutsHaveReasons
         /\ Last \in Nat /\ Last > 0 /\ turn = 1 /\ chunks = <<>>
         /\ stack \in Seq(Places) /\ Len(stack) = Level /\ Level \in 1 .. 5
         /\ \A l \in 1 .. Level : stack[l] \in Places
         /\ End = stack[Level] /\ End \in Places /\ End \in Nat /\ End <= Last
         /\ next \in 1 .. Last + 1 /\ next \in Nat /\ next >= 1 /\ next <= End + 1
         /\ current \in Pieces \cup {None}
         /\ CallsNest /\ HeldBack
         /\ \A j \in next + 1 .. End : Depth(j) >= Level
<1>1. TypeOK /\ Placed
  BY DEF IInv
<1>2. Partition /\ CutsHaveReasons
  BY DEF IInv
<1>3. text \in Texts /\ raw \in Seq(Pieces) /\ current \in Pieces \cup {None}
  BY <1>1, TypeParts
<1>4. stack \in Seq(Places) /\ Level <= 5
  BY <1>1, TypeParts
<1>5. next \in 1 .. Last + 1
  BY <1>1, TypeParts
<1>6. CallsNest /\ HeldBack /\ turn = 1 /\ chunks = <<>>
  BY <1>1 DEF Placed
<1>7. Last > 0 /\ Level > 0 /\ next <= End + 1
  BY <1>1 DEF Placed
<1>8. Last \in Nat
  BY <1>3, TextFacts
<1>9. Len(stack) = Level
  BY DEF Level
<1>10. Level \in 1 .. 5
  <2>1. Level \in Nat
    BY <1>4, <1>9
  <2> QED BY <1>4, <1>7, <2>1
<1>11. \A l \in 1 .. Level : stack[l] \in Places
  BY <1>4, <1>9
<1>12. End = stack[Level]
  BY DEF End
<1>13. End \in Places
  <2>1. Level \in 1 .. Level
    BY <1>10
  <2> QED BY <1>11, <1>12, <2>1
<1>14. End \in Nat /\ End <= Last
  BY <1>8, <1>13 DEF Places
<1>15. next \in Nat /\ next >= 1
  BY <1>5, <1>8
<1>16. \A j \in next + 1 .. End : Depth(j) >= Level
  <2>1. Level \in 1 .. Level
    BY <1>10
  <2> QED BY <1>6, <1>12, <2>1 DEF CallsNest
<1> QED BY <1>2, <1>3, <1>4, <1>5, <1>6, <1>7, <1>8, <1>9, <1>10, <1>11, <1>12, <1>13,
           <1>14, <1>15, <1>16

\* The next part of the loop.
LEMMA LoopFacts ==
  ASSUME IInv, InLoop
  PROVE  LET p == NextPart
         IN /\ p \in Pieces /\ p.lo = next /\ p.hi \in next .. End /\ p = Piece(next, p.hi)
            /\ next \in Places /\ p.hi \in Places /\ Level \in 1 .. 4
            /\ p.hi < End => Depth(p.hi + 1) = Level
            /\ \A j \in next + 1 .. p.hi : Depth(j) > Level
<1> DEFINE p == NextPart
<1>1. pc = "split" /\ Level \in 1 .. 4 /\ next <= End
  BY DEF InLoop, Separators
<1>2. /\ text \in Texts /\ Last \in Nat /\ End \in Places /\ End \in Nat /\ End <= Last
      /\ next \in Nat /\ next >= 1 /\ \A j \in next + 1 .. End : Depth(j) >= Level
  BY <1>1, SplitFacts
<1>3. next \in Places
  BY <1>1, <1>2 DEF Places
<1>4. /\ p \in Pieces /\ p.lo = next /\ p.hi \in next .. End
      /\ p.hi < End => Depth(p.hi + 1) = Level
      /\ \A j \in next + 1 .. p.hi : Depth(j) # Level
  BY <1>1, <1>2, <1>3, PartFacts DEF NextPart
<1>5. p.hi \in Places /\ p = Piece(next, p.hi)
  BY <1>4, PieceIsSome DEF Pieces, Piece
<1>6. \A j \in next + 1 .. p.hi : Depth(j) > Level
  <2> SUFFICES ASSUME NEW j \in next + 1 .. p.hi PROVE Depth(j) > Level
    OBVIOUS
  <2> HIDE DEF p
  <2>1. j \in next + 1 .. End /\ j \in Places
    BY <1>2, <1>4 DEF Places
  <2>2. Depth(j) >= Level /\ Depth(j) # Level /\ Depth(j) \in 1 .. 5
    BY <1>2, <1>4, <2>1, TextFacts
  <2> QED BY <1>1, <2>2
<1> QED BY <1>1, <1>3, <1>4, <1>5, <1>6

\* Further on there is less ahead.
LEMMA FewerAhead ==
  ASSUME NEW a \in Nat, NEW b \in Nat, a <= b, NEW e \in Int
  PROVE  b + 1 .. e \subseteq a + 1 .. e
  OBVIOUS

\* The open calls stay nested while the loop goes on.
LEMMA CallsStayNested ==
  ASSUME CallsNest, stack \in Seq(Places), Len(stack) = Level, next \in Nat, next' \in Nat,
         next <= next', stack' = stack, text' = text
  PROVE  CallsNest' /\ Level' = Level /\ End' = End
<1>1. Level' = Level /\ End' = End
  BY DEF Level, End
<1>2. \A l \in 1 .. Level : \A j \in next' + 1 .. stack[l] : Depth(j) >= l
  <2> SUFFICES ASSUME NEW l \in 1 .. Level, NEW j \in next' + 1 .. stack[l]
               PROVE  Depth(j) >= l
    OBVIOUS
  <2>1. stack[l] \in Places
    <3>1. l \in 1 .. Len(stack)
      OBVIOUS
    <3> HIDE DEF Places
    <3> QED BY <3>1
  <2>2. stack[l] \in Int
    BY <2>1 DEF Places
  <2>4. j \in next + 1 .. stack[l]
    BY <2>2, FewerAhead
  <2> QED BY <2>4 DEF CallsNest
<1>3. CallsNest'
  BY <1>1, <1>2 DEF CallsNest, Depth, Count, Last
<1> QED BY <1>1, <1>3

\* A part that fits is joined.
LEMMA JoinInv ==
  ASSUME IInv, Join
  PROVE  IInv'
<1> DEFINE p == NextPart
           lo == IF current = None THEN next ELSE current.lo
<1>1. /\ InLoop /\ pc = "split" /\ Joins(p) /\ current' = Piece(lo, p.hi) /\ next' = p.hi + 1
      /\ UNCHANGED <<text, pc, stack, raw, turn, chunks>>
  BY DEF Join, InLoop
<1>2. /\ text \in Texts /\ raw \in Seq(Pieces) /\ Partition /\ CutsHaveReasons
      /\ Last \in Nat /\ Last > 0 /\ turn = 1 /\ chunks = <<>>
      /\ stack \in Seq(Places) /\ Len(stack) = Level /\ Level \in 1 .. 5
      /\ End \in Nat /\ End <= Last /\ next \in Nat
      /\ current \in Pieces \cup {None} /\ CallsNest /\ HeldBack
  BY <1>1, SplitFacts
<1>3. /\ p.lo = next /\ p.hi \in next .. End /\ next \in Places /\ p.hi \in Places
      /\ Level \in 1 .. 4
      /\ p.hi < End => Depth(p.hi + 1) = Level
      /\ \A j \in next + 1 .. p.hi : Depth(j) > Level
  BY <1>1, LoopFacts
<1> HIDE DEF p
<1>4. lo = From /\ lo \in Places /\ lo <= next
  <2>1. CASE current = None
    BY <1>2, <1>3, <2>1 DEF HeldBack, Places
  <2>2. CASE current # None
    <3>1. current.lo = From /\ current.hi = next - 1 /\ current.lo \in Places /\ current.lo <= current.hi
      BY <1>2, <2>2, PieceIsSome DEF HeldBack
    <3> QED BY <1>2, <2>2, <3>1 DEF Places
  <2> QED BY <2>1, <2>2
<1>5. \A j \in lo + 1 .. p.hi : Depth(j) >= Level
  <2> SUFFICES ASSUME NEW j \in lo + 1 .. p.hi PROVE Depth(j) >= Level
    OBVIOUS
  <2>1. j \in Places /\ lo \in Nat /\ p.hi \in Nat
    BY <1>2, <1>3, <1>4 DEF Places
  <2>2. Depth(j) \in 1 .. 5
    BY <1>2, <2>1, TextFacts
  <2>3. CASE j > next
    BY <1>2, <1>3, <2>1, <2>2, <2>3
  <2>4. CASE ~ (j > next)
    <3>1. current # None
      BY <1>2, <2>1, <2>4
    <3>2. current.hi = next - 1 /\ lo = current.lo /\ (next <= End => Depth(next) = Level)
      BY <1>2, <3>1 DEF HeldBack
    <3>3. CASE j = next
      BY <1>2, <1>3, <3>2, <3>3
    <3>4. CASE j # next
      <4>1. j \in current.lo + 1 .. current.hi
        BY <1>2, <2>1, <2>4, <3>2, <3>4
      <4> QED BY <1>2, <3>1, <4>1 DEF HeldBack
    <3> QED BY <3>3, <3>4
  <2> QED BY <2>3, <2>4
<1> HIDE DEF lo
<1>6. current' \in Pieces /\ current'.lo = lo /\ current'.hi = p.hi
  BY <1>1, <1>2, <1>3, <1>4 DEF Pieces, Piece, Places
<1>7. Count(lo, p.hi) <= ChunkSize
  BY <1>1, <1>3 DEF Joins, lo
<1>8. next' \in 1 .. Last + 1 /\ next' \in Nat /\ next <= next' /\ next' <= End + 1
  BY <1>1, <1>2, <1>3
<1>9. CallsNest' /\ Level' = Level /\ End' = End
  BY <1>1, <1>2, <1>8, CallsStayNested
<1>10. From' = From /\ Last' = Last
  BY <1>1 DEF From, Last
<1>11. HeldBack'
  <2>1. current' # None /\ current'.hi = next' - 1
    BY <1>1, <1>3, <1>6, PieceIsSome DEF Places
  <2>2. SizeOf(current')  <= ChunkSize
    BY <1>6, <1>7 DEF SizeOf
  <2>3. next' <= End => Depth(next') = Level
    BY <1>1, <1>2, <1>3, <1>8
  <2>4. Level < 5
    BY <1>3
  <2> QED BY <1>1, <1>4, <1>5, <1>6, <1>9, <1>10, <2>1, <2>2, <2>3, <2>4
          DEF HeldBack, SizeOf, Count, Depth
<1>12. TypeOK'
  <2>1. TypeOK
    BY DEF IInv
  <2>2. Pieces' = Pieces /\ Places' = Places
    BY <1>10 DEF Pieces, Places
  <2> QED BY <1>1, <1>6, <1>8, <1>9, <1>10, <2>1, <2>2, TypeParts
          DEF TypeOK, Pieces, Places, Within
<1>13. Placed'
  BY <1>1, <1>2, <1>8, <1>9, <1>10, <1>11 DEF Placed
<1>14. Partition' /\ CutsHaveReasons'
  BY <1>1, <1>2, <1>10 DEF Partition, SizeOf, Count, CutsHaveReasons, NoRoomBehind, EndOfLongUnit, Depth
<1> QED BY <1>1, <1>2, <1>12, <1>13, <1>14, NothingChosen DEF IInv

\* What a step of the split leaves to be shown.
LEMMA SplitStep ==
  ASSUME IInv, pc = "split", UNCHANGED <<text, turn, chunks>>,
         raw' \in Seq(Pieces), Partition', CutsHaveReasons',
         stack' \in Seq(Places), Level' <= 5, next' \in 1 .. Last + 1,
         current' \in Pieces \cup {None}, pc' \in {"split", "overlap"},
         pc' = "split" => Level' > 0 /\ next' <= End' + 1 /\ CallsNest' /\ HeldBack',
         pc' = "overlap" => From' = Last + 1
  PROVE  IInv'
<1>1. text \in Texts /\ turn = 1 /\ chunks = <<>> /\ Last > 0
  BY SplitFacts
<1>2. Last' = Last /\ Pieces' = Pieces /\ Places' = Places
  BY DEF Last, Pieces, Places
<1>3. Len(raw') \in Nat
  OBVIOUS
<1>4. turn' \in 1 .. Len(raw') + 1
  BY <1>1, <1>3
<1>5. chunks' \in Seq([own : Pieces, overlap : Pieces \cup {None}])
  BY <1>1
<1>6. TypeOK'
  BY <1>1, <1>2, <1>4, <1>5 DEF TypeOK, Pieces, Places, Within
<1>7. Placed'
  BY <1>1, <1>2 DEF Placed
<1>8. Chosen'
  BY <1>1, NothingChosen
<1> QED BY <1>6, <1>7, <1>8 DEF IInv

\* There is no room for the next part beside what is held back.
LEMMA HeldBackHasReason ==
  ASSUME IInv, InLoop, ~ Joins(NextPart), current # None
  PROVE  NoRoomBehind(current)
<1> DEFINE p == NextPart
<1>1. pc = "split" /\ next <= End
  BY DEF InLoop
<1>2. /\ text \in Texts /\ current \in Pieces /\ HeldBack /\ End \in Nat /\ End <= Last
      /\ next \in Nat /\ Last \in Nat
  BY <1>1, SplitFacts
<1>3. /\ p.lo = next /\ p.hi \in next .. End /\ p.hi \in Places
      /\ \A j \in next + 1 .. p.hi : Depth(j) > Level
  BY LoopFacts
<1> HIDE DEF p
<1>4. /\ current.hi = next - 1 /\ Depth(next) = Level
      /\ \A j \in current.lo + 1 .. current.hi : Depth(j) >= Level
  BY <1>1, <1>2 DEF HeldBack
<1>5. current.lo \in Places /\ current.hi \in Places /\ current.lo <= current.hi
  BY <1>2, PieceIsSome
<1>6. current.hi + 1 = next /\ current.hi + 2 = next + 1 /\ current.lo <= p.hi
  BY <1>2, <1>3, <1>4, <1>5 DEF Places
<1>7. Count(current.lo, p.hi) \in Nat
  BY <1>2, <1>3, <1>5, <1>6, CountFacts
<1>8. ~ (Count(current.lo, p.hi) <= ChunkSize)
  BY DEF Joins, p
<1>9. Count(current.lo, p.hi) > ChunkSize
  BY <1>7, <1>8, Sizes
<1>10. p.hi \in current.hi + 1 .. Last
  BY <1>2, <1>3, <1>6
<1> QED BY <1>3, <1>4, <1>6, <1>9, <1>10 DEF NoRoomBehind

\* A part that does not fit beside what is held back takes its place.
LEMMA HoldInv ==
  ASSUME IInv, Hold
  PROVE  IInv'
<1> DEFINE p == NextPart
<1>1. /\ InLoop /\ pc = "split" /\ ~ Joins(p) /\ Count(next, p.hi) <= ChunkSize
      /\ raw' = Flushed /\ current' = p /\ next' = p.hi + 1
      /\ UNCHANGED <<text, pc, stack, turn, chunks>>
  BY DEF Hold, InLoop
<1>2. /\ text \in Texts /\ raw \in Seq(Pieces) /\ Partition /\ CutsHaveReasons
      /\ Last \in Nat /\ stack \in Seq(Places) /\ Len(stack) = Level /\ Level \in 1 .. 5
      /\ End \in Nat /\ End <= Last /\ next \in Nat /\ next \in 1 .. Last + 1
      /\ current \in Pieces \cup {None} /\ CallsNest /\ HeldBack
  BY <1>1, SplitFacts
<1>3. /\ p \in Pieces /\ p.lo = next /\ p.hi \in next .. End /\ Level \in 1 .. 4
      /\ p.hi < End => Depth(p.hi + 1) = Level
      /\ \A j \in next + 1 .. p.hi : Depth(j) > Level /\ Depth(j) >= Level
  <2>1. /\ p \in Pieces /\ p.lo = next /\ p.hi \in next .. End /\ Level \in 1 .. 4
        /\ p.hi < End => Depth(p.hi + 1) = Level
        /\ \A j \in next + 1 .. p.hi : Depth(j) > Level
    BY <1>1, LoopFacts
  <2> HIDE DEF p
  <2>2. ASSUME NEW j \in next + 1 .. p.hi PROVE Depth(j) >= Level
    <3>1. j \in Places
      BY <1>2, <2>1 DEF Places
    <3>2. Depth(j) \in 1 .. 5 /\ Depth(j) > Level
      BY <1>2, <2>1, <3>1, TextFacts
    <3> QED BY <1>2, <3>2
  <2> QED BY <2>1, <2>2
<1>4. current # None => NoRoomBehind(current)
  BY <1>1, HeldBackHasReason
<1> HIDE DEF p
<1>5. /\ raw' \in Seq(Pieces) /\ From' = next /\ Partition' /\ CutsHaveReasons'
  BY <1>1, <1>2, <1>4, FlushedGrows
<1>6. next' \in 1 .. Last + 1 /\ next' \in Nat /\ next <= next' /\ next' <= End + 1
  BY <1>1, <1>2, <1>3
<1>7. CallsNest' /\ Level' = Level /\ End' = End
  BY <1>1, <1>2, <1>6, CallsStayNested
<1>8. HeldBack'
  <2>1. current' # None /\ current'.lo = next /\ current'.hi = next' - 1
    BY <1>1, <1>2, <1>3, PieceIsSome
  <2>2. SizeOf(current') <= ChunkSize
    BY <1>1, <1>3 DEF SizeOf
  <2>3. \A j \in current'.lo + 1 .. current'.hi : Depth(j) >= Level
    BY <1>1, <1>3
  <2>4. Level < 5 /\ (next' <= End => Depth(next') = Level)
    BY <1>1, <1>2, <1>3
  <2> QED BY <1>1, <1>5, <1>7, <2>1, <2>2, <2>3, <2>4 DEF HeldBack, SizeOf, Count, Depth
<1>9. current' \in Pieces \cup {None} /\ stack' \in Seq(Places) /\ Level' <= 5 /\ Level' > 0
  BY <1>1, <1>2, <1>3, <1>7
<1> QED BY <1>1, <1>5, <1>6, <1>7, <1>8, <1>9, SplitStep

\* A part that does not fit a chunk is split by a call of its own.
LEMMA DescendInv ==
  ASSUME IInv, Descend
  PROVE  IInv'
<1> DEFINE p == NextPart
<1>1. /\ InLoop /\ pc = "split" /\ ~ Joins(p) /\ Count(next, p.hi) > ChunkSize
      /\ raw' = Flushed /\ current' = None /\ stack' = Append(stack, p.hi)
      /\ UNCHANGED <<text, pc, next, turn, chunks>>
  BY DEF Descend, InLoop
<1>2. /\ text \in Texts /\ raw \in Seq(Pieces) /\ Partition /\ CutsHaveReasons
      /\ Last \in Nat /\ stack \in Seq(Places) /\ Len(stack) = Level /\ Level \in 1 .. 5
      /\ \A l \in 1 .. Level : stack[l] \in Places
      /\ End \in Nat /\ End <= Last /\ next \in Nat /\ next \in 1 .. Last + 1
      /\ current \in Pieces \cup {None} /\ CallsNest /\ HeldBack /\ End = stack[Level]
  BY <1>1, SplitFacts
<1>3. /\ p \in Pieces /\ p.lo = next /\ p.hi \in next .. End /\ Level \in 1 .. 4
      /\ p.hi \in Places /\ next \in Places
      /\ p.hi < End => Depth(p.hi + 1) = Level
      /\ \A j \in next + 1 .. p.hi : Depth(j) > Level
  BY <1>1, LoopFacts
<1>4. current # None => NoRoomBehind(current)
  BY <1>1, HeldBackHasReason
<1> HIDE DEF p
<1>5. /\ raw' \in Seq(Pieces) /\ From' = next /\ Partition' /\ CutsHaveReasons'
  BY <1>1, <1>2, <1>4, FlushedGrows
<1>6. /\ stack' \in Seq(Places) /\ Len(stack') = Level + 1
      /\ stack'[Level + 1] = p.hi /\ \A l \in 1 .. Level : stack'[l] = stack[l]
  <2>1. /\ stack' \in Seq(Places) /\ Len(stack') = Len(stack) + 1
        /\ stack'[Len(stack) + 1] = p.hi /\ \A l \in 1 .. Len(stack) : stack'[l] = stack[l]
    <3> HIDE DEF Places
    <3> QED BY <1>1, <1>2, <1>3
  <2> QED BY <1>2, <2>1
<1>7. Level' = Level + 1 /\ End' = p.hi
  BY <1>6 DEF Level, End
<1>8. p.hi < Last => Depth(p.hi + 1) < Level + 1
  <2> SUFFICES ASSUME p.hi < Last PROVE Depth(p.hi + 1) < Level + 1
    OBVIOUS
  <2>1. CASE p.hi < End
    BY <1>3, <2>1
  <2>2. CASE p.hi = End
    <3>1. Level # 1
      BY <1>2, <2>2 DEF CallsNest
    <3>2. Level \in 2 .. Level
      BY <1>3, <3>1
    <3>3. Depth(End + 1) < Level
      BY <1>2, <2>2, <3>2 DEF CallsNest
    <3>4. End + 1 \in Places
      BY <1>2, <2>2 DEF Places
    <3>5. Depth(End + 1) \in 1 .. 5
      BY <1>2, <3>4, TextFacts
    <3> QED BY <1>3, <2>2, <3>3, <3>5
  <2> QED BY <1>2, <1>3, <2>1, <2>2
<1>9. \A j \in next + 1 .. p.hi : Depth(j) >= Level + 1
  <2> SUFFICES ASSUME NEW j \in next + 1 .. p.hi PROVE Depth(j) >= Level + 1
    OBVIOUS
  <2>1. j \in Places
    BY <1>2, <1>3 DEF Places
  <2>2. Depth(j) \in 1 .. 5 /\ Depth(j) > Level
    BY <1>2, <1>3, <2>1, TextFacts
  <2> QED BY <1>3, <2>2
<1>10. CallsNest'
  <2>1. stack'[1] = Last
    BY <1>2, <1>6 DEF CallsNest
  <2>2. \A l \in 2 .. Level + 1 :
          /\ stack'[l] <= stack'[l - 1]
          /\ stack'[l] < Last => Depth(stack'[l] + 1) < l
          /\ \E w \in 1 .. stack'[l] :
               /\ \A j \in w + 1 .. stack'[l] : Depth(j) >= l
               /\ Count(w, stack'[l]) > ChunkSize
    <3> SUFFICES ASSUME NEW l \in 2 .. Level + 1
                 PROVE  /\ stack'[l] <= stack'[l - 1]
                        /\ stack'[l] < Last => Depth(stack'[l] + 1) < l
                        /\ \E w \in 1 .. stack'[l] :
                             /\ \A j \in w + 1 .. stack'[l] : Depth(j) >= l
                             /\ Count(w, stack'[l]) > ChunkSize
      OBVIOUS
    <3>1. CASE l = Level + 1
      <4>1. stack'[l] = p.hi /\ stack'[l - 1] = End
        BY <1>2, <1>3, <1>6, <3>1
      <4>2. next \in 1 .. p.hi
        BY <1>2, <1>3
      <4>3. p.hi <= End
        BY <1>2, <1>3
      <4> QED BY <1>1, <1>8, <1>9, <3>1, <4>1, <4>2, <4>3
    <3>2. CASE l # Level + 1
      <4>1. l \in 2 .. Level /\ l \in 1 .. Level /\ l - 1 \in 1 .. Level
        BY <1>3, <3>2
      <4>2. stack'[l] = stack[l] /\ stack'[l - 1] = stack[l - 1]
        BY <1>6, <4>1
      <4> QED BY <1>2, <4>1, <4>2 DEF CallsNest
    <3> QED BY <3>1, <3>2
  <2>3. \A l \in 1 .. Level + 1 : \A j \in next + 1 .. stack'[l] : Depth(j) >= l
    <3> SUFFICES ASSUME NEW l \in 1 .. Level + 1, NEW j \in next + 1 .. stack'[l]
                 PROVE  Depth(j) >= l
      OBVIOUS
    <3>1. CASE l = Level + 1
      BY <1>6, <1>9, <3>1
    <3>2. CASE l # Level + 1
      <4>1. l \in 1 .. Level
        BY <1>3, <3>2
      <4> QED BY <1>2, <1>6, <4>1 DEF CallsNest
    <3> QED BY <3>1, <3>2
  <2> QED BY <1>1, <1>7, <2>1, <2>2, <2>3 DEF CallsNest, Depth, Count, Last
<1>11. HeldBack'
  BY <1>1, <1>5 DEF HeldBack
<1>12. Level' <= 5 /\ Level' > 0 /\ next' <= End' + 1 /\ next' \in 1 .. Last + 1
  BY <1>1, <1>2, <1>3, <1>7
<1> QED BY <1>1, <1>5, <1>6, <1>10, <1>11, <1>12, SplitStep

\* A slice of a word is a chunk, and as long as a chunk can be but for the last.
LEMMA SplitByTokensInv ==
  ASSUME IInv, SplitByTokens
  PROVE  IInv'
<1> DEFINE hi == Min({next + ChunkSize - 1, End})
           p == Piece(next, hi)
<1>1. /\ pc = "split" /\ Level = 5 /\ next <= End
      /\ raw' = Append(raw, p) /\ next' = hi + 1
      /\ UNCHANGED <<text, pc, stack, current, turn, chunks>>
  BY DEF SplitByTokens, Within
<1>2. /\ text \in Texts /\ raw \in Seq(Pieces) /\ Partition /\ CutsHaveReasons
      /\ Last \in Nat /\ stack \in Seq(Places) /\ Len(stack) = Level
      /\ End \in Nat /\ End <= Last /\ next \in Nat /\ next >= 1 /\ End = stack[Level]
      /\ current \in Pieces \cup {None} /\ CallsNest /\ HeldBack
      /\ \A j \in next + 1 .. End : Depth(j) >= 5
  BY <1>1, SplitFacts
<1>3. /\ hi \in next .. End /\ hi <= next + ChunkSize - 1
      /\ hi < End => hi = next + ChunkSize - 1
  <2>1. {next + ChunkSize - 1, End} \subseteq Nat
    BY <1>2, Sizes
  <2>2. hi \in {next + ChunkSize - 1, End} /\ hi <= End /\ hi <= next + ChunkSize - 1
    BY <2>1, MinIsSmallest
  <2> HIDE DEF hi
  <2> QED BY <1>1, <1>2, <2>2, Sizes
<1> HIDE DEF hi
<1>4. next \in Places /\ hi \in Places /\ next \in Nat /\ hi \in Nat
  BY <1>1, <1>2, <1>3 DEF Places
<1>5. p \in Pieces /\ p.lo = next /\ p.hi = hi
  BY <1>2, <1>3, <1>4 DEF Pieces, Piece
<1>6. \A j \in next + 1 .. End : Depth(j) = 5
  <2> SUFFICES ASSUME NEW j \in next + 1 .. End PROVE Depth(j) = 5
    OBVIOUS
  <2>1. j \in Places
    BY <1>2 DEF Places
  <2> QED BY <1>2, <2>1, TextFacts
<1>7. SizeOf(p) <= ChunkSize
  <2>1. \A j \in next + 1 .. hi : Depth(j) = 5
    BY <1>2, <1>3, <1>6
  <2>2. Count(next, hi) = hi - next + 1
    BY <1>2, <1>3, <1>4, <2>1, CountWithin
  <2> QED BY <1>3, <1>4, <1>5, <2>2, Sizes DEF SizeOf
<1>8. current = None /\ From = next
  BY <1>1, <1>2 DEF HeldBack
<1>9. hi < Last => NoRoomBehind(p) \/ EndOfLongUnit(p)
  <2> SUFFICES ASSUME hi < Last PROVE NoRoomBehind(p) \/ EndOfLongUnit(p)
    OBVIOUS
  <2>1. CASE hi < End
    <3>1. hi + 1 \in next + 1 .. End /\ hi + 1 \in Places /\ next <= hi + 1
      BY <1>2, <1>3, <1>4, <2>1 DEF Places
    <3>2. Depth(hi + 1) = 5
      BY <1>6, <3>1
    <3>3. \A j \in next + 1 .. hi : Depth(j) >= 5
      BY <1>2, <1>3
    <3>4. Count(next, hi + 1) > ChunkSize
      <4>1. Count(next, hi + 1) \in Nat /\ Count(next, hi + 1) >= hi + 1 - next + 1
        BY <1>2, <1>4, <3>1, CountFacts
      <4> QED BY <1>3, <1>4, <2>1, <4>1, Sizes
    <3>5. hi + 1 \in hi + 1 .. Last /\ \A j \in hi + 2 .. hi + 1 : FALSE
      BY <1>2, <1>4, <2>1, <1>3
    <3>6. NoRoomBehind(p)
      BY <1>5, <3>2, <3>3, <3>4, <3>5 DEF NoRoomBehind
    <3> QED BY <3>6
  <2>2. CASE hi = End
    <3>1. 5 \in 2 .. Level
      BY <1>1
    <3>2. Depth(End + 1) < 5
      BY <1>1, <1>2, <2>2, <3>1 DEF CallsNest
    <3>3. PICK w \in 1 .. End : (\A j \in w + 1 .. End : Depth(j) >= 5) /\ Count(w, End) > ChunkSize
      BY <1>1, <1>2, <3>1 DEF CallsNest
    <3>4. \A j \in w + 1 .. End : Depth(j) > Depth(End + 1)
      <4> SUFFICES ASSUME NEW j \in w + 1 .. End PROVE Depth(j) > Depth(End + 1)
        OBVIOUS
      <4>1. j \in Places /\ End + 1 \in Places
        BY <1>2, <2>2 DEF Places
      <4>2. Depth(j) \in 1 .. 5 /\ Depth(End + 1) \in 1 .. 5 /\ Depth(j) >= 5
        BY <1>2, <3>3, <4>1, TextFacts
      <4> QED BY <3>2, <4>2
    <3>5. EndOfLongUnit(p)
      BY <1>5, <2>2, <3>3, <3>4 DEF EndOfLongUnit
    <3> QED BY <3>5
  <2> QED BY <1>2, <1>3, <2>1, <2>2
<1>10. /\ raw' \in Seq(Pieces) /\ From' = next' /\ Partition' /\ CutsHaveReasons'
  <2> HIDE DEF p
  <2> QED BY <1>1, <1>2, <1>5, <1>7, <1>8, <1>9, RawGrows
<1>11. next' \in 1 .. Last + 1 /\ next' \in Nat /\ next <= next' /\ next' <= End + 1
  BY <1>1, <1>2, <1>3, <1>4
<1>12. CallsNest' /\ Level' = Level /\ End' = End
  BY <1>1, <1>2, <1>11, CallsStayNested
<1>13. HeldBack'
  BY <1>1, <1>8, <1>10 DEF HeldBack
<1>14. Level' <= 5 /\ Level' > 0 /\ current' \in Pieces \cup {None} /\ stack' \in Seq(Places)
  BY <1>1, <1>2, <1>12
<1> QED BY <1>1, <1>10, <1>11, <1>12, <1>13, <1>14, SplitStep

\* The end of a call: what is held back comes out, and the caller goes on.
LEMMA ReturnInv ==
  ASSUME IInv, Return
  PROVE  IInv'
<1>1. /\ pc = "split" /\ next > End /\ raw' = Flushed /\ current' = None
      /\ stack' = SubSeq(stack, 1, Level - 1)
      /\ pc' = IF Level = 1 THEN "overlap" ELSE "split"
      /\ UNCHANGED <<text, next, turn, chunks>>
  BY DEF Return
<1>2. /\ text \in Texts /\ raw \in Seq(Pieces) /\ Partition /\ CutsHaveReasons
      /\ Last \in Nat /\ stack \in Seq(Places) /\ Len(stack) = Level /\ Level \in 1 .. 5
      /\ \A l \in 1 .. Level : stack[l] \in Places
      /\ End \in Nat /\ End <= Last /\ next \in Nat /\ next <= End + 1 /\ End = stack[Level]
      /\ next \in 1 .. Last + 1
      /\ current \in Pieces \cup {None} /\ CallsNest /\ HeldBack
  BY <1>1, SplitFacts
<1>3. next = End + 1
  BY <1>1, <1>2
<1>4. ASSUME current # None, next <= Last PROVE EndOfLongUnit(current)
  <2>1. current.hi = End /\ current.hi + 1 = next
    BY <1>2, <1>3, <1>4 DEF HeldBack
  <2>2. Level # 1
    BY <1>2, <1>3, <1>4 DEF CallsNest
  <2>3. Level \in 2 .. Level
    BY <1>2, <2>2
  <2>4. Depth(End + 1) < Level
    BY <1>2, <1>3, <1>4, <2>3 DEF CallsNest
  <2>5. PICK w \in 1 .. End :
          (\A j \in w + 1 .. End : Depth(j) >= Level) /\ Count(w, End) > ChunkSize
    BY <1>2, <2>3 DEF CallsNest
  <2>6. \A j \in w + 1 .. End : Depth(j) > Depth(End + 1)
    <3> SUFFICES ASSUME NEW j \in w + 1 .. End PROVE Depth(j) > Depth(End + 1)
      OBVIOUS
    <3>1. j \in Places /\ End + 1 \in Places
      BY <1>2, <1>3, <1>4 DEF Places
    <3>2. Depth(j) \in 1 .. 5 /\ Depth(End + 1) \in 1 .. 5 /\ Depth(j) >= Level
      BY <1>2, <2>5, <3>1, TextFacts
    <3>3. Level \in 1 .. 5
      BY <1>2
    <3> QED BY <2>4, <3>2, <3>3
  <2> QED BY <1>3, <2>1, <2>5, <2>6 DEF EndOfLongUnit
<1>5. /\ raw' \in Seq(Pieces) /\ From' = next /\ Partition' /\ CutsHaveReasons'
  BY <1>1, <1>2, <1>4, FlushedGrows
<1>6. /\ stack' \in Seq(Places) /\ Len(stack') = Level - 1
      /\ \A l \in 1 .. Level - 1 : stack'[l] = stack[l]
  <2> HIDE DEF Places
  <2>1. \A i \in 1 .. Level - 1 : stack[i] \in Places
    BY <1>2
  <2> QED BY <1>1, <1>2, <2>1
<1>7. Level' = Level - 1 /\ (Level > 1 => End' = stack[Level - 1])
  BY <1>2, <1>6 DEF Level, End
<1>8. CASE Level = 1
  <2>1. pc' = "overlap" /\ End = Last
    BY <1>1, <1>2, <1>8 DEF CallsNest
  <2>2. From' = Last + 1
    BY <1>3, <1>5, <2>1
  <2>3. Level' <= 5 /\ pc' # "split" /\ current' \in Pieces \cup {None}
        /\ next' \in 1 .. Last + 1
    BY <1>1, <1>2, <1>7, <1>8, <2>1
  <2> QED BY <1>1, <1>5, <1>6, <2>1, <2>2, <2>3, SplitStep
<1>9. CASE Level # 1
  <2>1. pc' = "split" /\ Level \in 2 .. Level /\ Level - 1 \in 1 .. 4
    BY <1>1, <1>2, <1>9
  <2>2. stack[Level] <= stack[Level - 1] /\ stack[Level - 1] \in Nat
    BY <1>2, <2>1 DEF CallsNest, Places
  <2>3. next' <= End' + 1
    BY <1>1, <1>2, <1>3, <1>7, <2>1, <2>2
  <2>4. CallsNest'
    <3>1. stack'[1] = Last
      BY <1>2, <1>6, <2>1 DEF CallsNest
    <3>2. \A l \in 2 .. Level - 1 :
            /\ stack'[l] <= stack'[l - 1]
            /\ stack'[l] < Last => Depth(stack'[l] + 1) < l
            /\ \E w \in 1 .. stack'[l] :
                 /\ \A j \in w + 1 .. stack'[l] : Depth(j) >= l
                 /\ Count(w, stack'[l]) > ChunkSize
      <4> SUFFICES ASSUME NEW l \in 2 .. Level - 1
                   PROVE  /\ stack'[l] <= stack'[l - 1]
                          /\ stack'[l] < Last => Depth(stack'[l] + 1) < l
                          /\ \E w \in 1 .. stack'[l] :
                               /\ \A j \in w + 1 .. stack'[l] : Depth(j) >= l
                               /\ Count(w, stack'[l]) > ChunkSize
        OBVIOUS
      <4>1. l \in 2 .. Level /\ l \in 1 .. Level - 1 /\ l - 1 \in 1 .. Level - 1
        BY <1>2
      <4>2. stack'[l] = stack[l] /\ stack'[l - 1] = stack[l - 1]
        BY <1>6, <4>1
      <4> QED BY <1>2, <4>1, <4>2 DEF CallsNest
    <3>3. \A l \in 1 .. Level - 1 : \A j \in next + 1 .. stack'[l] : Depth(j) >= l
      <4> SUFFICES ASSUME NEW l \in 1 .. Level - 1, NEW j \in next + 1 .. stack'[l]
                   PROVE  Depth(j) >= l
        OBVIOUS
      <4>1. l \in 1 .. Level
        BY <1>2
      <4> QED BY <1>2, <1>6, <4>1 DEF CallsNest
    <3> QED BY <1>1, <1>7, <3>1, <3>2, <3>3 DEF CallsNest, Depth, Count, Last
  <2>5. HeldBack'
    BY <1>1, <1>5 DEF HeldBack
  <2>6. Level' <= 5 /\ Level' > 0 /\ pc' # "overlap" /\ current' \in Pieces \cup {None}
        /\ next' \in 1 .. Last + 1
    BY <1>1, <1>2, <1>7, <2>1
  <2> QED BY <1>1, <1>5, <1>6, <2>1, <2>3, <2>4, <2>5, <2>6, SplitStep
<1> QED BY <1>8, <1>9

-----------------------------------------------------------------------------
\* Before and behind the split.

\* What a chunk is made of, and how long it may be.
LEMMA OverlapFacts ==
  ASSUME text \in Texts, raw \in Seq(Pieces), NEW k \in DOMAIN raw, NEW c \in WithOverlap(k)
  PROVE  /\ c \in [own : Pieces, overlap : Pieces \cup {None}] /\ c.own = raw[k]
         /\ raw[k] \in Pieces /\ SizeOf(raw[k]) \in Nat
         /\ k = 1 \/ Overlap = 0 => ChunkTokens(c) \subseteq Recoded(SizeOf(raw[k]))
         /\ k # 1 /\ Overlap > 0 =>
              /\ k - 1 \in DOMAIN raw /\ raw[k - 1] \in Pieces
              /\ c.overlap \in Pieces
              /\ c.overlap.lo \in TailStarts(raw[k - 1]) /\ c.overlap.hi = raw[k - 1].hi
              /\ ChunkTokens(c) =
                   Recoded(SizeOf(raw[k]) + Count(c.overlap.lo, raw[k - 1].hi))
<1>1. raw[k] \in Pieces /\ k \in Nat /\ k >= 1 /\ DOMAIN raw = 1 .. Len(raw)
  OBVIOUS
<1>2. PICK o \in OverlapOf(k) : c = [own |-> raw[k], overlap |-> o]
  BY DEF WithOverlap
<1>3. c.own = raw[k] /\ c.overlap = o
  BY <1>2
<1>4. SizeOf(raw[k]) \in Nat /\ SizeOf(raw[k]) >= 1
  <2>1. /\ raw[k].lo \in Places /\ raw[k].hi \in Places /\ raw[k].lo <= raw[k].hi
        /\ raw[k].lo \in Nat /\ raw[k].hi \in Nat
    BY <1>1, PieceIsSome DEF Places
  <2> QED BY <2>1, CountFacts DEF SizeOf
<1>5. CASE k = 1 \/ Overlap = 0
  <2>1. o = None
    BY <1>5 DEF OverlapOf
  <2>2. SizeOf(raw[k]) \in Recoded(SizeOf(raw[k]))
    BY <1>4, Sizes DEF Recoded
  <2>3. ChunkTokens(c) \in {Recoded(SizeOf(raw[k])), {SizeOf(raw[k])}}
    BY <1>3, <2>1 DEF ChunkTokens, SizeOf
  <2>4. ChunkTokens(c) \subseteq Recoded(SizeOf(raw[k]))
    BY <2>2, <2>3
  <2> QED BY <1>1, <1>2, <1>3, <1>4, <1>5, <2>1, <2>4, Sizes
<1>6. CASE k # 1 /\ Overlap > 0
  <2> DEFINE q == raw[k - 1]
  <2>1. k - 1 \in DOMAIN raw /\ q \in Pieces
    BY <1>1, <1>6
  <2>2. PICK i \in TailStarts(q) : o = Piece(i, q.hi)
    BY <1>6, Sizes DEF OverlapOf
  <2>3. i \in Places /\ i \in q.lo .. q.hi /\ q.lo \in Places /\ q.hi \in Places
    BY <2>1, TailFacts, PieceIsSome
  <2> HIDE DEF q
  <2>4. o \in Pieces /\ o.lo = i /\ o.hi = q.hi
    BY <2>2, <2>3, TextFacts DEF Pieces, Piece, Places
  <2>5. o # None
    BY <2>4, PieceIsSome
  <2>6. ChunkTokens(c) = Recoded(SizeOf(raw[k]) + Count(i, q.hi))
    BY <1>3, <2>4, <2>5 DEF ChunkTokens, SizeOf
  <2> QED BY <1>1, <1>2, <1>3, <1>4, <1>6, <2>1, <2>2, <2>4, <2>6 DEF q
<1>7. (k = 1 \/ Overlap = 0) \/ (k # 1 /\ Overlap > 0)
  BY Sizes
<1> QED BY <1>5, <1>6, <1>7

\* The first state.
LEMMA InitialInv == Init => IInv
<1> SUFFICES ASSUME Init PROVE IInv
  OBVIOUS
<1>1. /\ text \in Texts /\ pc = "start" /\ stack = <<>> /\ next = 1 /\ current = None
      /\ raw = <<>> /\ turn = 1 /\ chunks = <<>>
  BY DEF Init
<1>2. Last \in Nat /\ Level = 0 /\ Len(raw) = 0
  BY <1>1, TextFacts DEF Level
<1>3. TypeOK
  <2>1. next \in 1 .. Last + 1 /\ turn \in 1 .. Len(raw) + 1 /\ Level <= 5
    BY <1>1, <1>2
  <2>2. /\ stack \in Seq(Places) /\ raw \in Seq(Pieces)
        /\ chunks \in Seq([own : Pieces, overlap : Pieces \cup {None}])
    BY <1>1
  <2> QED BY <1>1, <2>1, <2>2, TypeParts
<1>4. Partition /\ CutsHaveReasons
  BY <1>1 DEF Partition, From, CutsHaveReasons
<1>5. Placed /\ Chosen
  BY <1>1 DEF Placed, Chosen
<1> QED BY <1>3, <1>4, <1>5 DEF IInv

\* A text is a chunk, is to be split, or is empty.
LEMMA StartInv ==
  ASSUME IInv, Start
  PROVE  IInv'
<1>1. /\ text \in Texts /\ pc = "start" /\ stack = <<>> /\ next = 1 /\ current = None
      /\ raw = <<>> /\ turn = 1 /\ chunks = <<>> /\ Partition /\ CutsHaveReasons /\ TypeOK
      /\ raw \in Seq(Pieces) /\ UNCHANGED <<text, next, current, turn, chunks>>
  BY TypeParts DEF IInv, Placed, Start
<1>2. Last \in Nat /\ Last' = Last /\ Pieces' = Pieces /\ Places' = Places
  BY <1>1, TextFacts DEF Last, Pieces, Places
<1>3. From = 1
  BY <1>1, FromFacts
<1>4. Chosen'
  BY <1>1, NothingChosen
<1>5. Last = 0 \/ Last > 0
  BY <1>2
<1>6. CASE Last = 0
  <2>1. pc' = "empty" /\ UNCHANGED <<stack, raw>>
    BY <1>2, <1>6 DEF Start
  <2>2. TypeOK'
    BY <1>1, <1>2, <2>1 DEF TypeOK, Level
  <2>3. Partition' /\ CutsHaveReasons' /\ From' = From
    BY <1>1, <1>2, <2>1
    DEF Partition, From, SizeOf, Count, CutsHaveReasons, NoRoomBehind, EndOfLongUnit, Depth
  <2>4. Placed'
    BY <1>1, <1>2, <1>3, <1>6, <2>1, <2>3 DEF Placed
  <2> QED BY <1>4, <2>2, <2>3, <2>4 DEF IInv
<1>7. CASE Last > 0 /\ Count(1, Last) <= ChunkSize
  <2> DEFINE p == Piece(1, Last)
  <2>1. pc' = "overlap" /\ raw' = <<p>> /\ UNCHANGED stack
    BY <1>2, <1>7 DEF Start
  <2>2. p \in Pieces /\ p.lo = From /\ SizeOf(p) <= ChunkSize /\ p.hi = Last
    BY <1>2, <1>3, <1>7 DEF Pieces, Places, Piece, SizeOf
  <2>3. raw' = Append(raw, p)
    BY <1>1, <2>1
  <2>4. raw' \in Seq(Pieces) /\ From' = Last + 1 /\ Partition' /\ CutsHaveReasons'
    <3> HIDE DEF p
    <3>1. ~ (p.hi < Last)
      BY <1>2, <2>2
    <3> QED BY <1>1, <2>2, <2>3, <3>1, RawGrows
  <2>5. TypeOK'
    <3>1. turn' \in 1 .. Len(raw') + 1
      BY <1>1, <2>1
    <3> QED BY <1>1, <1>2, <2>1, <2>4, <3>1 DEF TypeOK, Level, Pieces, Places
  <2>6. Placed'
    BY <1>1, <1>2, <2>1, <2>4 DEF Placed
  <2> QED BY <1>4, <2>4, <2>5, <2>6 DEF IInv
<1>8. CASE Last > 0 /\ ~ (Count(1, Last) <= ChunkSize)
  <2>1. pc' = "split" /\ stack' = <<Last>> /\ UNCHANGED raw
    BY <1>2, <1>8 DEF Start
  <2>2. Level' = 1 /\ End' = Last /\ Last \in Places
    BY <1>2, <1>8, <2>1 DEF Level, End, Places
  <2>3. TypeOK'
    <3>1. stack' \in Seq(Places)
      BY <2>1, <2>2
    <3> QED BY <1>1, <1>2, <2>1, <2>2, <3>1 DEF TypeOK, Places, Within
  <2>4. Partition' /\ CutsHaveReasons' /\ From' = From
    BY <1>1, <1>2, <2>1
    DEF Partition, From, SizeOf, Count, CutsHaveReasons, NoRoomBehind, EndOfLongUnit, Depth
  <2>5. CallsNest'
    <3>1. stack'[1] = Last
      BY <2>1
    <3>2. \A l \in 2 .. 1 : FALSE
      OBVIOUS
    <3>3. \A l \in 1 .. 1 : \A j \in next + 1 .. stack'[l] : Depth(j) >= l
      <4> SUFFICES ASSUME NEW j \in 2 .. Last PROVE Depth(j) >= 1
        BY <1>1, <3>1
      <4>1. j \in Places
        BY <1>2 DEF Places
      <4> QED BY <1>1, <4>1, TextFacts
    <3> QED BY <1>1, <1>2, <2>2, <3>1, <3>2, <3>3 DEF CallsNest, Depth
  <2>6. HeldBack'
    BY <1>1, <1>3, <2>4 DEF HeldBack
  <2>7. Placed'
    BY <1>1, <1>2, <1>8, <2>1, <2>2, <2>5, <2>6 DEF Placed
  <2> QED BY <1>4, <2>3, <2>4, <2>7 DEF IInv
<1> QED BY <1>5, <1>6, <1>7, <1>8

\* What may be made of the pieces depends on nothing else.
LEMMA OverlapsStay ==
  ASSUME UNCHANGED <<text, raw>>
  PROVE  /\ Last' = Last /\ Pieces' = Pieces /\ Places' = Places /\ From' = From
         /\ \A i : WithOverlap(i)' = WithOverlap(i)
         /\ \A i : MayDrop(i)' <=> MayDrop(i)
<1>1. \A lo, hi : Count(lo, hi)' = Count(lo, hi)
  BY DEF Count
<1>2. Last' = Last /\ Pieces' = Pieces /\ Places' = Places /\ From' = From
  BY DEF Last, Pieces, Places, From
<1>3. \A p : Torn(p)' <=> Torn(p)
  BY <1>2 DEF Torn, Depth
<1>4. \A p : TailStarts(p)' = TailStarts(p)
  BY <1>3 DEF TailStarts, Count
<1>5. \A i : WithOverlap(i)' = WithOverlap(i)
  BY <1>4 DEF WithOverlap, OverlapOf, TailStarts, Count, Torn, Depth, Last
<1>6. \A c : ChunkTokens(c)' = ChunkTokens(c)
  BY <1>2, <1>3 DEF ChunkTokens, Count
<1>7. \A i : MayDrop(i)' <=> MayDrop(i)
  BY <1>5, <1>6 DEF MayDrop, WithOverlap, OverlapOf, TailStarts, ChunkTokens, Count, Torn, Depth, Last
<1> QED BY <1>2, <1>5, <1>7

\* A piece with its overlap is chosen if it is long enough.
LEMMA ApplyOverlapInv ==
  ASSUME IInv, ApplyOverlap
  PROVE  IInv'
<1>c. PICK c \in WithOverlap(turn) : \E n \in ChunkTokens(c) :
        chunks' = IF LongEnough(n) THEN Append(chunks, c) ELSE chunks
  BY DEF ApplyOverlap
<1>n. PICK n \in ChunkTokens(c) :
        chunks' = IF LongEnough(n) THEN Append(chunks, c) ELSE chunks
  BY <1>c
<1>1. /\ pc = "overlap" /\ turn <= Len(raw) /\ turn' = turn + 1
      /\ chunks' = IF LongEnough(n) THEN Append(chunks, c) ELSE chunks
      /\ UNCHANGED <<text, pc, stack, next, current, raw>>
  BY <1>n DEF ApplyOverlap
<1>2. /\ text \in Texts /\ raw \in Seq(Pieces) /\ turn \in 1 .. Len(raw) + 1 /\ TypeOK
      /\ chunks \in Seq([own : Pieces, overlap : Pieces \cup {None}])
      /\ Partition /\ CutsHaveReasons /\ Placed /\ Chosen
      /\ Len(raw) \in Nat /\ DOMAIN raw = 1 .. Len(raw)
  BY TypeParts, FromFacts DEF IInv
<1>3. turn \in DOMAIN raw /\ turn \in Nat
  BY <1>1, <1>2
<1>4. c \in [own : Pieces, overlap : Pieces \cup {None}] /\ c.own = raw[turn]
  BY <1>2, <1>3, OverlapFacts
<1>5. /\ Last' = Last /\ Pieces' = Pieces /\ Places' = Places /\ From' = From
      /\ \A i : WithOverlap(i)' = WithOverlap(i)
      /\ \A i : MayDrop(i)' <=> MayDrop(i)
  BY <1>1, OverlapsStay
<1>7. chunks' \in Seq([own : Pieces, overlap : Pieces \cup {None}])
  <2> DEFINE R == [own : Pieces, overlap : Pieces \cup {None}]
  <2>1. chunks \in Seq(R) /\ c \in R
    BY <1>2, <1>4
  <2> HIDE DEF R
  <2>2. CASE LongEnough(n)
    <3>1. Append(chunks, c) \in Seq(R)
      BY <2>1
    <3>2. chunks' \in Seq(R)
      BY <1>1, <2>2, <3>1
    <3> QED BY <3>2 DEF R
  <2>3. CASE ~ LongEnough(n)
    <3>1. chunks' \in Seq(R)
      BY <1>1, <2>1, <2>3
    <3> QED BY <3>1 DEF R
  <2> QED BY <2>2, <2>3
<1>8. TypeOK'
  <2>1. turn' \in 1 .. Len(raw') + 1
    BY <1>1, <1>2, <1>3
  <2> QED BY <1>1, <1>2, <1>5, <1>7, <2>1 DEF TypeOK, Level, Pieces, Places
<1>9. Partition' /\ CutsHaveReasons'
  BY <1>1, <1>2, <1>5
  DEF Partition, SizeOf, Count, CutsHaveReasons, NoRoomBehind, EndOfLongUnit, Depth
<1>10. Placed'
  BY <1>1, <1>2, <1>5 DEF Placed
<1>11. \A i \in 1 .. turn' - 1 : i \in 1 .. turn - 1 \/ i = turn
  BY <1>1, <1>3
<1>12. \A i \in 1 .. turn - 1 : i \in 1 .. turn' - 1 /\ i \in DOMAIN raw /\ i < turn
  BY <1>1, <1>2, <1>3
<1>13. Chosen'
  <2>1. CASE ~ LongEnough(n)
    <3>1. chunks' = chunks
      BY <1>1, <2>1
    <3>2. \A i \in 1 .. turn' - 1 :
            MayDrop(i) \/ \E k \in DOMAIN chunks : chunks[k] \in WithOverlap(i)
      BY <1>n, <1>2, <1>11, <2>1 DEF Chosen, MayDrop
    <3> QED BY <1>2, <1>5, <1>12, <3>1, <3>2 DEF Chosen
  <2>2. CASE LongEnough(n)
    <3>1. /\ chunks' = Append(chunks, c) /\ Len(chunks) \in Nat
          /\ DOMAIN chunks = 1 .. Len(chunks) /\ DOMAIN chunks' = 1 .. Len(chunks) + 1
          /\ chunks'[Len(chunks) + 1] = c /\ \A k \in DOMAIN chunks : chunks'[k] = chunks[k]
      BY <1>1, <1>2, <1>4, <2>2
    <3>2. \A k \in DOMAIN chunks' : k \in DOMAIN chunks \/ k = Len(chunks) + 1
      BY <3>1
    <3>3. turn \in 1 .. turn' - 1
      BY <1>1, <1>3
    <3>4. \A k \in DOMAIN chunks' : \E i \in 1 .. turn' - 1 : chunks'[k] \in WithOverlap(i)
      <4> SUFFICES ASSUME NEW k \in DOMAIN chunks'
                   PROVE  \E i \in 1 .. turn' - 1 : chunks'[k] \in WithOverlap(i)
        OBVIOUS
      <4>1. CASE k \in DOMAIN chunks
        <5>1. PICK i \in 1 .. turn - 1 : chunks[k] \in WithOverlap(i)
          BY <1>2, <4>1 DEF Chosen
        <5> QED BY <1>12, <3>1, <4>1, <5>1
      <4>2. CASE k = Len(chunks) + 1
        BY <1>n, <3>1, <3>3, <4>2
      <4> QED BY <3>2, <4>1, <4>2
    <3>5. \A i \in 1 .. turn' - 1 :
            MayDrop(i) \/ \E k \in DOMAIN chunks' : chunks'[k] \in WithOverlap(i)
      <4> SUFFICES ASSUME NEW i \in 1 .. turn' - 1, ~ MayDrop(i)
                   PROVE  \E k \in DOMAIN chunks' : chunks'[k] \in WithOverlap(i)
        OBVIOUS
      <4>1. CASE i \in 1 .. turn - 1
        <5>1. PICK k \in DOMAIN chunks : chunks[k] \in WithOverlap(i)
          BY <1>2, <4>1 DEF Chosen
        <5>2. k \in DOMAIN chunks'
          BY <3>1
        <5> QED BY <3>1, <5>1, <5>2
      <4>2. CASE i = turn
        <5>1. Len(chunks) + 1 \in DOMAIN chunks'
          BY <3>1
        <5> QED BY <1>n, <3>1, <4>2, <5>1
      <4> QED BY <1>11, <4>1, <4>2
    <3>6. \A k \in DOMAIN chunks : chunks[k].own.hi < c.own.lo
      <4> SUFFICES ASSUME NEW k \in DOMAIN chunks PROVE chunks[k].own.hi < c.own.lo
        OBVIOUS
      <4>1. PICK i \in 1 .. turn - 1 : chunks[k] \in WithOverlap(i)
        BY <1>2 DEF Chosen
      <4>2. chunks[k].own = raw[i]
        BY <1>2, <1>12, <4>1, OverlapFacts
      <4> QED BY <1>2, <1>3, <1>4, <1>12, <4>1, <4>2 DEF Partition
    <3>7. \A j, k \in DOMAIN chunks' : j < k => chunks'[j].own.hi < chunks'[k].own.lo
      <4> SUFFICES ASSUME NEW j \in DOMAIN chunks', NEW k \in DOMAIN chunks', j < k
                   PROVE  chunks'[j].own.hi < chunks'[k].own.lo
        OBVIOUS
      <4>1. j \in DOMAIN chunks
        BY <3>1
      <4>2. CASE k \in DOMAIN chunks
        BY <1>2, <3>1, <4>1, <4>2 DEF Chosen
      <4>3. CASE k = Len(chunks) + 1
        BY <3>1, <3>6, <4>1, <4>3
      <4> QED BY <3>2, <4>2, <4>3
    <3> QED BY <1>5, <3>4, <3>5, <3>7 DEF Chosen
  <2> QED BY <2>1, <2>2
<1> QED BY <1>8, <1>9, <1>10, <1>13 DEF IInv

\* The end changes nothing else.
LEMMA FinishInv ==
  ASSUME IInv, Finish \/ UNCHANGED vars
  PROVE  IInv'
<1>1. UNCHANGED <<text, stack, next, current, raw, turn, chunks>>
  BY DEF Finish, vars
<1>2. \/ pc' = pc
      \/ pc = "overlap" /\ turn > Len(raw) /\ pc' \in {"chunked", "empty"}
  BY DEF Finish, vars
<1>3. TypeOK /\ Partition /\ CutsHaveReasons /\ Placed /\ Chosen
  BY DEF IInv
<1>4. TypeOK'
  BY <1>1, <1>2, <1>3 DEF TypeOK, Level, Last
<1>5. Partition' /\ CutsHaveReasons'
  BY <1>1, <1>3 DEF Partition, From, SizeOf, Count, CutsHaveReasons, NoRoomBehind, EndOfLongUnit, Depth, Last
<1>6. Chosen'
  <2>1. \A i : WithOverlap(i)' = WithOverlap(i) /\ (MayDrop(i)' <=> MayDrop(i))
    BY <1>1, OverlapsStay
  <2> QED BY <1>1, <1>3, <2>1 DEF Chosen
<1>7. Placed'
  <2>1. turn > Len(raw) => turn = Len(raw) + 1
    <3>1. turn \in 1 .. Len(raw) + 1 /\ raw \in Seq(Pieces)
      BY <1>3, TypeParts
    <3>2. Len(raw) \in Nat
      BY <3>1
    <3> QED BY <3>1, <3>2
  <2>2. CallsNest' <=> CallsNest
    BY <1>1 DEF CallsNest, Level, Depth, Count, Last
  <2>3. HeldBack' <=> HeldBack
    BY <1>1 DEF HeldBack, From, SizeOf, Count, Depth, Level, End
  <2>4. From' = From /\ Last' = Last /\ Level' = Level /\ End' = End
    BY <1>1 DEF From, Last, Level, End
  <2> QED BY <1>1, <1>2, <1>3, <2>1, <2>2, <2>3, <2>4 DEF Placed
<1> QED BY <1>4, <1>5, <1>6, <1>7 DEF IInv

\* The inductive invariant holds in every state.
THEOREM Invariant == Spec => []IInv
<1>1. IInv /\ [Next]_vars => IInv'
  BY StartInv, JoinInv, HoldInv, DescendInv, SplitByTokensInv, ReturnInv, ApplyOverlapInv,
     FinishInv DEF Next, Terminated
<1> QED BY InitialInv, <1>1, PTL DEF Spec

-----------------------------------------------------------------------------
\* What follows for the chunks.

\* Every variable keeps its shape.
THEOREM TypeCorrect == Spec => []TypeOK
<1>1. IInv => TypeOK
  BY DEF IInv
<1> QED BY Invariant, <1>1, PTL

\* What is known of the pieces in raw.
LEMMA RawFacts ==
  ASSUME IInv
  PROVE  /\ text \in Texts /\ raw \in Seq(Pieces) /\ Last \in Nat
         /\ Len(raw) \in Nat /\ DOMAIN raw = 1 .. Len(raw)
         /\ \A k \in DOMAIN raw :
              /\ raw[k] \in Pieces /\ raw[k].lo \in Places /\ raw[k].hi \in Places
              /\ raw[k].lo <= raw[k].hi /\ raw[k].lo \in Nat /\ raw[k].hi \in Nat
              /\ SizeOf(raw[k]) \in Nat /\ SizeOf(raw[k]) <= ChunkSize
              /\ SizeOf(raw[k]) >= raw[k].hi - raw[k].lo + 1
         /\ \A k \in DOMAIN raw : k > 1 =>
              k - 1 \in DOMAIN raw /\ raw[k].lo = raw[k - 1].hi + 1
<1>1. TypeOK /\ Partition
  BY DEF IInv
<1>2. text \in Texts /\ raw \in Seq(Pieces) /\ Last \in Nat
  BY <1>1, TypeParts, TextFacts
<1>3. Len(raw) \in Nat /\ DOMAIN raw = 1 .. Len(raw)
  BY <1>2, FromFacts
<1>4. \A k \in DOMAIN raw :
        /\ raw[k] \in Pieces /\ raw[k].lo \in Places /\ raw[k].hi \in Places
        /\ raw[k].lo <= raw[k].hi /\ raw[k].lo \in Nat /\ raw[k].hi \in Nat
        /\ SizeOf(raw[k]) \in Nat /\ SizeOf(raw[k]) <= ChunkSize
        /\ SizeOf(raw[k]) >= raw[k].hi - raw[k].lo + 1
  <2> SUFFICES ASSUME NEW k \in DOMAIN raw
               PROVE  /\ raw[k] \in Pieces /\ raw[k].lo \in Places /\ raw[k].hi \in Places
                      /\ raw[k].lo <= raw[k].hi /\ raw[k].lo \in Nat /\ raw[k].hi \in Nat
                      /\ SizeOf(raw[k]) \in Nat /\ SizeOf(raw[k]) <= ChunkSize
                      /\ SizeOf(raw[k]) >= raw[k].hi - raw[k].lo + 1
    OBVIOUS
  <2>1. raw[k] \in Pieces
    BY <1>2
  <2>2. /\ raw[k].lo \in Places /\ raw[k].hi \in Places /\ raw[k].lo <= raw[k].hi
        /\ raw[k].lo \in Nat /\ raw[k].hi \in Nat
    BY <2>1, PieceIsSome DEF Places
  <2>3. SizeOf(raw[k]) \in Nat /\ SizeOf(raw[k]) >= raw[k].hi - raw[k].lo + 1
    BY <1>2, <2>2, CountFacts DEF SizeOf
  <2> QED BY <1>1, <2>1, <2>2, <2>3 DEF Partition
<1>5. \A k \in DOMAIN raw : k > 1 => k - 1 \in DOMAIN raw /\ raw[k].lo = raw[k - 1].hi + 1
  <2> SUFFICES ASSUME NEW k \in DOMAIN raw, k > 1
               PROVE  k - 1 \in DOMAIN raw /\ raw[k].lo = raw[k - 1].hi + 1
    OBVIOUS
  <2>1. k - 1 \in DOMAIN raw /\ (k - 1) + 1 = k
    BY <1>3
  <2> QED BY <1>1, <2>1 DEF Partition
<1> QED BY <1>2, <1>3, <1>4, <1>5

\* Each chunk is a piece of raw with its overlap.
LEMMA ChunkIsOfRaw ==
  ASSUME IInv, NEW k \in DOMAIN chunks
  PROVE  \E i \in DOMAIN raw : chunks[k] \in WithOverlap(i) /\ i \in 1 .. turn - 1
<1>1. PICK i \in 1 .. turn - 1 : chunks[k] \in WithOverlap(i)
  BY DEF IInv, Chosen
<1>2. turn \in 1 .. Len(raw) + 1
  BY TypeParts DEF IInv
<1>3. i \in DOMAIN raw
  BY <1>2, RawFacts
<1> QED BY <1>1, <1>3

\* What a chunk has of its own fits the chunk size, and all of it exceeds chunk
\* size and overlap by no more than encoding anew explains.
THEOREM SizesAreBounded == Spec => []SizeBounded
<1>1. ASSUME IInv PROVE SizeBounded
  <2> SUFFICES ASSUME NEW k \in DOMAIN chunks
               PROVE  /\ SizeOf(chunks[k].own) <= ChunkSize
                      /\ \A n \in ChunkTokens(chunks[k]) :
                           n <= ChunkSize + Overlap + Grow + Shrink
    BY DEF SizeBounded, SizeOf
  <2>1. PICK i \in DOMAIN raw : chunks[k] \in WithOverlap(i)
    BY <1>1, ChunkIsOfRaw
  <2>2. /\ text \in Texts /\ raw \in Seq(Pieces) /\ SizeOf(raw[i]) \in Nat
        /\ SizeOf(raw[i]) <= ChunkSize /\ chunks[k].own = raw[i]
    BY <1>1, <2>1, RawFacts, OverlapFacts
  <2>3. ASSUME NEW n \in ChunkTokens(chunks[k])
        PROVE  n <= ChunkSize + Overlap + Grow + Shrink
    <3>1. CASE i = 1 \/ Overlap = 0
      <4>1. n \in Recoded(SizeOf(raw[i]))
        BY <2>1, <2>2, <2>3, <3>1, OverlapFacts
      <4> QED BY <2>2, <4>1, Sizes DEF Recoded
    <3>2. CASE i # 1 /\ Overlap > 0
      <4> DEFINE tail == Count(chunks[k].overlap.lo, raw[i - 1].hi)
      <4>1. /\ n \in Recoded(SizeOf(raw[i]) + tail) /\ raw[i - 1] \in Pieces
            /\ chunks[k].overlap.lo \in TailStarts(raw[i - 1])
        BY <2>1, <2>2, <2>3, <3>2, OverlapFacts
      <4>2. tail \in Nat /\ tail <= Overlap + Shrink
        BY <2>2, <4>1, TailFacts
      <4> HIDE DEF tail
      <4> QED BY <2>2, <4>1, <4>2, Sizes DEF Recoded
    <3> QED BY <3>1, <3>2, Sizes
  <2> QED BY <2>2, <2>3
<1> QED BY Invariant, <1>1, PTL

\* The chunks follow the text, and each overlap is the text right before.
THEOREM TextIsFollowed == Spec => []ChunksFollowText
<1>1. ASSUME IInv PROVE ChunksFollowText
  <2> SUFFICES ASSUME NEW k \in DOMAIN chunks
               PROVE  LET c == chunks[k]
                      IN /\ c.own.lo <= c.own.hi /\ c.own.hi <= Last
                         /\ k > 1 => chunks[k - 1].own.hi < c.own.lo
                         /\ c.own.lo > 1 /\ Overlap > 0 =>
                              c.overlap.lo <= c.overlap.hi /\ c.overlap.hi = c.own.lo - 1
    BY DEF ChunksFollowText
  <2>1. PICK i \in DOMAIN raw : chunks[k] \in WithOverlap(i)
    BY <1>1, ChunkIsOfRaw
  <2>2. /\ text \in Texts /\ raw \in Seq(Pieces) /\ Last \in Nat
        /\ raw[i].lo \in Places /\ raw[i].hi \in Places /\ raw[i].lo <= raw[i].hi
        /\ DOMAIN raw = 1 .. Len(raw)
    BY <1>1, RawFacts
  <2>3. chunks[k].own = raw[i]
    BY <2>1, <2>2, OverlapFacts
  <2>4. k > 1 => chunks[k - 1].own.hi < chunks[k].own.lo
    <3> SUFFICES ASSUME k > 1 PROVE chunks[k - 1].own.hi < chunks[k].own.lo
      OBVIOUS
    <3>1. k - 1 \in DOMAIN chunks /\ k - 1 < k
      <4>1. chunks \in Seq([own : Pieces, overlap : Pieces \cup {None}])
        BY <1>1, TypeParts DEF IInv
      <4>2. DOMAIN chunks = 1 .. Len(chunks) /\ Len(chunks) \in Nat
        BY <4>1
      <4> QED BY <4>2
    <3> QED BY <1>1, <3>1 DEF IInv, Chosen
  <2>5. ASSUME raw[i].lo > 1, Overlap > 0
        PROVE  /\ chunks[k].overlap.lo <= chunks[k].overlap.hi
               /\ chunks[k].overlap.hi = raw[i].lo - 1
    <3>1. i # 1
      <4>1. raw # <<>> => raw[1].lo = 1
        BY <1>1 DEF IInv, Partition
      <4>2. raw # <<>>
        BY <2>2
      <4> QED BY <2>5, <4>1, <4>2
    <3>2. /\ i - 1 \in DOMAIN raw /\ chunks[k].overlap \in Pieces
          /\ chunks[k].overlap.hi = raw[i - 1].hi
      BY <2>1, <2>2, <2>5, <3>1, OverlapFacts
    <3>3. i > 1
      BY <2>2, <3>1
    <3>4. raw[i].lo = raw[i - 1].hi + 1 /\ raw[i - 1].hi \in Nat
      BY <1>1, <3>2, <3>3, RawFacts
    <3> QED BY <3>2, <3>4, PieceIsSome
  <2> QED BY <2>2, <2>3, <2>4, <2>5 DEF Places
<1> QED BY Invariant, <1>1, PTL

\* A reason for a cut is a unit that is too long.
LEMMA ReasonIsLongUnit ==
  ASSUME text \in Texts, NEW p \in Pieces, p.hi < Last, NoRoomBehind(p) \/ EndOfLongUnit(p)
  PROVE  UnitTooLong(p.hi + 1)
<1>1. p.lo \in Nat /\ p.hi \in Nat /\ Last \in Nat /\ p.lo >= 1 /\ p.lo <= p.hi
  BY PieceIsSome, TextFacts DEF Places
<1>2. \A j \in Places : Depth(j) \in Nat
  BY TextFacts
<1>3. CASE NoRoomBehind(p)
  <2>1. PICK u \in p.hi + 1 .. Last :
          /\ \A j \in p.hi + 2 .. u : Depth(j) > Depth(p.hi + 1)
          /\ Count(p.lo, u) > ChunkSize
    BY <1>3 DEF NoRoomBehind
  <2>2. \A j \in p.lo + 1 .. u : Depth(j) >= Depth(p.hi + 1)
    <3> SUFFICES ASSUME NEW j \in p.lo + 1 .. u PROVE Depth(j) >= Depth(p.hi + 1)
      OBVIOUS
    <3>1. j \in Places /\ p.hi + 1 \in Places
      BY <1>1 DEF Places
    <3>2. j \in p.lo + 1 .. p.hi \/ j = p.hi + 1 \/ j \in p.hi + 2 .. u
      BY <1>1
    <3>3. Depth(j) \in Nat /\ Depth(p.hi + 1) \in Nat
      BY <1>2, <3>1
    <3>4. j \in p.lo + 1 .. p.hi => Depth(j) >= Depth(p.hi + 1)
      BY <1>3 DEF NoRoomBehind
    <3>5. j \in p.hi + 2 .. u => Depth(j) > Depth(p.hi + 1)
      BY <2>1
    <3>6. j = p.hi + 1 => Depth(j) = Depth(p.hi + 1)
      OBVIOUS
    <3> QED BY <3>2, <3>3, <3>4, <3>5, <3>6
  <2>3. p.lo \in 1 .. (p.hi + 1) - 1 /\ u \in p.hi + 1 .. Last
    BY <1>1
  <2> QED BY <2>1, <2>2, <2>3 DEF UnitTooLong
<1>4. CASE EndOfLongUnit(p)
  <2>1. PICK w \in 1 .. p.hi :
          /\ \A j \in w + 1 .. p.hi : Depth(j) > Depth(p.hi + 1)
          /\ Count(w, p.hi) > ChunkSize
    BY <1>4 DEF EndOfLongUnit
  <2>2. w \in Places /\ p.hi \in Places /\ p.hi + 1 \in Places /\ w <= p.hi + 1 /\ w \in Nat
    BY <1>1 DEF Places
  <2>3. Count(w, p.hi + 1) > ChunkSize
    <3>1. text.at[p.hi + 1] - text.at[p.hi] >= p.hi + 1 - p.hi
      BY <1>1, <2>2, AtGrows
    <3>2. {text.at[p.hi + 1], text.at[p.hi], text.at[w]} \subseteq Nat
      BY <2>2, TextFacts
    <3> QED BY <1>1, <2>1, <3>1, <3>2, Sizes DEF Count
  <2>4. \A j \in w + 1 .. p.hi + 1 : Depth(j) >= Depth(p.hi + 1)
    <3> SUFFICES ASSUME NEW j \in w + 1 .. p.hi + 1 PROVE Depth(j) >= Depth(p.hi + 1)
      OBVIOUS
    <3>1. j \in Places /\ (j \in w + 1 .. p.hi \/ j = p.hi + 1)
      BY <1>1, <2>2 DEF Places
    <3>2. Depth(j) \in Nat /\ Depth(p.hi + 1) \in Nat
      BY <1>2, <2>2, <3>1
    <3>3. j \in w + 1 .. p.hi => Depth(j) > Depth(p.hi + 1)
      BY <2>1
    <3>4. j = p.hi + 1 => Depth(j) = Depth(p.hi + 1)
      OBVIOUS
    <3> QED BY <3>1, <3>2, <3>3, <3>4
  <2>5. w \in 1 .. (p.hi + 1) - 1 /\ p.hi + 1 \in p.hi + 1 .. Last
    BY <1>1
  <2> QED BY <2>3, <2>4, <2>5 DEF UnitTooLong
<1> QED BY <1>3, <1>4

\* A unit is cut only if it is too long.
THEOREM CutsAreNeeded == Spec => []CutsOnlyTooLong
<1>1. ASSUME IInv PROVE CutsOnlyTooLong
  <2> SUFFICES ASSUME NEW k \in DOMAIN chunks
               PROVE  /\ chunks[k].own.lo > 1 => UnitTooLong(chunks[k].own.lo)
                      /\ chunks[k].own.hi < Last => UnitTooLong(chunks[k].own.hi + 1)
    BY DEF CutsOnlyTooLong
  <2>1. PICK i \in DOMAIN raw : chunks[k] \in WithOverlap(i)
    BY <1>1, ChunkIsOfRaw
  <2>2. text \in Texts /\ raw \in Seq(Pieces) /\ Last \in Nat /\ raw[i] \in Pieces
    BY <1>1, RawFacts
  <2>3. chunks[k].own = raw[i]
    BY <2>1, <2>2, OverlapFacts
  <2>4. \A j \in DOMAIN raw : raw[j].hi < Last => UnitTooLong(raw[j].hi + 1)
    BY <1>1, <2>2, RawFacts, ReasonIsLongUnit DEF IInv, CutsHaveReasons
  <2>5. ASSUME raw[i].lo > 1 PROVE UnitTooLong(raw[i].lo)
    <3>1. i # 1
      <4>1. raw # <<>> => raw[1].lo = 1
        BY <1>1 DEF IInv, Partition
      <4>2. raw # <<>>
        BY <2>2
      <4> QED BY <2>5, <4>1, <4>2
    <3>2. i - 1 \in DOMAIN raw /\ raw[i].lo = raw[i - 1].hi + 1
      BY <1>1, <3>1, RawFacts
    <3>3. raw[i - 1].hi < Last
      BY <1>1, <2>2, <3>2, RawFacts DEF Places
    <3> QED BY <2>4, <3>2, <3>3
  <2> QED BY <2>3, <2>4, <2>5
<1> QED BY Invariant, <1>1, PTL

-----------------------------------------------------------------------------
\* What is lost.

\* A piece may be dropped only if it is short, and with all of the piece before
\* it.
LEMMA DroppedIsShort ==
  ASSUME IInv, ShortFits, NEW k \in DOMAIN raw, MayDrop(k)
  PROVE  /\ SizeOf(raw[k]) < Short
         /\ k > 1 => SizeOf(raw[k - 1]) + SizeOf(raw[k]) < Short
<1>1. /\ text \in Texts /\ raw \in Seq(Pieces) /\ SizeOf(raw[k]) \in Nat
      /\ SizeOf(raw[k]) >= 1 /\ DOMAIN raw = 1 .. Len(raw) /\ Last \in Nat
  BY RawFacts
<1>0. PICK c \in WithOverlap(k) : \E n \in ChunkTokens(c) : ~ (n >= MinTokens)
  BY DEF MayDrop, LongEnough
<1>2. PICK n \in ChunkTokens(c) : ~ (n >= MinTokens)
  BY <1>0
<1>3. /\ MinTokens \in Nat /\ MinTokens > 0 /\ Overlap \in Nat /\ Grow \in Nat /\ Shrink \in Nat
      /\ Short = MinTokens + Shrink /\ Short + Grow <= Overlap /\ Overlap > 0
  BY Sizes DEF ShortFits, Short
<1>4. CASE k = 1
  <2>1. n \in Recoded(SizeOf(raw[k]))
    BY <1>1, <1>2, <1>4, OverlapFacts
  <2> QED BY <1>1, <1>2, <1>3, <1>4, <2>1 DEF Recoded
<1>5. CASE k # 1
  <2> DEFINE ts == c.overlap.lo
             tail == Count(ts, raw[k - 1].hi)
  <2>1. /\ n \in Recoded(SizeOf(raw[k]) + tail) /\ ts \in TailStarts(raw[k - 1])
        /\ k - 1 \in DOMAIN raw /\ raw[k - 1] \in Pieces
    BY <1>1, <1>2, <1>3, <1>5, OverlapFacts
  <2>2. tail \in Nat /\ (ts # raw[k - 1].lo => tail + 1 + Grow >= Overlap)
    BY <1>1, <2>1, TailFacts
  <2>3. ts = raw[k - 1].lo => tail = SizeOf(raw[k - 1])
    BY DEF SizeOf
  <2> HIDE DEF ts, tail
  <2>4. SizeOf(raw[k]) + tail < Short
    BY <1>1, <1>2, <1>3, <2>1, <2>2 DEF Recoded
  <2>5. ts = raw[k - 1].lo
    BY <1>1, <1>3, <2>2, <2>4
  <2> QED BY <1>1, <1>3, <2>2, <2>3, <2>4, <2>5
<1> QED BY <1>4, <1>5

\* Text that is in no chunk is of dropped pieces, and the piece behind them is
\* dropped, too.
LEMMA LostIsDropped ==
  ASSUME IInv, ShortFits, pc \in {"chunked", "empty"},
         NEW k \in DOMAIN raw, NEW x \in raw[k].lo .. raw[k].hi, ~ Kept(x)
  PROVE  MayDrop(k) /\ (k < Len(raw) => MayDrop(k + 1))
<1>1. /\ text \in Texts /\ raw \in Seq(Pieces) /\ raw[k] \in Pieces
      /\ SizeOf(raw[k]) \in Nat /\ Len(raw) \in Nat /\ DOMAIN raw = 1 .. Len(raw)
  BY RawFacts
<1>2. turn = Len(raw) + 1
  BY DEF IInv, Placed
<1>3. \A i \in DOMAIN raw : ~ MayDrop(i) => \E c \in DOMAIN chunks : chunks[c] \in WithOverlap(i)
  BY <1>1, <1>2 DEF IInv, Chosen
<1>4. MayDrop(k)
  <2> SUFFICES ASSUME ~ MayDrop(k) PROVE FALSE
    OBVIOUS
  <2>1. PICK c \in DOMAIN chunks : chunks[c] \in WithOverlap(k)
    BY <1>3
  <2>2. chunks[c].own = raw[k]
    BY <1>1, <2>1, OverlapFacts
  <2>3. x \in chunks[c].own.lo .. chunks[c].own.hi
    BY <2>2
  <2> QED BY <2>3 DEF Kept
<1>5. ASSUME k < Len(raw) PROVE MayDrop(k + 1)
  <2> SUFFICES ASSUME ~ MayDrop(k + 1) PROVE FALSE
    OBVIOUS
  <2>1. k + 1 \in DOMAIN raw /\ k + 1 # 1 /\ (k + 1) - 1 = k
    BY <1>1, <1>5
  <2>2. PICK c \in DOMAIN chunks : chunks[c] \in WithOverlap(k + 1)
    BY <1>3, <2>1
  <2>3. Short \in Nat /\ Short + Grow <= Overlap /\ Overlap > 0
    BY Sizes DEF ShortFits, Short
  <2>4. /\ chunks[c].overlap.lo \in TailStarts(raw[k]) /\ chunks[c].overlap.hi = raw[k].hi
    BY <1>1, <2>1, <2>2, <2>3, OverlapFacts
  <2>5. SizeOf(raw[k]) + Grow <= Overlap
    BY <1>1, <1>4, <2>3, DroppedIsShort, Sizes
  <2>6. chunks[c].overlap.lo = raw[k].lo
    BY <1>1, <2>4, <2>5, TailFacts
  <2>7. x \in chunks[c].overlap.lo .. chunks[c].overlap.hi
    BY <2>4, <2>6
  <2> QED BY <2>7 DEF Kept
<1> QED BY <1>4, <1>5

\* Between two pieces that would fit together, with room to spare, there is a
\* separator that ranks above the next one, or above the one before.
LEMMA NeighbourDeeper ==
  ASSUME IInv, ShortFits, pc \in {"chunked", "empty"},
         NEW k \in DOMAIN raw, k > 1, SizeOf(raw[k - 1]) + SizeOf(raw[k]) < Short
  PROVE  \/ k < Len(raw) /\ Depth(raw[k + 1].lo) > Depth(raw[k].lo)
         \/ k > 2 /\ Depth(raw[k - 1].lo) > Depth(raw[k].lo)
<1> DEFINE p == raw[k - 1]
           b == raw[k]
<1>1. /\ text \in Texts /\ raw \in Seq(Pieces) /\ Last \in Nat
      /\ Len(raw) \in Nat /\ DOMAIN raw = 1 .. Len(raw)
      /\ k - 1 \in DOMAIN raw /\ b.lo = p.hi + 1
  BY RawFacts
<1>2. /\ p.lo \in Places /\ p.hi \in Places /\ b.lo \in Places /\ b.hi \in Places
      /\ SizeOf(p) \in Nat /\ SizeOf(b) \in Nat
  BY <1>1, RawFacts
<1>0. /\ p.lo \in Nat /\ p.hi \in Nat /\ b.lo \in Nat /\ b.hi \in Nat
      /\ p.lo <= p.hi /\ b.lo <= b.hi /\ p.lo >= 1 /\ b.hi <= Last
      /\ b.lo = p.hi + 1 /\ Last \in Nat
  <2>1. p.lo <= p.hi /\ b.lo <= b.hi
    BY <1>1, RawFacts
  <2> QED BY <1>1, <1>2, <2>1, SMTT(20) DEF Places
<1>3. Short \in Nat /\ ChunkSize \in Nat /\ Short <= ChunkSize
  BY Sizes DEF ShortFits, Short
<1>4. Count(p.lo, b.hi) <= ChunkSize /\ Count(p.lo, p.hi) <= ChunkSize
  <2>1. /\ Count(p.lo, b.hi) = Count(p.lo, b.lo - 1) + SepTokens[Depth(b.lo)] + Count(b.lo, b.hi)
        /\ SepTokens[Depth(b.lo)] \in {0, 1}
    <3>1. p.lo < b.lo
      BY <1>0
    <3> QED BY <1>0, <1>1, <1>2, <3>1, CountJoined
  <2>2. b.lo - 1 = p.hi
    BY <1>0
  <2>3. Count(p.lo, p.hi) = SizeOf(p) /\ Count(b.lo, b.hi) = SizeOf(b)
    BY DEF SizeOf
  <2> HIDE DEF p, b
  <2>4. SizeOf(p) + SizeOf(b) < Short
    BY DEF p, b
  <2> QED BY <1>2, <1>3, <2>1, <2>2, <2>3, <2>4
<1>5. From = Last + 1
  BY DEF IInv, Placed
<1>6. b.hi < Last => k < Len(raw)
  <2>1. raw # <<>> /\ k <= Len(raw)
    BY <1>1
  <2>2. k = Len(raw) => From = b.hi + 1
    BY <2>1 DEF From
  <2>3. b.hi < Last => k # Len(raw)
    BY <1>0, <1>5, <2>2
  <2> QED BY <1>1, <2>1, <2>3
<1>7. p.lo > 1 => k > 2
  <2>1. raw # <<>>
    BY <1>1
  <2>2. raw[1].lo = 1
    BY <2>1 DEF IInv, Partition
  <2>3. k - 1 # 1 => k > 2
    BY <1>1
  <2> QED BY <2>2, <2>3
<1>8. NoRoomBehind(p) \/ EndOfLongUnit(p)
  <2>1. p.hi < Last
    BY <1>0
  <2> QED BY <1>1, <2>1 DEF IInv, CutsHaveReasons
<1>9. k < Len(raw) => raw[k + 1].lo = b.hi + 1
  <2>1. k < Len(raw) => k \in DOMAIN raw /\ k + 1 \in DOMAIN raw
    BY <1>1
  <2> QED BY <2>1 DEF IInv, Partition
<1> SUFFICES \/ k < Len(raw) /\ Depth(raw[k + 1].lo) > Depth(b.lo)
             \/ k > 2 /\ Depth(p.lo) > Depth(b.lo)
  OBVIOUS
<1> HIDE DEF p, b
<1>10. CASE NoRoomBehind(p)
  <2>1. PICK u \in p.hi + 1 .. Last :
          /\ \A j \in p.hi + 2 .. u : Depth(j) > Depth(p.hi + 1)
          /\ Count(p.lo, u) > ChunkSize
    BY <1>10 DEF NoRoomBehind
  <2>2. u \in Nat /\ p.hi + 1 <= u /\ u <= Last
    BY <1>0
  <2>3. u > b.hi
    <3> SUFFICES ASSUME u <= b.hi PROVE FALSE
      BY <1>0, <2>2
    <3>1. p.lo \in p.lo .. b.hi /\ u \in p.lo .. b.hi
      BY <1>0, <2>2
    <3>2. Count(p.lo, u) <= Count(p.lo, b.hi)
      BY <1>1, <1>2, <3>1, CountMonotone
    <3>3. u \in Places /\ p.lo <= u /\ p.lo <= b.hi
      BY <1>0, <2>2 DEF Places
    <3>4. Count(p.lo, u) \in Nat /\ Count(p.lo, b.hi) \in Nat
      BY <1>1, <1>2, <3>3, CountFacts
    <3> QED BY <1>3, <1>4, <2>1, <3>2, <3>4
  <2>4. k < Len(raw)
    <3>1. b.hi < Last
      BY <1>0, <2>2, <2>3
    <3> QED BY <1>6, <3>1
  <2>5. raw[k + 1].lo = b.hi + 1
    BY <1>9, <2>4
  <2>6. b.hi + 1 \in p.hi + 2 .. u
    BY <1>0, <2>2, <2>3
  <2>7. Depth(b.hi + 1) > Depth(p.hi + 1)
    BY <2>1, <2>6
  <2> QED BY <1>0, <2>4, <2>5, <2>7
<1>11. CASE EndOfLongUnit(p)
  <2>1. PICK w \in 1 .. p.hi :
          /\ \A j \in w + 1 .. p.hi : Depth(j) > Depth(p.hi + 1)
          /\ Count(w, p.hi) > ChunkSize
    BY <1>11 DEF EndOfLongUnit
  <2>2. w \in Nat /\ 1 <= w /\ w <= p.hi
    BY <1>0
  <2>3. w < p.lo
    <3> SUFFICES ASSUME p.lo <= w PROVE FALSE
      BY <1>0, <2>2
    <3>1. w \in p.lo .. p.hi /\ p.hi \in w .. p.hi
      BY <1>0, <2>2
    <3>2. Count(w, p.hi) <= Count(p.lo, p.hi)
      BY <1>0, <1>1, <1>2, <3>1, CountMonotone
    <3>3. w \in Places /\ w <= p.hi /\ p.lo <= p.hi
      BY <1>0, <2>2 DEF Places
    <3>4. Count(w, p.hi) \in Nat /\ Count(p.lo, p.hi) \in Nat
      BY <1>1, <1>2, <3>3, CountFacts
    <3> QED BY <1>3, <1>4, <2>1, <3>2, <3>4
  <2>4. k > 2
    <3>1. p.lo > 1
      BY <1>0, <2>2, <2>3
    <3> QED BY <1>7, <3>1
  <2>5. p.lo \in w + 1 .. p.hi
    BY <1>0, <2>2, <2>3
  <2>6. Depth(p.lo) > Depth(p.hi + 1)
    BY <2>1, <2>5
  <2> QED BY <1>0, <2>4, <2>6
<1> QED BY <1>8, <1>10, <1>11

\* Behind a short piece there is a separator.
LEMMA SeparatorBehindShort ==
  ASSUME IInv, ShortFits, NEW k \in DOMAIN raw, k > 1, SizeOf(raw[k - 1]) < Short
  PROVE  Depth(raw[k].lo) \in 1 .. 4
<1> DEFINE p == raw[k - 1]
<1>1. /\ text \in Texts /\ Last \in Nat /\ k - 1 \in DOMAIN raw
      /\ raw[k].lo = p.hi + 1 /\ raw[k].lo \in Places
  BY RawFacts
<1>2. /\ p.lo \in Places /\ p.hi \in Places /\ p.lo <= p.hi /\ p.hi + 1 \in Places
      /\ p.lo \in Nat /\ p.hi \in Nat /\ SizeOf(p) \in Nat /\ p.hi < Last
  BY <1>1, RawFacts DEF Places
<1>3. Short \in Nat /\ ChunkSize \in Nat /\ Short <= ChunkSize /\ ChunkSize > 0
  BY Sizes DEF ShortFits, Short
<1>4. \A j \in Places : Depth(j) \in 1 .. 5
  BY <1>1, TextFacts
<1> SUFFICES ASSUME Depth(p.hi + 1) = 5 PROVE FALSE
  BY <1>1, <1>2, <1>4
<1>5. NoRoomBehind(p) \/ EndOfLongUnit(p)
  BY <1>1, <1>2 DEF IInv, CutsHaveReasons
<1>6. CASE NoRoomBehind(p)
  <2>1. PICK u \in p.hi + 1 .. Last :
          /\ \A j \in p.hi + 2 .. u : Depth(j) > Depth(p.hi + 1)
          /\ Count(p.lo, u) > ChunkSize
    BY <1>6 DEF NoRoomBehind
  <2>2. u = p.hi + 1
    <3> SUFFICES ASSUME u # p.hi + 1 PROVE FALSE
      OBVIOUS
    <3>1. u \in p.hi + 2 .. u /\ u \in Places
      BY <1>1, <1>2 DEF Places
    <3>2. Depth(u) > 5 /\ Depth(u) \in 1 .. 5
      BY <1>4, <2>1, <3>1
    <3> QED BY <3>2
  <2>3. Count(p.lo, u) = Count(p.lo, u - 1) + SepTokens[Depth(u)] + Count(u, u)
    BY <1>1, <1>2, <2>2, CountJoined
  <2>4. u - 1 = p.hi /\ SepTokens[Depth(u)] = 0 /\ Count(u, u) = 1
    BY <1>1, <1>2, <2>2, Sizes, TextFacts DEF Count
  <2> QED BY <1>2, <1>3, <2>1, <2>3, <2>4 DEF SizeOf
<1>7. CASE EndOfLongUnit(p)
  <2>1. PICK w \in 1 .. p.hi :
          /\ \A j \in w + 1 .. p.hi : Depth(j) > Depth(p.hi + 1)
          /\ Count(w, p.hi) > ChunkSize
    BY <1>7 DEF EndOfLongUnit
  <2>2. w = p.hi
    <3> SUFFICES ASSUME w # p.hi PROVE FALSE
      OBVIOUS
    <3>1. p.hi \in w + 1 .. p.hi
      BY <1>2
    <3>2. Depth(p.hi) > 5 /\ Depth(p.hi) \in 1 .. 5
      BY <1>2, <1>4, <2>1, <3>1
    <3> QED BY <3>2
  <2>3. Count(p.hi, p.hi) = 1
    BY <1>1, <1>2, TextFacts DEF Count
  <2> QED BY <1>3, <2>1, <2>2, <2>3
<1> QED BY <1>5, <1>6, <1>7

\* Text that is in no chunk and goes on is of few pieces.
LEMMA FewAreLost ==
  ASSUME IInv, ShortFits, pc \in {"chunked", "empty"},
         NEW p \in DOMAIN raw, NEW q \in DOMAIN raw,
         \A k \in p .. q : MayDrop(k), q < Len(raw) => MayDrop(q + 1)
  PROVE  q <= p + 5
<1> DEFINE D(k) == Depth(raw[k].lo)
<1> SUFFICES ASSUME p + 6 <= q PROVE FALSE
  <2>1. p \in Nat /\ q \in Nat
    BY RawFacts
  <2> QED BY <2>1
<1>1. Len(raw) \in Nat /\ DOMAIN raw = 1 .. Len(raw) /\ p \in Nat /\ q \in Nat /\ p >= 1 /\ q <= Len(raw)
  BY RawFacts
<1>0. p \in Nat /\ q \in Nat /\ p + 6 <= q /\ q <= Len(raw) /\ Len(raw) \in Nat
  BY <1>1
<1>2. \A k \in p .. q + 1 : k <= Len(raw) => k \in DOMAIN raw /\ MayDrop(k)
  BY <1>1
<1>3. Short \in Nat
  BY Sizes DEF Short
<1>4. \A k \in DOMAIN raw : SizeOf(raw[k]) \in Nat
  BY RawFacts
\* Where two of them meet, a separator that ranks above is next to it.
<1>5. ASSUME NEW k \in p .. q + 1, k <= Len(raw), k > 1
      PROVE  /\ D(k) \in 1 .. 4
             /\ (k < Len(raw) /\ D(k + 1) > D(k)) \/ (k > 2 /\ D(k - 1) > D(k))
  <2>1. k \in DOMAIN raw /\ k - 1 \in DOMAIN raw /\ MayDrop(k)
    BY <1>1, <1>2, <1>5
  <2>2. SizeOf(raw[k - 1]) + SizeOf(raw[k]) < Short
    BY <1>5, <2>1, DroppedIsShort
  <2>3. SizeOf(raw[k - 1]) < Short
    BY <1>3, <1>4, <2>1, <2>2
  <2> QED BY <1>5, <2>1, <2>2, <2>3, NeighbourDeeper, SeparatorBehindShort
\* Behind any of them is a separator.
<1>6. ASSUME NEW k \in p + 1 .. p + 8, k <= Len(raw)
      PROVE  D(k) \in 1 .. 4
  <2>1. k \in DOMAIN raw /\ k - 1 \in DOMAIN raw /\ k > 1
    BY <1>1, <1>6
  <2>2. k - 1 \in p .. q + 1 /\ k - 1 <= Len(raw)
    BY <1>1, <1>6
  <2>3. SizeOf(raw[k - 1]) < Short
    BY <1>2, <2>2, DroppedIsShort
  <2> QED BY <2>1, <2>3, SeparatorBehindShort
<1> HIDE DEF D
\* These are too many for four separators to rank in such a row.
<1>7. /\ D(p + 1) \in 1 .. 4 /\ D(p + 2) \in 1 .. 4 /\ D(p + 3) \in 1 .. 4
      /\ D(p + 4) \in 1 .. 4 /\ D(p + 5) \in 1 .. 4 /\ D(p + 6) \in 1 .. 4
  <2>1. ASSUME NEW m \in p + 1 .. p + 6 PROVE D(m) \in 1 .. 4
    <3>1. m \in p + 1 .. p + 8 /\ m <= Len(raw)
      BY <1>0
    <3> QED BY <1>6, <3>1
  <2>2. /\ p + 1 \in p + 1 .. p + 6 /\ p + 2 \in p + 1 .. p + 6 /\ p + 3 \in p + 1 .. p + 6
        /\ p + 4 \in p + 1 .. p + 6 /\ p + 5 \in p + 1 .. p + 6 /\ p + 6 \in p + 1 .. p + 6
    BY <1>0
  <2> QED BY <2>1, <2>2
<1>8. /\ D(p + 3) > D(p + 2) \/ D(p + 1) > D(p + 2)
      /\ D(p + 4) > D(p + 3) \/ D(p + 2) > D(p + 3)
      /\ D(p + 5) > D(p + 4) \/ D(p + 3) > D(p + 4)
      /\ D(p + 6) > D(p + 5) \/ D(p + 4) > D(p + 5)
  <2>1. ASSUME NEW m \in {p + 2, p + 3, p + 4, p + 5}
        PROVE  D(m + 1) > D(m) \/ D(m - 1) > D(m)
    <3>1. m \in p .. q + 1 /\ m <= Len(raw) /\ m > 1
      BY <1>1
    <3> QED BY <1>5, <3>1
  <2>2. /\ (p + 2) + 1 = p + 3 /\ (p + 2) - 1 = p + 1 /\ (p + 3) + 1 = p + 4 /\ (p + 3) - 1 = p + 2
        /\ (p + 4) + 1 = p + 5 /\ (p + 4) - 1 = p + 3 /\ (p + 5) + 1 = p + 6 /\ (p + 5) - 1 = p + 4
    BY <1>1
  <2>3. D(p + 3) > D(p + 2) \/ D(p + 1) > D(p + 2)
    <3>1. D((p + 2) + 1) > D(p + 2) \/ D((p + 2) - 1) > D(p + 2)
      BY <2>1
    <3> QED BY <2>2, <3>1
  <2>4. D(p + 4) > D(p + 3) \/ D(p + 2) > D(p + 3)
    <3>1. D((p + 3) + 1) > D(p + 3) \/ D((p + 3) - 1) > D(p + 3)
      BY <2>1
    <3> QED BY <2>2, <3>1
  <2>5. D(p + 5) > D(p + 4) \/ D(p + 3) > D(p + 4)
    <3>1. D((p + 4) + 1) > D(p + 4) \/ D((p + 4) - 1) > D(p + 4)
      BY <2>1
    <3> QED BY <2>2, <3>1
  <2>6. D(p + 6) > D(p + 5) \/ D(p + 4) > D(p + 5)
    <3>1. D((p + 5) + 1) > D(p + 5) \/ D((p + 5) - 1) > D(p + 5)
      BY <2>1
    <3> QED BY <2>2, <3>1
  <2> QED BY <2>3, <2>4, <2>5, <2>6
<1>9. /\ D(p + 2) > D(p + 1) \/ (p > 1 /\ D(p) > D(p + 1))
      /\ (p + 6 < Len(raw) /\ D(p + 7) > D(p + 6)) \/ D(p + 5) > D(p + 6)
  <2>1. /\ p + 1 \in p .. q + 1 /\ p + 1 <= Len(raw) /\ p + 1 > 1
        /\ p + 6 \in p .. q + 1 /\ p + 6 <= Len(raw) /\ p + 6 > 1
        /\ (p + 1) + 1 = p + 2 /\ (p + 1) - 1 = p /\ (p + 1 > 2 => p > 1)
        /\ (p + 6) + 1 = p + 7 /\ (p + 6) - 1 = p + 5
    BY <1>1
  <2>2. D((p + 1) + 1) > D(p + 1) \/ (p + 1 > 2 /\ D((p + 1) - 1) > D(p + 1))
    BY <1>5, <2>1
  <2>3. (p + 6 < Len(raw) /\ D((p + 6) + 1) > D(p + 6)) \/ D((p + 6) - 1) > D(p + 6)
    BY <1>5, <2>1
  <2> QED BY <2>1, <2>2, <2>3
<1>10. CASE p = 1
  <2>1. D(p + 2) > D(p + 1)
    BY <1>9, <1>10
  <2>2. D(p + 3) > D(p + 2)
    BY <1>7, <1>8, <2>1
  <2>3. D(p + 4) > D(p + 3)
    BY <1>7, <1>8, <2>2
  <2>4. D(p + 5) > D(p + 4)
    BY <1>7, <1>8, <2>3
  <2> QED BY <1>7, <2>1, <2>2, <2>3, <2>4
<1>11. CASE p + 6 = Len(raw)
  <2>1. D(p + 5) > D(p + 6)
    BY <1>0, <1>9, <1>11
  <2>2. D(p + 4) > D(p + 5)
    BY <1>7, <1>8, <2>1
  <2>3. D(p + 3) > D(p + 4)
    BY <1>7, <1>8, <2>2
  <2>4. D(p + 2) > D(p + 3)
    BY <1>7, <1>8, <2>3
  <2> QED BY <1>7, <2>1, <2>2, <2>3, <2>4
<1>12. CASE p > 1 /\ p + 6 < Len(raw)
  <2>1. D(p) \in 1 .. 4 /\ (D(p + 1) > D(p) \/ D(p - 1) > D(p))
    <3>1. p \in p .. q + 1 /\ p <= Len(raw)
      BY <1>1
    <3> QED BY <1>5, <1>12, <3>1
  <2>2. /\ D(p + 7) \in 1 .. 4
        /\ (p + 7 < Len(raw) /\ D(p + 8) > D(p + 7)) \/ D(p + 6) > D(p + 7)
    <3>1. /\ p + 7 \in p .. q + 1 /\ p + 7 <= Len(raw) /\ p + 7 > 1
          /\ (p + 7) + 1 = p + 8 /\ (p + 7) - 1 = p + 6
      BY <1>1, <1>12
    <3>2. /\ D(p + 7) \in 1 .. 4
          /\ (p + 7 < Len(raw) /\ D((p + 7) + 1) > D(p + 7)) \/ D((p + 7) - 1) > D(p + 7)
      BY <1>5, <3>1
    <3> QED BY <3>1, <3>2
  <2>3. p + 7 < Len(raw) => D(p + 8) \in 1 .. 4
    <3>1. p + 7 < Len(raw) => p + 8 \in p + 1 .. p + 8 /\ p + 8 <= Len(raw)
      BY <1>1
    <3> QED BY <1>6, <3>1
  <2>4. CASE D(p + 5) > D(p + 4)
    <3>1. D(p + 6) > D(p + 5)
      BY <1>7, <1>8, <2>4
    <3>2. D(p + 7) > D(p + 6)
      BY <1>7, <1>9, <3>1
    <3>3. D(p + 8) > D(p + 7) /\ D(p + 8) \in 1 .. 4
      BY <1>7, <2>2, <2>3, <3>2, SMTT(20)
    <3>4. D(p + 5) > 1 /\ D(p + 6) > 2
      BY <1>7, <2>4, <3>1
    <3>5. D(p + 7) > 3
      BY <1>7, <2>2, <3>2, <3>4
    <3> QED BY <2>2, <3>3, <3>5
  <2>5. CASE ~ (D(p + 5) > D(p + 4))
    <3>1. D(p + 3) > D(p + 4)
      BY <1>8, <2>5
    <3>2. D(p + 2) > D(p + 3)
      BY <1>7, <1>8, <3>1
    <3>3. D(p + 1) > D(p + 2)
      BY <1>7, <1>8, <3>2
    <3>4. D(p) > D(p + 1)
      BY <1>7, <1>9, <3>3
    <3>5. D(p + 3) > 1 /\ D(p + 2) > 2
      BY <1>7, <3>1, <3>2
    <3>6. D(p + 1) > 3
      BY <1>7, <3>3, <3>5
    <3> QED BY <1>7, <2>1, <3>4, <3>6
  <2> QED BY <2>4, <2>5
<1>13. p = 1 \/ p + 6 = Len(raw) \/ (p > 1 /\ p + 6 < Len(raw))
  BY <1>1
<1> QED BY <1>10, <1>11, <1>12, <1>13

\* Two dropped pieces, side by side, are shorter than the minimum together.
LEMMA TwoDropped ==
  ASSUME IInv, ShortFits, NEW k \in DOMAIN raw, k + 1 \in DOMAIN raw, MayDrop(k + 1)
  PROVE  raw[k + 1].hi + 1 - raw[k].lo <= Short - 1
<1>1. (k + 1) - 1 = k /\ k + 1 > 1
  BY RawFacts
<1>2. SizeOf(raw[k]) + SizeOf(raw[k + 1]) < Short
  BY <1>1, DroppedIsShort
<1>3. /\ raw[k + 1].lo = raw[k].hi + 1
      /\ SizeOf(raw[k]) \in Nat /\ SizeOf(raw[k + 1]) \in Nat
      /\ SizeOf(raw[k]) >= raw[k].hi - raw[k].lo + 1
      /\ SizeOf(raw[k + 1]) >= raw[k + 1].hi - raw[k + 1].lo + 1
      /\ {raw[k].lo, raw[k].hi, raw[k + 1].lo, raw[k + 1].hi} \subseteq Nat
  BY <1>1, RawFacts
<1>4. Short \in Nat
  BY Sizes DEF Short
<1> QED BY <1>2, <1>3, <1>4

\* Dropping short chunks loses less than three times the minimum in a row.
THEOREM LossIsBounded == Spec => []LossBounded
<1>1. ASSUME IInv PROVE LossBounded
  <2> SUFFICES ASSUME ShortFits, pc \in {"chunked", "empty"}, NEW lo \in Places, NEW hi \in Places,
                      lo <= hi, \A x \in lo .. hi : ~ Kept(x)
               PROVE  hi + 1 - lo <= 3 * (Short - 1)
    BY DEF LossBounded, Places
  <2>1. /\ Last \in Nat /\ Len(raw) \in Nat /\ DOMAIN raw = 1 .. Len(raw)
        /\ lo \in Nat /\ hi \in Nat /\ lo >= 1 /\ hi <= Last
    BY <1>1, RawFacts DEF Places
  <2>2. \A x \in Places : \E k \in DOMAIN raw : x \in raw[k].lo .. raw[k].hi
    <3>1. From = Last + 1
      BY <1>1 DEF IInv, Placed
    <3> QED BY <1>1, <2>1, <3>1 DEF IInv, Partition, Places
  <2>3. PICK p \in DOMAIN raw : lo \in raw[p].lo .. raw[p].hi
    BY <2>2
  <2>4. PICK q \in DOMAIN raw : hi \in raw[q].lo .. raw[q].hi
    BY <2>2
  <2>5. \A k \in DOMAIN raw : /\ raw[k].lo \in Nat /\ raw[k].hi \in Nat /\ raw[k].lo <= raw[k].hi
                              /\ SizeOf(raw[k]) \in Nat
                              /\ SizeOf(raw[k]) >= raw[k].hi - raw[k].lo + 1
    BY <1>1, RawFacts
  <2>6. \A j, k \in DOMAIN raw : j < k => raw[j].hi < raw[k].lo
    BY <1>1 DEF IInv, Partition
  <2>7. p <= q
    <3> SUFFICES ASSUME q < p PROVE FALSE
      BY <2>1
    <3>1. raw[q].hi < raw[p].lo
      BY <2>6
    <3> QED BY <2>1, <2>3, <2>4, <2>5, <3>1
  <2>8. \A k \in p .. q : k \in DOMAIN raw /\ MayDrop(k) /\ (k < Len(raw) => MayDrop(k + 1))
    <3> SUFFICES ASSUME NEW k \in p .. q
                 PROVE  k \in DOMAIN raw /\ MayDrop(k) /\ (k < Len(raw) => MayDrop(k + 1))
      OBVIOUS
    <3>1. k \in DOMAIN raw
      BY <2>1
    <3>2. \E x \in raw[k].lo .. raw[k].hi : x \in lo .. hi
      <4>1. CASE k = p
        <5>1. lo \in lo .. hi
          BY <2>1
        <5> QED BY <2>3, <4>1, <5>1
      <4>2. CASE k = q
        <5>1. hi \in lo .. hi
          BY <2>1
        <5> QED BY <2>4, <4>2, <5>1
      <4>3. CASE p < k /\ k < q
        <5>1. raw[p].hi < raw[k].lo /\ raw[k].hi < raw[q].lo
          BY <2>6, <3>1, <4>3
        <5>2. /\ raw[k].lo \in Nat /\ raw[k].hi \in Nat /\ raw[k].lo <= raw[k].hi
              /\ raw[p].lo \in Nat /\ raw[p].hi \in Nat /\ raw[q].lo \in Nat /\ raw[q].hi \in Nat
          BY <2>5, <3>1
        <5>3. lo <= raw[p].hi /\ raw[q].lo <= hi
          BY <2>3, <2>4, <5>2
        <5>4. raw[k].lo \in raw[k].lo .. raw[k].hi /\ raw[k].lo \in lo .. hi
          BY <2>1, <5>1, <5>2, <5>3
        <5> QED BY <5>4
      <4> QED BY <2>1, <4>1, <4>2, <4>3
    <3> QED BY <1>1, <3>1, <3>2, LostIsDropped
  <2>9. q <= p + 5
    <3>1. q \in p .. q
      BY <2>1, <2>7
    <3> QED BY <1>1, <2>8, <3>1, FewAreLost
  <2>10. /\ p \in Nat /\ q \in Nat /\ raw[p].lo <= lo /\ hi <= raw[q].hi
         /\ raw[p].lo \in Nat /\ raw[q].hi \in Nat
    BY <2>1, <2>3, <2>4, <2>5
  <2>11. Short \in Nat /\ Short > 0
    BY Sizes DEF Short
  \* The pieces are counted in pairs.
  <2>12. ASSUME NEW k \in p .. q, k + 1 <= q
         PROVE  raw[k + 1].hi + 1 - raw[k].lo <= Short - 1
    <3>1. k \in DOMAIN raw /\ k + 1 \in DOMAIN raw /\ k < Len(raw)
      BY <2>1, <2>12
    <3> QED BY <1>1, <2>8, <3>1, TwoDropped
  <2>13. ASSUME NEW k \in p .. q
         PROVE  raw[k].hi + 1 - raw[k].lo <= Short - 1
    <3>1. k \in DOMAIN raw /\ SizeOf(raw[k]) < Short
      BY <1>1, <2>8, DroppedIsShort
    <3> QED BY <2>5, <2>11, <3>1
  <2>14. \A k \in p .. q : k > p => raw[k].lo = raw[k - 1].hi + 1
    <3>1. \A k \in p .. q : k > p => k \in DOMAIN raw /\ k > 1
      BY <2>1, <2>8
    <3> QED BY <1>1, <3>1, RawFacts
  <2>15. \A k \in p .. q : raw[k].lo \in Nat /\ raw[k].hi \in Nat
    BY <2>5, <2>8
  <2>16. raw[q].hi + 1 - raw[p].lo <= 3 * (Short - 1)
    <3>1. CASE q = p
      <4>1. raw[p].hi + 1 - raw[p].lo <= Short - 1
        BY <2>10, <2>7, <2>13
      <4> QED BY <2>10, <2>11, <3>1, <4>1
    <3>2. CASE q = p + 1
      <4>1. raw[p + 1].hi + 1 - raw[p].lo <= Short - 1
        BY <2>10, <3>2, <2>12
      <4> QED BY <2>10, <2>11, <3>2, <4>1
    <3>3. CASE q = p + 2
      <4>1. raw[p + 1].hi + 1 - raw[p].lo <= Short - 1 /\ p + 1 \in p .. q /\ p + 2 \in p .. q
        BY <2>10, <3>3, <2>12
      <4>2. raw[p + 2].hi + 1 - raw[p + 2].lo <= Short - 1
        BY <2>13, <4>1
      <4>3. raw[p + 2].lo = raw[p + 1].hi + 1
        <5>1. (p + 2) - 1 = p + 1 /\ p + 2 > p
          BY <2>10
        <5>2. raw[p + 2].lo = raw[(p + 2) - 1].hi + 1
          BY <2>14, <4>1, <5>1
        <5> QED BY <5>1, <5>2
      <4> QED BY <2>10, <2>11, <2>15, <3>3, <4>1, <4>2, <4>3
    <3>4. CASE q \in {p + 3, p + 4, p + 5}
      <4>1. /\ p + 1 \in p .. q /\ p + 2 \in p .. q /\ p + 3 \in p .. q
            /\ p \in p .. q /\ p + 1 <= q /\ (p + 2) + 1 = p + 3 /\ p + 3 <= q
        BY <2>10, <3>4
      <4>2. raw[p + 1].hi + 1 - raw[p].lo <= Short - 1
        BY <2>12, <4>1
      <4>3. raw[p + 3].hi + 1 - raw[p + 2].lo <= Short - 1
        <5>1. raw[(p + 2) + 1].hi + 1 - raw[p + 2].lo <= Short - 1
          BY <2>12, <4>1
        <5> QED BY <4>1, <5>1
      <4>4. raw[p + 2].lo = raw[p + 1].hi + 1
        <5>1. (p + 2) - 1 = p + 1 /\ p + 2 > p
          BY <2>10
        <5>2. raw[p + 2].lo = raw[(p + 2) - 1].hi + 1
          BY <2>14, <4>1, <5>1
        <5> QED BY <5>1, <5>2
      <4>5. raw[p + 3].hi + 1 - raw[p].lo <= 2 * (Short - 1)
        BY <2>11, <2>15, <4>1, <4>2, <4>3, <4>4
      <4>6. CASE q = p + 3
        BY <2>10, <2>11, <4>5, <4>6
      <4>7. ASSUME p + 4 <= q PROVE raw[p + 4].lo = raw[p + 3].hi + 1 /\ p + 4 \in p .. q
        <5>1. (p + 4) - 1 = p + 3 /\ p + 4 > p /\ p + 4 \in p .. q
          BY <2>10, <4>7
        <5>2. raw[p + 4].lo = raw[(p + 4) - 1].hi + 1
          BY <2>14, <5>1
        <5> QED BY <5>1, <5>2
      <4>8. CASE q = p + 4
        <5>1. raw[p + 4].lo = raw[p + 3].hi + 1 /\ p + 4 \in p .. q
          BY <2>10, <4>7, <4>8
        <5>2. raw[p + 4].hi + 1 - raw[p + 4].lo <= Short - 1
          BY <2>13, <5>1
        <5> QED BY <2>10, <2>11, <2>15, <4>1, <4>5, <4>8, <5>1, <5>2
      <4>9. CASE q = p + 5
        <5>1. /\ raw[p + 4].lo = raw[p + 3].hi + 1 /\ p + 4 \in p .. q
              /\ (p + 4) + 1 = p + 5 /\ p + 5 <= q
          BY <2>10, <4>7, <4>9
        <5>2. raw[(p + 4) + 1].hi + 1 - raw[p + 4].lo <= Short - 1
          BY <2>12, <5>1
        <5>3. raw[p + 5].hi + 1 - raw[p + 4].lo <= Short - 1
          BY <5>1, <5>2
        <5> QED BY <2>10, <2>11, <2>15, <4>1, <4>5, <4>9, <5>1, <5>3
      <4> QED BY <3>4, <4>6, <4>8, <4>9
    <3> QED BY <2>7, <2>9, <2>10, <3>1, <3>2, <3>3, <3>4
  <2>17. lo \in Nat /\ hi \in Nat
    BY <2>1
  <2> QED BY <2>10, <2>11, <2>16, <2>17
<1> QED BY Invariant, <1>1, PTL
=============================================================================

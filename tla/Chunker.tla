------------------------------- MODULE Chunker -------------------------------
(***************************************************************************)
(* chunk_text: a cleaned text is cut at paragraphs, lines, sentences,      *)
(* words and at last anywhere, each chunk gets the end of the one before   *)
(* it, and those that are still too short are dropped.                     *)
(*                                                                         *)
(* A text gives, of each token of its words, what stands before it and     *)
(* where it is among all of its tokens; a piece is an interval of these.   *)
(* Counts within the text are taken to add up.  What is put together of    *)
(* decoded and stripped tokens is encoded anew, and may have some tokens   *)
(* more or less.  A step is a turn of a loop: the calls that are open make *)
(* a stack, whose height is the level of the separators.                   *)
(***************************************************************************)
EXTENDS Naturals, Sequences, FiniteSetsExt

CONSTANTS
  Texts,      \* the texts to be chunked
  ChunkSize,  \* CHUNK_TOKEN_SIZE
  Overlap,    \* CHUNK_TOKEN_OVERLAP
  MinTokens,  \* _MIN_CHUNK_TOKENS
  SepTokens,  \* tokens of what may stand before a token
  Grow,       \* tokens that encoding anew may add,
  Shrink      \* and those that it may save

Separators == 1 .. 4  \* "\n\n", "\n", ". ", " "
Within == 5           \* nothing: the token goes on with a word

\* Separators are counted where they stand.
TextOK(t) ==
  /\ t.before \in Seq(Separators \cup {Within})
  /\ t.at \in [DOMAIN t.before -> Nat]
  /\ \A i \in DOMAIN t.before :
       t.at[i] = IF i = 1 THEN 1 ELSE t.at[i - 1] + SepTokens[t.before[i]] + 1

ASSUME ChunkerAssumption ==
  /\ {ChunkSize, MinTokens} \subseteq Nat \ {0}
  /\ {Overlap, Grow, Shrink} \subseteq Nat
  /\ SepTokens \in [Separators \cup {Within} -> {0, 1}] /\ SepTokens[Within] = 0
  /\ \A t \in Texts : TextOK(t)

VARIABLES
  text,     \* the text
  pc,       \* "start", "split", "overlap", then "chunked" or "empty"
  stack,    \* of each open _recursive_split, where its text ends
  next,     \* where the next part of the innermost one begins
  current,  \* the piece that is held back
  raw,      \* raw_chunks
  turn,     \* position of the loops over raw_chunks
  chunks    \* the result: of each chunk, its own piece and that of its overlap

vars == <<text, pc, stack, next, current, raw, turn, chunks>>

Piece(lo, hi) == [lo |-> lo, hi |-> hi]
None == Piece(0, 0)

Last == Len(text.before)
Depth(i) == text.before[i]

\* count_tokens of a piece.
Count(lo, hi) == text.at[hi] - text.at[lo] + 1

Init ==
  /\ text \in Texts
  /\ pc = "start" /\ stack = <<>> /\ next = 1 /\ current = None
  /\ raw = <<>> /\ turn = 1 /\ chunks = <<>>

-----------------------------------------------------------------------------
\* Plausible bugs, each in place of the definition it is named after when the
\* properties are put to the test.

\* Cuts at the smaller separators, too.
PartAtAll(lo, level, end) ==
  Piece(lo, Min({end} \cup {i \in lo .. end - 1 : Depth(i + 1) >= level}))

\* The part alone is measured.
JoinsByPart(part) == Count(part.lo, part.hi) <= ChunkSize

\* The beginning of the piece before.
OverlapFromHead(k) ==
  IF k = 1 \/ Overlap = 0 THEN {None}
  ELSE {Piece(raw[k - 1].lo, Min({raw[k - 1].lo + Overlap - 1, raw[k - 1].hi}))}

\* The overlap does not count.
OwnTokens(c) == {Count(c.own.lo, c.own.hi)}

-----------------------------------------------------------------------------
\* The recursive split.

Level == Len(stack)
End == stack[Level]

\* A text that fits a chunk is one; nothing is left to be asked of a call for
\* a part, which is made only if the part does not fit.
Start ==
  /\ pc = "start"
  /\ CASE Last = 0 -> pc' = "empty" /\ UNCHANGED <<stack, raw>>
       [] Last > 0 /\ Count(1, Last) <= ChunkSize ->
            pc' = "overlap" /\ raw' = <<Piece(1, Last)>> /\ UNCHANGED stack
       [] OTHER -> pc' = "split" /\ stack' = <<Last>> /\ UNCHANGED raw
  /\ UNCHANGED <<text, next, current, turn, chunks>>

\* split(separator): a part ends before the next separator of the level.
Part(lo, level, end) ==
  Piece(lo, Min({end} \cup {i \in lo .. end - 1 : Depth(i + 1) = level}))

NextPart == Part(next, Level, End)

\* The part fits together with what is held back.
Joins(part) == Count(IF current = None THEN part.lo ELSE current.lo, part.hi) <= ChunkSize

Flushed == IF current = None THEN raw ELSE Append(raw, current)

InLoop == pc = "split" /\ Level \in Separators /\ next <= End

Join ==
  /\ InLoop /\ Joins(NextPart)
  /\ current' = Piece(IF current = None THEN next ELSE current.lo, NextPart.hi)
  /\ next' = NextPart.hi + 1
  /\ UNCHANGED <<text, pc, stack, raw, turn, chunks>>

Hold ==
  /\ InLoop /\ ~ Joins(NextPart) /\ Count(next, NextPart.hi) <= ChunkSize
  /\ raw' = Flushed
  /\ current' = NextPart
  /\ next' = NextPart.hi + 1
  /\ UNCHANGED <<text, pc, stack, turn, chunks>>

\* The part is split at the next separator.
Descend ==
  /\ InLoop /\ ~ Joins(NextPart) /\ Count(next, NextPart.hi) > ChunkSize
  /\ raw' = Flushed
  /\ current' = None
  /\ stack' = Append(stack, NextPart.hi)
  /\ UNCHANGED <<text, pc, next, turn, chunks>>

\* The last resort, inside of a word.  A cut may be inside of a character.
SplitByTokens ==
  /\ pc = "split" /\ Level = Within /\ next <= End
  /\ LET hi == Min({next + ChunkSize - 1, End})
     IN raw' = Append(raw, Piece(next, hi)) /\ next' = hi + 1
  /\ UNCHANGED <<text, pc, stack, current, turn, chunks>>

Return ==
  /\ pc = "split" /\ next > End
  /\ raw' = Flushed
  /\ current' = None
  /\ stack' = SubSeq(stack, 1, Level - 1)
  /\ pc' = IF Level = 1 THEN "overlap" ELSE "split"
  /\ UNCHANGED <<text, next, turn, chunks>>

-----------------------------------------------------------------------------
\* The chunks.

\* What n tokens may become when their texts are put together and encoded: a
\* word that lost the space before it is spelled otherwise, the space that joins
\* may be a token, half a character is another one.
Recoded(n) == {m \in 1 .. n + Grow : n <= m + Shrink}

\* The piece begins or ends where tokens were cut, not text.
Torn(piece) ==
  \/ piece.lo > 1 /\ Depth(piece.lo) = Within
  \/ piece.hi < Last /\ Depth(piece.hi + 1) = Within

\* Where the last Overlap tokens of a piece may begin; a separator there is
\* stripped.
TailStarts(piece) ==
  LET more == IF Torn(piece) THEN Grow ELSE 0
      less == IF Torn(piece) THEN Shrink ELSE 0
  IN {i \in piece.lo .. piece.hi :
        /\ Count(i, piece.hi) <= Overlap + less
        /\ i > piece.lo => Count(i - 1, piece.hi) + more > Overlap}

\* The first chunk has no overlap, and there is none at all if it is set to 0.
OverlapOf(k) ==
  IF k = 1 \/ Overlap = 0 THEN {None}
  ELSE {Piece(i, raw[k - 1].hi) : i \in TailStarts(raw[k - 1])}

\* How many tokens a chunk may have.  A piece by itself is as it was measured,
\* unless it was cut by its tokens.
ChunkTokens(c) ==
  LET own == Count(c.own.lo, c.own.hi)
  IN IF c.overlap # None THEN Recoded(own + Count(c.overlap.lo, c.overlap.hi))
     ELSE IF Torn(c.own) THEN Recoded(own) ELSE {own}

LongEnough(n) == n >= MinTokens

WithOverlap(k) == {[own |-> raw[k], overlap |-> o] : o \in OverlapOf(k)}

ApplyOverlap ==
  /\ pc = "overlap" /\ turn <= Len(raw)
  /\ \E c \in WithOverlap(turn) : \E n \in ChunkTokens(c) :
       chunks' = IF LongEnough(n) THEN Append(chunks, c) ELSE chunks
  /\ turn' = turn + 1
  /\ UNCHANGED <<text, pc, stack, next, current, raw>>

\* The pipeline refuses a text that makes no chunks.
Finish ==
  /\ pc = "overlap" /\ turn > Len(raw)
  /\ pc' = IF chunks = <<>> THEN "empty" ELSE "chunked"
  /\ UNCHANGED <<text, stack, next, current, raw, turn, chunks>>

Terminated == pc \in {"chunked", "empty"} /\ UNCHANGED vars

Next ==
  \/ Start \/ Join \/ Hold \/ Descend \/ SplitByTokens \/ Return
  \/ ApplyOverlap \/ Finish
  \/ Terminated

Spec == Init /\ [][Next]_vars

-----------------------------------------------------------------------------
\* Properties.

\* Every variable keeps its shape: pieces are of the text, and no call is
\* deeper than there are separators.
TypeOK ==
  LET Pieces == {p \in [lo : 1 .. Last, hi : 1 .. Last] : p.lo <= p.hi}
  IN /\ text \in Texts
     /\ pc \in {"start", "split", "overlap", "chunked", "empty"}
     /\ stack \in Seq(1 .. Last) /\ Level <= Within
     /\ next \in 1 .. Last + 1
     /\ current \in Pieces \cup {None}
     /\ raw \in Seq(Pieces)
     /\ turn \in 1 .. Len(raw) + 1
     /\ chunks \in Seq([own : Pieces, overlap : Pieces \cup {None}])

\* What a chunk has of its own fits the chunk size, and the chunk exceeds chunk
\* size and overlap together by no more than encoding anew explains: what the
\* chunk may gain by it, and what the piece before may have saved.
SizeBounded ==
  \A k \in DOMAIN chunks :
    LET c == chunks[k]
    IN /\ Count(c.own.lo, c.own.hi) <= ChunkSize
       /\ \A n \in ChunkTokens(c) : n <= ChunkSize + Overlap + Grow + Shrink

\* The chunks follow the text: what a chunk has of its own comes after all of
\* the chunk before it, and its overlap, if there is to be one, is the text
\* right before it.
ChunksFollowText ==
  \A k \in DOMAIN chunks :
    LET c == chunks[k]
    IN /\ c.own.lo <= c.own.hi /\ c.own.hi <= Last
       /\ k > 1 => chunks[k - 1].own.hi < c.own.lo
       /\ c.own.lo > 1 /\ Overlap > 0 =>
            c.overlap.lo <= c.overlap.hi /\ c.overlap.hi = c.own.lo - 1

Kept(i) ==
  \E k \in DOMAIN chunks :
    \E piece \in {chunks[k].own, chunks[k].overlap} : i \in piece.lo .. piece.hi

\* A chunk that is dropped has fewer tokens of the text than these.
Short == MinTokens + Shrink

\* As many fit an overlap and a chunk.
ShortFits == Short + Grow <= Overlap /\ Short <= ChunkSize

\* Dropping short chunks loses little: a run of text that is in no chunk is no
\* longer than three short pieces, if these fit.  One lives on in the overlap of
\* the next one, unless that is dropped, too; and of two short pieces side by
\* side one is the end, or the beginning, of a unit that was too long.
LossBounded ==
  ShortFits /\ pc \in {"chunked", "empty"} =>
    \A lo, hi \in 1 .. Last :
      lo <= hi /\ (\A i \in lo .. hi : ~ Kept(i)) => hi + 1 - lo <= 3 * (Short - 1)

\* A unit is cut only if it is too long: around the cut there is more text than
\* fits a chunk without a separator that ranks above that of the cut.
UnitTooLong(i) ==
  \E lo \in 1 .. i - 1, hi \in i .. Last :
    /\ \A j \in lo + 1 .. hi : Depth(j) >= Depth(i)
    /\ Count(lo, hi) > ChunkSize

CutsOnlyTooLong ==
  \A k \in DOMAIN chunks :
    LET own == chunks[k].own
    IN /\ own.lo > 1 => UnitTooLong(own.lo)
       /\ own.hi < Last => UnitTooLong(own.hi + 1)
=============================================================================

--------------------------- MODULE Reembed_proofs ---------------------------
(***************************************************************************)
(* Re-embedding writes to every row the embedding of its own text, misses  *)
(* no row that was there when it started, and together with ingestion      *)
(* implements the chunk store: for every number of documents, keys, calls, *)
(* runs and batch sizes.                                                   *)
(***************************************************************************)
EXTENDS Reembed, FiniteSetTheorems, WellFoundedInduction, TLAPS

Working == pc \in {"embed", "update", "locking"}

\* Keys are given out once: whoever remembers one knows that no other row
\* will ever have it.
KeysRemembered ==
  /\ Existing \subseteq used
  /\ present \subseteq used
  /\ DOMAIN batch \subseteq used

\* The batch is what was ahead of the cursor, up to its last key.
BatchIsNext ==
  /\ ~ Working => batch = <<>> /\ targets = {} /\ held = {}
  /\ Working => DOMAIN batch # {}
  /\ pc # "locking" => targets = {}
  /\ \A i \in DOMAIN batch : cursor < i
  /\ \A i \in DOMAIN batch \cap Existing : rows[i].text = batch[i]
  /\ Working => \A i \in present \cap Existing, j \in DOMAIN batch :
       cursor < i /\ i <= j => i \in DOMAIN batch

\* The vectors belong to the texts of the batch, and every row of it that is
\* left will be written.
UpdateIsWhole ==
  /\ pc \in {"update", "locking"} =>
       vectors = [i \in DOMAIN batch |-> Embedding(batch[i], "new")]
  /\ held \subseteq Existing
  /\ pc = "locking" => DOMAIN batch \cap Existing \subseteq targets

\* What an ingest deletes are rows of its document; it is alone on them.
DeletesOwn ==
  \A d \in Docs :
    /\ call[d] = "idle" => victims[d] = {}
    /\ call[d] = "delete" => victims[d] = RowsOf(d)
    /\ held \cap locked[d] = {}

\* Behind the cursor there is nothing left to do.
BehindIsNew ==
  ~ dry /\ (Working \/ pc = "read") =>
    \A i \in present \cap Existing : i <= cursor => rows[i].vector.by = "new"

IInv ==
  /\ TypeOK /\ KeysRemembered /\ BatchIsNext /\ UpdateIsWhole /\ DeletesOwn
  /\ BehindIsNew /\ VectorsMatchText /\ NothingMissed

-----------------------------------------------------------------------------
\* Facts about keys.

\* A set of keys has a smallest one.
LEMMA Smallest ==
  ASSUME NEW S, S \subseteq Nat, S # {}
  PROVE  \E i \in S : \A j \in S : i <= j
<1>1. PICK i \in S : \A j \in S : ~ (<<j, i>> \in OpToRel(<, Nat))
  BY NatLessThanWellFounded, WFMin
<1>2. \A j \in S : ~ (j < i)
  BY <1>1 DEF OpToRel
<1> QED BY <1>2

\* A set of keys has a largest one.
LEMMA Largest ==
  ASSUME NEW S, S \subseteq Ids, S # {}
  PROVE  \E i \in S : \A j \in S : j <= i
<1> DEFINE T == {MaxId - i : i \in S}
<1>0. MaxId \in Nat /\ \A i \in S : i \in Nat /\ i <= MaxId
  BY ReembedAssumption DEF Ids
<1>1. T \subseteq Nat /\ T # {}
  BY <1>0
<1>2. PICK t \in T : \A u \in T : t <= u
  BY <1>1, Smallest
<1>3. PICK i \in S : t = MaxId - i
  OBVIOUS
<1>4. \A j \in S : MaxId - i <= MaxId - j
  BY <1>2, <1>3
<1> QED BY <1>0, <1>4

\* last_id is the largest key of the batch.
LEMMA LastIsLargest ==
  ASSUME DOMAIN batch \subseteq Ids, DOMAIN batch # {}
  PROVE  LastOfBatch \in DOMAIN batch /\ \A j \in DOMAIN batch : j <= LastOfBatch
  BY Largest DEF LastOfBatch

\* The keys that ReadBatch takes are a prefix of those ahead, and not empty
\* if there are any.
LEMMA FirstAhead ==
  ASSUME NEW A, A \subseteq Ids, NEW F,
         F = {i \in A : Cardinality({j \in A : j < i}) < BatchSize}
  PROVE  /\ F = {} => A = {}
         /\ \A i \in A, j \in F : i <= j => i \in F
<1>0. A \subseteq Nat
  BY DEF Ids
<1>1. IsFiniteSet(A)
  <2>1. IsFiniteSet(1 .. MaxId)
    BY FS_Interval, ReembedAssumption
  <2> QED BY <2>1, FS_Subset DEF Ids
<1>2. F = {} => A = {}
  <2> SUFFICES ASSUME A # {} PROVE F # {}
    OBVIOUS
  <2>1. PICK i \in A : \A j \in A : i <= j
    BY <1>0, Smallest
  <2>a. \A j \in A : ~ (j < i)
    BY <2>1, <1>0
  <2>2. {j \in A : j < i} = {}
    BY <2>a
  <2>3. Cardinality({j \in A : j < i}) = 0
    BY <2>2, FS_EmptySet
  <2> QED BY <2>3, ReembedAssumption
<1>3. ASSUME NEW i \in A, NEW j \in F, i <= j PROVE i \in F
  <2> DEFINE I == {k \in A : k < i}
             J == {k \in A : k < j}
  <2>a. j \in A /\ \A k \in A : k < i => k < j
    BY <1>3, <1>0
  <2>1. I \subseteq J
    BY <2>a
  <2>2. IsFiniteSet(J)
    BY <1>1, FS_Subset
  <2>3. IsFiniteSet(I) /\ Cardinality(I) \in Nat /\ Cardinality(J) \in Nat
        /\ Cardinality(I) <= Cardinality(J)
    BY <2>1, <2>2, FS_Subset, FS_CardinalityType
  <2>4. Cardinality(J) < BatchSize
    BY <1>3
  <2>5. Cardinality(I) < BatchSize
    <3> HIDE DEF I, J
    <3> QED BY <2>3, <2>4, ReembedAssumption
  <2> QED BY <2>5
<1> QED BY <1>2, <1>3

-----------------------------------------------------------------------------
\* Initially the table holds chunkings with the old model's vectors.
LEMMA InitialState == Init => IInv
<1> SUFFICES ASSUME Init PROVE IInv
  OBVIOUS
<1>1. PICK table \in Tables :
        rows = [i \in Ids |->
          IF table[i] = NoRow THEN NoRow
          ELSE NewRow([doc |-> table[i][1], version |-> 0, order |-> table[i][2]], "old")]
  BY DEF Init
<1>2. WellFormed(table)
  BY ReembedAssumption
<1>3. \A i \in Ids : table[i] # NoRow =>
        /\ [doc |-> table[i][1], version |-> 0, order |-> table[i][2]] \in Text
        /\ rows[i] \in ChunkRow
        /\ rows[i].vector.of = rows[i].text
  BY <1>1, <1>2, ReembedAssumption
     DEF WellFormed, Text, NewRow, Embedding, ChunkRow, Vector, Models
<1>4. rows \in [Ids -> ChunkRow \cup {NoRow}]
  BY <1>1, <1>3
<1>5. VectorsMatchText
  BY <1>1, <1>3 DEF VectorsMatchText, Existing
<1>6. DOMAIN batch = {} /\ DOMAIN vectors = {}
  BY DEF Init
<1>7. TypeOK
  <2>1. cursor \in 0 .. MaxId /\ runs \in 0 .. MaxRuns /\ ingests \in 0 .. MaxIngests
    BY ReembedAssumption DEF Init
  <2>2. /\ model \in [Docs -> Models] /\ call \in [Docs -> {"idle", "delete"}]
        /\ victims \in [Docs -> SUBSET Ids] /\ locked \in [Docs -> SUBSET Ids]
        /\ \A d \in Docs : locked[d] \subseteq victims[d]
    BY DEF Init, Models
  <2>3. used \in SUBSET Ids
    BY DEF Init, Existing
  <2> QED BY <1>4, <1>6, <2>1, <2>2, <2>3 DEF Init, TypeOK
<1> QED
  BY <1>5, <1>6, <1>7
  DEF Init, IInv, KeysRemembered, BatchIsNext, UpdateIsWhole, DeletesOwn, BehindIsNew,
      NothingMissed, Working

-----------------------------------------------------------------------------
\* The steps of the script.

\* While the table stays, so do the rows that exist.
LEMMA SameTable ==
  ASSUME rows' = rows
  PROVE  /\ Existing' = Existing
         /\ \A d \in Docs : RowsOf(d)' = RowsOf(d)
  BY DEF Existing, RowsOf

\* A run that ends leaves nothing behind, wherever it was.
LEMMA EndStep ==
  ASSUME IInv, NEW p \in {"done", "failed"}, End(p), rows' = rows, used' = used,
         UNCHANGED calls, p = "done" => NothingMissed'
  PROVE  IInv'
<1>1. TypeOK'
  <2>1. cursor' \in 0 .. MaxId
    BY ReembedAssumption DEF End
  <2>2. DOMAIN batch' = {} /\ DOMAIN vectors' = {}
    BY DEF End
  <2> QED BY <2>1, <2>2 DEF IInv, TypeOK, End, calls
<1>2. KeysRemembered'
  BY SameTable DEF IInv, KeysRemembered, End
<1>3. BatchIsNext' /\ UpdateIsWhole' /\ BehindIsNew' /\ DeletesOwn'
  BY SameTable
  DEF IInv, BatchIsNext, UpdateIsWhole, BehindIsNew, DeletesOwn, End, Working, calls
<1>4. VectorsMatchText'
  BY SameTable DEF IInv, VectorsMatchText
<1>5. NothingMissed'
  BY DEF NothingMissed, End
<1> QED BY <1>1, <1>2, <1>3, <1>4, <1>5 DEF IInv

\* A run starts in front of all keys.
LEMMA StartStep ==
  ASSUME IInv, Start
  PROVE  IInv'
<1> USE SameTable DEF Start
<1>1. TypeOK'
  <2>1. cursor' \in 0 .. MaxId /\ runs' \in 0 .. MaxRuns /\ present' \in SUBSET Ids
    BY ReembedAssumption DEF IInv, TypeOK, Existing
  <2> QED BY <2>1 DEF IInv, TypeOK, calls
<1>2. KeysRemembered'
  BY DEF IInv, KeysRemembered
<1>3. BatchIsNext' /\ UpdateIsWhole' /\ DeletesOwn'
  BY DEF IInv, BatchIsNext, UpdateIsWhole, DeletesOwn, Working, calls
<1>4. BehindIsNew'
  <2> SUFFICES ASSUME NEW i \in Existing', i <= cursor' PROVE FALSE
    BY DEF BehindIsNew
  <2> QED BY DEF Existing, Ids
<1>5. VectorsMatchText' /\ NothingMissed'
  BY DEF IInv, VectorsMatchText, NothingMissed
<1> QED BY <1>1, <1>2, <1>3, <1>4, <1>5 DEF IInv

\* The batch is a prefix of what is ahead; if there is nothing ahead, all
\* rows are behind the cursor.
LEMMA ReadBatchStep ==
  ASSUME IInv, ReadBatch
  PROVE  IInv'
<1> DEFINE ahead == {i \in Existing : i > cursor}
           first == {i \in ahead : Cardinality({j \in ahead : j < i}) < BatchSize}
<1>1. ahead \subseteq Ids /\ first \subseteq ahead
  BY DEF Existing
<1>2. first = {} => ahead = {}
  BY <1>1, FirstAhead
<1>3. \A i \in ahead, j \in first : i <= j => i \in first
  BY <1>1, FirstAhead
<1>4. \/ first = {} /\ End("done")
      \/ /\ first # {}
         /\ batch' = [i \in first |-> rows[i].text]
         /\ pc' = "embed"
         /\ UNCHANGED <<dry, cursor, vectors, targets, held, runs, present>>
  BY DEF ReadBatch
<1>5. pc = "read" /\ rows' = rows /\ used' = used /\ UNCHANGED calls
  BY DEF ReadBatch
<1>a. cursor \in Nat /\ Ids \subseteq Nat
  BY DEF IInv, TypeOK, Ids
<1>b. \A i \in ahead : i \in Existing /\ cursor < i
  BY <1>1, <1>a DEF Ids
<1>c. \A i \in Existing : i \in ahead \/ i <= cursor
  BY <1>a DEF Existing
<1> HIDE DEF ahead, first
<1>6. CASE first = {} /\ End("done")
  <2>1. \A i \in Existing : i <= cursor
    BY <1>2, <1>6, <1>c
  <2>2. NothingMissed'
    BY <1>5, <1>6, <2>1, SameTable DEF IInv, BehindIsNew, NothingMissed, End
  <2> QED BY <1>5, <1>6, <2>2, EndStep
<1>7. CASE /\ first # {}
           /\ batch' = [i \in first |-> rows[i].text]
           /\ pc' = "embed"
           /\ UNCHANGED <<dry, cursor, vectors, targets, held, runs, present>>
  <2>1. \A i \in first : i \in Existing /\ i \in Ids /\ rows[i] \in ChunkRow /\ cursor < i
    BY <1>1, <1>b DEF IInv, TypeOK, Existing
  <2>2. \A i \in first : rows[i].text \in Text
    BY <2>1 DEF ChunkRow
  <2>3. DOMAIN batch' = first
    BY <1>7
  <2>4. TypeOK'
    <3>1. targets = {} /\ held = {}
      BY <1>5 DEF IInv, BatchIsNext, Working
    <3> QED BY <1>5, <1>7, <2>1, <2>2, <2>3, <3>1 DEF IInv, TypeOK, calls
  <2>5. KeysRemembered'
    BY <1>5, <1>7, <2>1, <2>3, SameTable DEF IInv, KeysRemembered
  <2>6. BatchIsNext'
    <3>1. \A i \in present \cap Existing, j \in first : cursor < i /\ i <= j => i \in first
      BY <1>3, <1>c, <1>a, <2>1 DEF Existing, Ids
    <3>2. targets' = {} /\ held' = {}
      BY <1>5, <1>7 DEF IInv, BatchIsNext, Working
    <3> QED BY <1>5, <1>7, <2>1, <2>3, <3>1, <3>2, SameTable DEF BatchIsNext, Working
  <2>7. UpdateIsWhole' /\ DeletesOwn' /\ BehindIsNew'
    BY <1>5, <1>7, SameTable
    DEF IInv, UpdateIsWhole, DeletesOwn, BehindIsNew, Working, calls
  <2>8. VectorsMatchText' /\ NothingMissed'
    BY <1>5, <1>7, SameTable DEF IInv, VectorsMatchText, NothingMissed
  <2> QED BY <2>4, <2>5, <2>6, <2>7, <2>8 DEF IInv
<1> QED BY <1>4, <1>6, <1>7

\* What is up to the last key of a batch has been behind the cursor before or
\* is in the batch; then the cursor may move on.
LEMMA AdvanceStep ==
  ASSUME IInv, Working, Advance, used' = used, UNCHANGED calls,
         rows' \in [Ids -> ChunkRow \cup {NoRow}], Existing' = Existing,
         \A d \in Docs : RowsOf(d)' = RowsOf(d),
         \A i \in Existing : rows[i].vector.by = "new" => rows'[i].vector.by = "new",
         ~ dry => \A i \in DOMAIN batch \cap Existing : rows'[i].vector.by = "new",
         VectorsMatchText'
  PROVE  IInv'
<1>1. DOMAIN batch \subseteq Ids /\ DOMAIN batch # {}
  BY DEF IInv, TypeOK, BatchIsNext
<1>2. cursor' \in DOMAIN batch
  BY <1>1, LastIsLargest DEF Advance
<1>3. TypeOK'
  <2>1. cursor' \in 0 .. MaxId
    BY <1>1, <1>2 DEF Ids
  <2>2. DOMAIN batch' = {} /\ DOMAIN vectors' = {}
    BY DEF Advance
  <2> QED BY <2>1, <2>2 DEF IInv, TypeOK, Advance, calls
<1>4. KeysRemembered'
  BY DEF IInv, KeysRemembered, Advance
<1>5. BatchIsNext' /\ UpdateIsWhole' /\ DeletesOwn'
  BY DEF IInv, BatchIsNext, UpdateIsWhole, DeletesOwn, Advance, Working, calls
<1>6. BehindIsNew'
  <2> SUFFICES ASSUME ~ dry, NEW i \in present \cap Existing, i <= cursor'
               PROVE  rows'[i].vector.by = "new"
    BY DEF BehindIsNew, Advance
  <2>1. i \in Nat /\ cursor \in Nat
    BY DEF IInv, TypeOK, Existing, Ids
  <2>2. CASE i <= cursor
    BY <2>2 DEF IInv, BehindIsNew
  <2>3. CASE cursor < i
    BY <1>2, <2>3 DEF IInv, BatchIsNext
  <2> QED BY <2>1, <2>2, <2>3
<1>7. NothingMissed'
  BY DEF NothingMissed, Advance
<1> QED BY <1>3, <1>4, <1>5, <1>6, <1>7 DEF IInv

\* A dry run moves on at once; otherwise each key gets the vector of its text.
LEMMA EmbedStep ==
  ASSUME IInv, Embed
  PROVE  IInv'
<1>1. pc = "embed" /\ rows' = rows /\ used' = used /\ UNCHANGED calls
  BY DEF Embed
<1>2. CASE dry
  <2>1. VectorsMatchText' /\ rows' \in [Ids -> ChunkRow \cup {NoRow}] /\ Advance
    BY <1>1, <1>2, SameTable DEF IInv, TypeOK, VectorsMatchText, Embed
  <2> QED BY <1>1, <1>2, <2>1, SameTable, AdvanceStep DEF Working
<1>3. CASE ~ dry
  <2>1. /\ vectors' = [i \in DOMAIN batch |-> Embedding(batch[i], "new")]
        /\ pc' = "update"
        /\ UNCHANGED <<dry, cursor, batch, targets, held, runs, present>>
    BY <1>3 DEF Embed
  <2>2. TypeOK'
    <3>1. \A i \in DOMAIN vectors' : i \in Ids /\ vectors'[i] \in Vector
      BY <2>1 DEF IInv, TypeOK, Embedding, Vector, Models
    <3> QED BY <1>1, <2>1, <3>1 DEF IInv, TypeOK, calls
  <2>3. KeysRemembered' /\ BatchIsNext'
    BY <1>1, <2>1, SameTable DEF IInv, KeysRemembered, BatchIsNext, Working
  <2>4. UpdateIsWhole' /\ DeletesOwn' /\ BehindIsNew'
    BY <1>1, <2>1, SameTable
    DEF IInv, UpdateIsWhole, DeletesOwn, BehindIsNew, Working, calls
  <2>5. VectorsMatchText' /\ NothingMissed'
    BY <1>1, <2>1, SameTable DEF IInv, VectorsMatchText, NothingMissed
  <2> QED BY <2>2, <2>3, <2>4, <2>5 DEF IInv
<1> QED BY <1>2, <1>3

\* The rows of the batch that are left are the targets.
LEMMA StartUpdateStep ==
  ASSUME IInv, StartUpdate
  PROVE  IInv'
<1> USE SameTable DEF StartUpdate
<1>1. TypeOK'
  <2>1. held = {}
    BY DEF IInv, BatchIsNext, TypeOK
  <2> QED BY <2>1 DEF IInv, TypeOK, calls
<1>2. KeysRemembered' /\ BatchIsNext'
  BY DEF IInv, KeysRemembered, BatchIsNext, Working
<1>3. UpdateIsWhole' /\ DeletesOwn' /\ BehindIsNew'
  BY DEF IInv, UpdateIsWhole, DeletesOwn, BehindIsNew, Working, calls
<1>4. VectorsMatchText' /\ NothingMissed'
  BY DEF IInv, VectorsMatchText, NothingMissed
<1> QED BY <1>1, <1>2, <1>3, <1>4 DEF IInv

\* A row is locked by one side only, and dropped only if it is gone.
LEMMA LockTargetStep ==
  ASSUME IInv, LockTarget
  PROVE  IInv'
<1>1. PICK i \in targets \ held :
        /\ LockedBy(i) = {}
        /\ IF i \in Existing THEN held' = held \cup {i} /\ UNCHANGED targets
           ELSE targets' = targets \ {i} /\ UNCHANGED held
  BY DEF LockTarget
<1>2. /\ pc = "locking"
      /\ UNCHANGED <<rows, used, pc, dry, cursor, batch, vectors, runs, present, calls>>
  BY DEF LockTarget
<1> USE SameTable
<1>3. TypeOK'
  <2>1. targets' \subseteq DOMAIN batch /\ held' \subseteq targets'
    BY <1>1 DEF IInv, TypeOK
  <2> QED BY <1>2, <2>1 DEF IInv, TypeOK, calls
<1>4. KeysRemembered' /\ BatchIsNext'
  BY <1>2 DEF IInv, KeysRemembered, BatchIsNext, Working
<1>5. UpdateIsWhole'
  BY <1>1, <1>2 DEF IInv, UpdateIsWhole
<1>6. DeletesOwn'
  BY <1>1, <1>2 DEF IInv, DeletesOwn, LockedBy, calls
<1>7. BehindIsNew' /\ VectorsMatchText' /\ NothingMissed'
  BY <1>2 DEF IInv, BehindIsNew, VectorsMatchText, NothingMissed, Working
<1> QED BY <1>3, <1>4, <1>5, <1>6, <1>7 DEF IInv

\* The UPDATE leaves all rows in place and gives those it has locked the new
\* model's embedding of the text they have: a key's text never changes.
LEMMA WrittenRows ==
  ASSUME IInv, pc = "locking", held = targets, rows' = Written
  PROVE  /\ rows' \in [Ids -> ChunkRow \cup {NoRow}]
         /\ Existing' = Existing
         /\ \A d \in Docs : RowsOf(d)' = RowsOf(d)
         /\ \A i \in Ids \ held : rows'[i] = rows[i]
         /\ \A i \in held : rows'[i] = NewRow(rows[i].text, "new")
         /\ \A i \in held : rows'[i].vector.by = "new"
         /\ \A i \in DOMAIN batch \cap Existing : rows'[i].vector.by = "new"
         /\ VectorsMatchText'
<1>1. \A i \in held : /\ i \in DOMAIN batch \cap Existing /\ i \in Ids
                      /\ rows[i] \in ChunkRow
                      /\ rows[i].text = batch[i]
                      /\ vectors[i] = Embedding(batch[i], "new")
  BY DEF IInv, TypeOK, UpdateIsWhole, BatchIsNext, Existing
<1>2. \A i \in Ids \ held : rows'[i] = rows[i]
  BY DEF Written
<1>3. \A i \in held : rows'[i] = NewRow(rows[i].text, "new")
  <2> SUFFICES ASSUME NEW i \in held
               PROVE  rows'[i] = NewRow(rows[i].text, "new")
    OBVIOUS
  <2>1. rows'[i] = [rows[i] EXCEPT !.vector = Embedding(rows[i].text, "new")]
    BY <1>1 DEF Written
  <2> QED BY <1>1, <2>1 DEF NewRow, ChunkRow
<1>4. \A i \in held : rows'[i] \in ChunkRow /\ rows'[i].text = rows[i].text
  <2> SUFFICES ASSUME NEW i \in held
               PROVE  rows'[i] \in ChunkRow /\ rows'[i].text = rows[i].text
    OBVIOUS
  <2>1. rows[i].text \in Text
    BY <1>1 DEF ChunkRow
  <2>2. Embedding(rows[i].text, "new") \in Vector
    BY <2>1 DEF Embedding, Vector, Models
  <2>3. NewRow(rows[i].text, "new") \in ChunkRow
    BY <2>1, <2>2 DEF NewRow, ChunkRow
  <2> QED BY <1>3, <2>3 DEF NewRow
<1>v. \A i \in held : rows'[i].vector.of = rows'[i].text /\ rows'[i].vector.by = "new"
  <2> SUFFICES ASSUME NEW i \in held
               PROVE  rows'[i].vector.of = rows'[i].text /\ rows'[i].vector.by = "new"
    OBVIOUS
  <2> DEFINE c == rows[i].text
             v == Embedding(c, "new")
  <2>0. rows'[i] = NewRow(c, "new")
    BY <1>3
  <2> HIDE DEF c
  <2>a. rows'[i] = [text |-> c, vector |-> v]
    BY <2>0 DEF NewRow
  <2> HIDE DEF v
  <2>1. rows'[i].vector = v /\ rows'[i].text = c
    BY <2>a
  <2> USE DEF v
  <2> QED BY <2>1 DEF Embedding
<1>5. DOMAIN rows' = Ids /\ \A i \in Ids : rows'[i] \in ChunkRow \cup {NoRow}
  BY <1>2, <1>4 DEF Written, IInv, TypeOK
<1>6. rows' \in [Ids -> ChunkRow \cup {NoRow}]
  <2>1. rows' = [i \in Ids |-> rows'[i]]
    BY DEF Written
  <2> QED BY <1>5, <2>1
<1>7. Existing' = Existing
  BY <1>1, <1>2, <1>4, ReembedAssumption DEF Existing
<1>8. \A d \in Docs : RowsOf(d)' = RowsOf(d)
  BY <1>1, <1>2, <1>4, <1>7 DEF RowsOf, Existing
<1>9. \A i \in DOMAIN batch \cap Existing : rows'[i].vector.by = "new"
  <2>1. DOMAIN batch \cap Existing \subseteq held
    BY DEF IInv, UpdateIsWhole
  <2> QED BY <1>v, <2>1
<1>10. VectorsMatchText'
  <2> SUFFICES ASSUME NEW i \in Existing PROVE rows'[i].vector.of = rows'[i].text
    BY <1>7 DEF VectorsMatchText
  <2>1. CASE i \in held
    BY <1>v, <2>1
  <2>2. CASE i \notin held
    BY <1>2, <2>2 DEF IInv, VectorsMatchText, Existing
  <2> QED BY <2>1, <2>2
<1> QED BY <1>2, <1>3, <1>v, <1>6, <1>7, <1>8, <1>9, <1>10

\* COMMIT of a batch.
LEMMA CommitStep ==
  ASSUME IInv, Commit
  PROVE  IInv'
<1>1. /\ pc = "locking" /\ held = targets /\ rows' = Written
      /\ Advance /\ used' = used /\ UNCHANGED calls
  BY DEF Commit
<1>2. \A i \in Existing : rows[i].vector.by = "new" => rows'[i].vector.by = "new"
  BY <1>1, WrittenRows DEF Existing
<1> QED BY <1>1, <1>2, WrittenRows, AdvanceStep DEF Working

\* COMMIT of a batch whose confirmation is lost.
LEMMA CommitUnconfirmedStep ==
  ASSUME IInv, CommitUnconfirmed
  PROVE  IInv'
<1>1. /\ pc = "locking" /\ held = targets /\ rows' = Written
      /\ End("failed") /\ used' = used /\ UNCHANGED calls
  BY DEF CommitUnconfirmed
<1>2. TypeOK'
  <2>1. cursor' \in 0 .. MaxId
    BY <1>1, ReembedAssumption DEF End
  <2>2. DOMAIN batch' = {} /\ DOMAIN vectors' = {}
    BY <1>1 DEF End
  <2> QED BY <1>1, <2>1, <2>2, WrittenRows DEF IInv, TypeOK, End, calls
<1>3. KeysRemembered'
  BY <1>1, WrittenRows DEF IInv, KeysRemembered, End
<1>4. BatchIsNext' /\ UpdateIsWhole' /\ BehindIsNew' /\ DeletesOwn' /\ NothingMissed'
  BY <1>1, WrittenRows
  DEF IInv, BatchIsNext, UpdateIsWhole, BehindIsNew, DeletesOwn, NothingMissed, End,
      Working, calls
<1> QED BY <1>1, <1>2, <1>3, <1>4, WrittenRows DEF IInv

\* A run that fails.
LEMMA FailStep ==
  ASSUME IInv, Fail
  PROVE  IInv'
  BY EndStep DEF Fail

-----------------------------------------------------------------------------
\* The steps of the ingests.

\* As long as the script and the table stay, only what is said of the calls
\* has to be looked at.
LEMMA CallStep ==
  ASSUME IInv, UNCHANGED <<rows, used, script>>, DeletesOwn',
         call' \in [Docs -> {"idle", "delete"}], model' \in [Docs -> Models],
         victims' \in [Docs -> SUBSET Ids], locked' \in [Docs -> SUBSET Ids],
         \A d \in Docs : locked'[d] \subseteq victims'[d],
         ingests' \in 0 .. MaxIngests
  PROVE  IInv'
<1> USE SameTable DEF script
<1>1. TypeOK'
  BY DEF IInv, TypeOK
<1>2. KeysRemembered' /\ BatchIsNext' /\ UpdateIsWhole'
  BY DEF IInv, KeysRemembered, BatchIsNext, UpdateIsWhole, Working
<1>3. BehindIsNew' /\ VectorsMatchText' /\ NothingMissed'
  BY DEF IInv, BehindIsNew, VectorsMatchText, NothingMissed, Working
<1> QED BY <1>1, <1>2, <1>3 DEF IInv

\* The DELETE's snapshot holds rows of its document.
LEMMA StartDeleteStep ==
  ASSUME IInv, NEW d \in Docs, StartDelete(d)
  PROVE  IInv'
<1>1. /\ call' = [call EXCEPT ![d] = "delete"]
      /\ victims' = [victims EXCEPT ![d] = RowsOf(d)]
      /\ ingests < MaxIngests /\ ingests' = ingests + 1
      /\ UNCHANGED <<rows, used, script, locked>>
  BY DEF StartDelete
<1>2. PICK m \in Models : model' = [model EXCEPT ![d] = m]
  BY DEF StartDelete
<1>3. RowsOf(d) \subseteq Ids /\ victims[d] = {} /\ locked[d] = {}
  BY DEF IInv, TypeOK, DeletesOwn, RowsOf, Existing, StartDelete
<1>4. /\ call' \in [Docs -> {"idle", "delete"}] /\ model' \in [Docs -> Models]
      /\ victims' \in [Docs -> SUBSET Ids] /\ locked' \in [Docs -> SUBSET Ids]
      /\ \A e \in Docs : locked'[e] \subseteq victims'[e]
  BY <1>1, <1>2, <1>3 DEF IInv, TypeOK
<1>5. ingests' \in 0 .. MaxIngests
  BY <1>1, ReembedAssumption DEF IInv, TypeOK
<1>6. DeletesOwn'
  BY <1>1, <1>3, SameTable DEF IInv, TypeOK, DeletesOwn, script
<1> QED BY <1>1, <1>4, <1>5, <1>6, CallStep

\* The DELETE locks a row that the script does not hold.
LEMMA DeleteRowStep ==
  ASSUME IInv, NEW d \in Docs, DeleteRow(d)
  PROVE  IInv'
<1>1. PICK i \in (victims[d] \ locked[d]) \ held :
        locked' = [locked EXCEPT ![d] = @ \cup {i}]
  BY DEF DeleteRow
<1>2. UNCHANGED <<rows, used, script, call, model, victims, ingests>>
  BY DEF DeleteRow
<1>3. /\ locked' \in [Docs -> SUBSET Ids]
      /\ \A e \in Docs : locked'[e] \subseteq victims'[e]
  BY <1>1, <1>2 DEF IInv, TypeOK
<1>4. DeletesOwn'
  BY <1>1, <1>2, SameTable DEF IInv, TypeOK, DeletesOwn, script
<1>5. /\ call' \in [Docs -> {"idle", "delete"}] /\ model' \in [Docs -> Models]
      /\ victims' \in [Docs -> SUBSET Ids] /\ ingests' \in 0 .. MaxIngests
  BY <1>2 DEF IInv, TypeOK
<1> QED BY <1>2, <1>3, <1>4, <1>5, CallStep

\* A call that is over holds nothing.
LEMMA LeftCalls ==
  ASSUME IInv, NEW d \in Docs, Leave(d)
  PROVE  /\ call' \in [Docs -> {"idle", "delete"}] /\ model' \in [Docs -> Models]
         /\ victims' \in [Docs -> SUBSET Ids] /\ locked' \in [Docs -> SUBSET Ids]
         /\ \A e \in Docs : locked'[e] \subseteq victims'[e]
         /\ ingests' \in 0 .. MaxIngests
         /\ call'[d] = "idle" /\ victims'[d] = {} /\ locked'[d] = {}
         /\ \A e \in Docs \ {d} : /\ victims'[e] = victims[e] /\ locked'[e] = locked[e]
                                  /\ call'[e] = call[e]
  BY DEF IInv, TypeOK, Leave, Models

\* What a call has locked are rows of its document.
LEMMA Deleting ==
  ASSUME IInv, NEW d \in Docs
  PROVE  locked[d] \subseteq victims[d] /\ victims[d] \subseteq RowsOf(d)
<1>1. call[d] \in {"idle", "delete"} /\ locked[d] \subseteq victims[d]
  BY DEF IInv, TypeOK
<1>2. victims[d] = {} \/ victims[d] = RowsOf(d)
  BY <1>1 DEF IInv, DeletesOwn
<1> QED BY <1>1, <1>2

\* A call that gives up.
LEMMA AbortStep ==
  ASSUME IInv, NEW d \in Docs, Abort(d)
  PROVE  IInv'
<1>1. Leave(d) /\ UNCHANGED <<rows, used, script>>
  BY DEF Abort
<1>2. DeletesOwn'
  BY <1>1, LeftCalls, SameTable DEF IInv, DeletesOwn, script
<1> QED BY <1>1, <1>2, LeftCalls, CallStep

\* What a published version does to the table: its rows have keys that were
\* never used, and only rows of the same document are gone.
LEMMA PublishedRows ==
  ASSUME IInv, NEW d \in Docs, locked[d] = victims[d],
         NEW n \in 1 .. MaxChunks, NEW id \in FreshKeys(n), NEW m \in Models,
         rows' = Replaced(locked[d], d, ingests, id, m)
  PROVE  /\ rows' \in [Ids -> ChunkRow \cup {NoRow}]
         /\ \A k \in 0 .. n - 1 :
              /\ id[k] \in Ids \ used
              /\ rows'[id[k]] = NewRow([doc |-> d, version |-> ingests, order |-> k], m)
         /\ \A i \in Ids \ {id[k] : k \in 0 .. n - 1} :
              rows'[i] = IF i \in locked[d] THEN NoRow ELSE rows[i]
<1>1. /\ id \in [0 .. n - 1 -> Ids \ used] /\ DOMAIN id = 0 .. n - 1
      /\ \A j, k \in 0 .. n - 1 : id[j] = id[k] => j = k
  BY DEF FreshKeys
<1>2. \A k \in 0 .. n - 1 : [doc |-> d, version |-> ingests, order |-> k] \in Text
  BY ReembedAssumption DEF Text, IInv, TypeOK
<1>3. \A k \in 0 .. n - 1 :
        NewRow([doc |-> d, version |-> ingests, order |-> k], m) \in ChunkRow
  BY <1>2 DEF NewRow, Embedding, ChunkRow, Vector
<1>4. ASSUME NEW k \in 0 .. n - 1
      PROVE  /\ id[k] \in Ids \ used
             /\ rows'[id[k]] = NewRow([doc |-> d, version |-> ingests, order |-> k], m)
  <2>1. id[k] \in Ids \ used
    BY <1>1
  <2>2. (CHOOSE j \in DOMAIN id : id[j] = id[k]) = k
    BY <1>1
  <2>3. \E j \in DOMAIN id : id[j] = id[k]
    BY <1>1
  <2> QED BY <2>1, <2>2, <2>3 DEF Replaced
<1>5. ASSUME NEW i \in Ids \ {id[k] : k \in 0 .. n - 1}
      PROVE  rows'[i] = IF i \in locked[d] THEN NoRow ELSE rows[i]
  <2>1. ~ \E k \in DOMAIN id : id[k] = i
    BY <1>1, <1>5
  <2> QED BY <2>1 DEF Replaced
<1>6. \A i \in Ids : rows'[i] \in ChunkRow \cup {NoRow}
  <2> SUFFICES ASSUME NEW i \in Ids PROVE rows'[i] \in ChunkRow \cup {NoRow}
    OBVIOUS
  <2>1. CASE \E k \in 0 .. n - 1 : id[k] = i
    <3>1. PICK k \in 0 .. n - 1 : id[k] = i
      BY <2>1
    <3>2. rows'[i] = NewRow([doc |-> d, version |-> ingests, order |-> k], m)
      BY <1>4, <3>1
    <3> QED BY <1>3, <3>2
  <2>2. CASE i \in Ids \ {id[k] : k \in 0 .. n - 1}
    <3>1. rows[i] \in ChunkRow \cup {NoRow}
      BY DEF IInv, TypeOK
    <3> QED BY <1>5, <2>2, <3>1
  <2> QED BY <2>1, <2>2
<1>7. rows' = [i \in Ids |-> rows'[i]]
  BY DEF Replaced
<1> QED BY <1>4, <1>5, <1>6, <1>7

\* A version is published.
LEMMA PublishStep ==
  ASSUME IInv, NEW d \in Docs, Publish(d)
  PROVE  IInv'
<1>0. PICK n \in 1 .. MaxChunks : \E id \in FreshKeys(n) :
        /\ rows' = Replaced(locked[d], d, ingests, id, model[d])
        /\ used' = used \cup {id[k] : k \in DOMAIN id}
  BY DEF Publish
<1>1. PICK id \in FreshKeys(n) :
        /\ rows' = Replaced(locked[d], d, ingests, id, model[d])
        /\ used' = used \cup {id[k] : k \in DOMAIN id}
  BY <1>0
<1>2. locked[d] = victims[d] /\ Leave(d) /\ UNCHANGED script /\ model[d] \in Models
  BY DEF Publish, IInv, TypeOK
<1> DEFINE fresh == {id[k] : k \in 0 .. n - 1}
<1>3. DOMAIN id = 0 .. n - 1 /\ fresh \subseteq Ids \ used
  BY DEF FreshKeys
<1>4. used' = used \cup fresh
  BY <1>1, <1>3
<1>5. rows' \in [Ids -> ChunkRow \cup {NoRow}]
  BY <1>1, <1>2, PublishedRows
<1>6. \A i \in Ids \ fresh : rows'[i] = IF i \in locked[d] THEN NoRow ELSE rows[i]
  BY <1>1, <1>2, PublishedRows
<1>7. \A i \in fresh : rows'[i].vector.of = rows'[i].text /\ rows'[i].text.doc = d
  <2> SUFFICES ASSUME NEW k \in 0 .. n - 1
               PROVE  /\ rows'[id[k]].vector.of = rows'[id[k]].text
                      /\ rows'[id[k]].text.doc = d
    OBVIOUS
  <2>1. rows'[id[k]] = NewRow([doc |-> d, version |-> ingests, order |-> k], model[d])
    BY <1>1, <1>2, PublishedRows
  <2> QED BY <2>1 DEF NewRow, Embedding
<1> HIDE DEF fresh
\* A row that was there before and still is has not changed.
<1>8. \A i \in Existing' \ fresh : i \in Existing /\ rows'[i] = rows[i] /\ i \notin locked[d]
  BY <1>6 DEF Existing
<1>9. \A i \in used \cap Existing' : i \in Existing /\ rows'[i] = rows[i]
  BY <1>3, <1>8
<1>10. \A i \in Existing : i \notin locked[d] => i \in Existing' /\ rows'[i] = rows[i]
  BY <1>3, <1>6 DEF Existing, IInv, KeysRemembered
<1>11. TypeOK'
  <2>1. used' \in SUBSET Ids
    BY <1>3, <1>4 DEF IInv, TypeOK
  <2> QED BY <1>2, <1>5, <2>1, LeftCalls DEF IInv, TypeOK, script
<1>12. KeysRemembered'
  BY <1>2, <1>4, <1>8 DEF IInv, KeysRemembered, script
<1>13. BatchIsNext'
  <2>1. \A i \in DOMAIN batch \cap Existing' : i \in Existing /\ rows'[i] = rows[i]
    BY <1>9 DEF IInv, KeysRemembered
  <2>2. \A i \in present \cap Existing' : i \in present \cap Existing
    BY <1>9 DEF IInv, KeysRemembered
  <2> QED BY <1>2, <2>1, <2>2 DEF IInv, BatchIsNext, Working, script
<1>14. UpdateIsWhole'
  <2>1. held \subseteq Existing'
    BY <1>10 DEF IInv, UpdateIsWhole, DeletesOwn
  <2>2. DOMAIN batch \cap Existing' \subseteq Existing
    BY <1>9 DEF IInv, KeysRemembered
  <2> QED BY <1>2, <2>1, <2>2 DEF IInv, UpdateIsWhole, script
<1>15. DeletesOwn'
  <2> SUFFICES ASSUME NEW e \in Docs
               PROVE  /\ call'[e] = "idle" => victims'[e] = {}
                      /\ call'[e] = "delete" => victims'[e] = RowsOf(e)'
                      /\ held' \cap locked'[e] = {}
    BY DEF DeletesOwn
  <2>1. CASE e = d
    BY <1>2, <2>1, LeftCalls
  <2>2. CASE e # d
    <3>1. /\ victims'[e] = victims[e] /\ locked'[e] = locked[e] /\ call'[e] = call[e]
          /\ held' = held
      BY <1>2, <2>2, LeftCalls DEF script
    <3>2. \A i \in locked[d] : rows[i].text.doc = d
      BY <1>2, Deleting DEF RowsOf
    <3>3. RowsOf(e)' = RowsOf(e)
      BY <1>7, <1>8, <1>10, <2>2, <3>2 DEF RowsOf
    <3> QED BY <3>1, <3>3 DEF IInv, DeletesOwn
  <2> QED BY <2>1, <2>2
<1>16. BehindIsNew' /\ NothingMissed'
  <2>1. \A i \in present \cap Existing' : i \in present \cap Existing /\ rows'[i] = rows[i]
    BY <1>9 DEF IInv, KeysRemembered
  <2> QED BY <1>2, <2>1 DEF IInv, BehindIsNew, NothingMissed, Working, script
<1>17. VectorsMatchText'
  <2> SUFFICES ASSUME NEW i \in Existing' PROVE rows'[i].vector.of = rows'[i].text
    BY DEF VectorsMatchText
  <2> QED BY <1>7, <1>8 DEF IInv, VectorsMatchText
<1> QED BY <1>11, <1>12, <1>13, <1>14, <1>15, <1>16, <1>17 DEF IInv

-----------------------------------------------------------------------------
\* The invariant, and what follows from it.

\* Every step keeps the invariant.
LEMMA InvariantStep ==
  ASSUME IInv, [Next]_vars
  PROVE  IInv'
<1>1. CASE Start BY <1>1, StartStep
<1>2. CASE ReadBatch BY <1>2, ReadBatchStep
<1>3. CASE Embed BY <1>3, EmbedStep
<1>4. CASE StartUpdate BY <1>4, StartUpdateStep
<1>5. CASE LockTarget BY <1>5, LockTargetStep
<1>6. CASE Commit BY <1>6, CommitStep
<1>7. CASE CommitUnconfirmed BY <1>7, CommitUnconfirmedStep
<1>8. CASE Fail BY <1>8, FailStep
<1>9. ASSUME NEW d \in Docs,
             StartDelete(d) \/ DeleteRow(d) \/ Publish(d) \/ Abort(d) \/ BreakDeadlock(d)
      PROVE  IInv'
  BY <1>9, StartDeleteStep, DeleteRowStep, PublishStep, AbortStep, FailStep
  DEF BreakDeadlock
<1>10. CASE UNCHANGED vars
  <2>1. UNCHANGED <<rows, used, script, calls>>
    BY <1>10 DEF vars
  <2>2. DeletesOwn'
    BY <2>1, SameTable DEF IInv, DeletesOwn, script, calls
  <2> QED BY <2>1, <2>2, CallStep DEF IInv, TypeOK, calls
<1> QED BY <1>1, <1>2, <1>3, <1>4, <1>5, <1>6, <1>7, <1>8, <1>9, <1>10
        DEF Next, Script, Call, Terminated

\* The inductive invariant holds at all times.
THEOREM Invariant == Spec => []IInv
<1>1. Init => IInv
  BY InitialState
<1>2. IInv /\ [Next]_vars => IInv'
  BY InvariantStep
<1> QED BY <1>1, <1>2, PTL DEF Spec

\* Rows, batches and locks keep their shape.
THEOREM TypeCorrect == Spec => []TypeOK
<1>1. IInv => TypeOK
  BY DEF IInv
<1> QED BY <1>1, Invariant, PTL

\* No row ever has the vector of another text, whatever was deleted and
\* inserted between the reading of a batch and the UPDATE.
THEOREM VectorsAreOwn == Spec => []VectorsMatchText
<1>1. IInv => VectorsMatchText
  BY DEF IInv
<1> QED BY <1>1, Invariant, PTL

\* A run that ends well has missed no row that was there from its start.
THEOREM NoRowMissed == Spec => []NothingMissed
<1>1. IInv => NothingMissed
  BY DEF IInv
<1> QED BY <1>1, Invariant, PTL

-----------------------------------------------------------------------------
\* The refinement.

\* The table at first is a chunking of every document.
LEMMA InitialStore == Init => CS!Init
<1> SUFFICES ASSUME Init PROVE CS!Init
  OBVIOUS
<1>1. PICK table \in Tables :
        rows = [i \in Ids |->
          IF table[i] = NoRow THEN NoRow
          ELSE NewRow([doc |-> table[i][1], version |-> 0, order |-> table[i][2]], "old")]
  BY DEF Init
<1>2. WellFormed(table)
  BY ReembedAssumption
<1>3. ASSUME NEW i \in Existing
      PROVE  /\ i \in Ids /\ table[i] # NoRow /\ table[i][2] \in Nat
             /\ table[i] = <<table[i][1], table[i][2]>>
             /\ rows[i].text = [doc |-> table[i][1], version |-> 0, order |-> table[i][2]]
             /\ rows[i].vector = Embedding(rows[i].text, "old")
  <2>1. i \in Ids /\ rows[i] # NoRow
    BY DEF Existing
  <2>2. table[i] # NoRow
    BY <1>1, <2>1
  <2> DEFINE c == [doc |-> table[i][1], version |-> 0, order |-> table[i][2]]
  <2>3. rows[i] = NewRow(c, "old")
    BY <1>1, <2>1, <2>2
  <2>4. table[i] \in Docs \X (0 .. MaxChunks - 1)
    BY <1>2, <2>1, <2>2 DEF WellFormed
  <2> HIDE DEF c
  <2>5. rows[i].text = c /\ rows[i].vector = Embedding(c, "old")
    BY <2>3 DEF NewRow
  <2>6. table[i] = <<table[i][1], table[i][2]>> /\ table[i][2] \in Nat
    BY <2>4, ReembedAssumption
  <2> USE DEF c
  <2> QED BY <2>1, <2>2, <2>5, <2>6
<1>4. ASSUME NEW i \in Ids, table[i] # NoRow
      PROVE  i \in Existing
  <2> DEFINE c == [doc |-> table[i][1], version |-> 0, order |-> table[i][2]]
  <2>1. rows[i] = NewRow(c, "old")
    BY <1>1, <1>4
  <2>2. table[i] \in Docs \X (0 .. MaxChunks - 1)
    BY <1>2, <1>4 DEF WellFormed
  <2>3. c \in Text
    BY <2>2, ReembedAssumption DEF Text
  <2>4. rows[i] \in ChunkRow
    BY <2>1, <2>3 DEF NewRow, Embedding, ChunkRow, Vector, Models
  <2> QED BY <2>4, ReembedAssumption DEF Existing
<1>5. ASSUME NEW d \in Docs
      PROVE  CS!IsChunking(Store[d], d, 0, "old")
  <2>1. Store[d] = {StoreRow(i) : i \in RowsOf(d)}
    BY DEF Store
  <2>2. ASSUME NEW i \in RowsOf(d)
        PROVE  /\ StoreRow(i).id = i /\ i \in Ids
               /\ StoreRow(i).text = rows[i].text /\ StoreRow(i).vector = rows[i].vector
               /\ rows[i].text = CS!Text(d, 0, rows[i].text.order)
               /\ rows[i].vector = CS!Embedding(rows[i].text, "old")
               /\ rows[i].text.order = table[i][2] /\ table[i][2] \in Nat
               /\ table[i] = <<d, table[i][2]>>
    <3>1. i \in Existing /\ rows[i].text.doc = d
      BY DEF RowsOf
    <3>2. StoreRow(i).id = i /\ StoreRow(i).text = rows[i].text
          /\ StoreRow(i).vector = rows[i].vector
      BY DEF StoreRow
    <3>3. rows[i].text = [doc |-> table[i][1], version |-> 0, order |-> table[i][2]]
      BY <1>3, <3>1
    <3>4. rows[i].text.doc = table[i][1] /\ rows[i].text.order = table[i][2]
      BY <3>3
    <3>5. rows[i].text = CS!Text(d, 0, rows[i].text.order)
      BY <3>1, <3>3, <3>4 DEF CS!Text
    <3>6. rows[i].vector = CS!Embedding(rows[i].text, "old")
      BY <1>3, <3>1 DEF CS!Embedding, Embedding
    <3> QED BY <1>3, <3>1, <3>2, <3>4, <3>5, <3>6
  <2>3. ASSUME NEW i \in RowsOf(d), NEW k \in 0 .. StoreRow(i).text.order
        PROVE  \E j \in RowsOf(d) : StoreRow(j).text.order = k
    <3>1. i \in Existing /\ rows[i].text.doc = d /\ i \in Ids /\ table[i] # NoRow
      BY <1>3 DEF RowsOf
    <3>2. table[i] = <<d, table[i][2]>> /\ k \in 0 .. table[i][2]
      BY <2>2, <2>3
    <3>b. table[i][1] = d
      BY <3>2
    <3>c. \E j \in Ids : table[j] = <<table[i][1], k>>
      BY <1>2, <3>1, <3>2 DEF WellFormed
    <3>3. PICK j \in Ids : table[j] = <<d, k>>
      BY <3>b, <3>c
    <3>a. <<d, k>> # NoRow
      <4>1. table[i][2] \in 0 .. MaxChunks - 1
        BY <1>2, <3>1 DEF WellFormed
      <4>2. k \in 0 .. MaxChunks - 1
        BY <3>2, <4>1, ReembedAssumption
      <4> QED BY <4>2, ReembedAssumption
    <3>4. j \in Existing
      BY <1>4, <3>3, <3>a
    <3>d. table[j][1] = d /\ table[j][2] = k
      BY <3>3
    <3>5. rows[j].text = [doc |-> d, version |-> 0, order |-> k]
      BY <1>3, <3>d, <3>4
    <3>6. j \in RowsOf(d)
      BY <3>4, <3>5 DEF RowsOf
    <3> QED BY <3>5, <3>6 DEF StoreRow
  <2>4. ASSUME NEW i \in RowsOf(d), NEW j \in RowsOf(d),
               i = j \/ StoreRow(i).text.order = StoreRow(j).text.order
        PROVE  i = j
    <3>1. i \in Existing /\ rows[i].text.doc = d /\ j \in Existing /\ rows[j].text.doc = d
      BY DEF RowsOf
    <3>a. table[i] = <<d, table[i][2]>> /\ table[j] = <<d, table[j][2]>>
      BY <2>2
    <3>b. i = j \/ table[i][2] = table[j][2]
      BY <2>2, <2>4
    <3>2. table[i] = table[j] \/ i = j
      BY <3>a, <3>b
    <3>3. i \in Ids /\ j \in Ids /\ table[i] # NoRow
      BY <1>3, <3>1
    <3> QED BY <1>2, <3>2, <3>3 DEF WellFormed
  <2> HIDE DEF RowsOf
  <2> QED BY <2>1, <2>2, <2>3, <2>4 DEF CS!IsChunking
<1>6. 0 \in 0 .. MaxIngests
  BY ReembedAssumption
<1> QED BY <1>5, <1>6 DEF CS!Init, Store

\* While the table stays, so does the store.
LEMMA SameStore ==
  ASSUME rows' = rows
  PROVE  Store' = Store
<1>1. \A d \in Docs : RowsOf(d)' = RowsOf(d)
  BY SameTable
<1>2. \A d \in Docs : {StoreRow(i) : i \in RowsOf(d)}' = {StoreRow(i) : i \in RowsOf(d)}
  BY <1>1 DEF StoreRow
<1> QED BY <1>2 DEF Store

\* The UPDATE of a batch refreshes the rows it has locked.
LEMMA WriteRefreshes ==
  ASSUME IInv, pc = "locking", held = targets, rows' = Written
  PROVE  CS!Next
<1>1. ASSUME NEW d \in Docs, NEW i \in RowsOf(d)
      PROVE  StoreRow(i)' =
               IF StoreRow(i).id \in held
                 THEN [StoreRow(i) EXCEPT !.vector = CS!Embedding(StoreRow(i).text, "new")]
                 ELSE StoreRow(i)
  <2>1. i \in Ids
    BY DEF RowsOf, Existing
  <2>2. StoreRow(i)' = [id |-> i, text |-> rows'[i].text, vector |-> rows'[i].vector]
    BY DEF StoreRow
  <2>3. /\ StoreRow(i).id = i /\ StoreRow(i).text = rows[i].text
        /\ StoreRow(i).vector = rows[i].vector
    BY DEF StoreRow
  <2>4. CASE i \in held
    <3> DEFINE c == rows[i].text
               v == Embedding(c, "new")
    <3>1. rows'[i] = NewRow(c, "new")
      BY <2>4, WrittenRows
    <3>2. v = CS!Embedding(c, "new")
      BY DEF Embedding, CS!Embedding
    <3> HIDE DEF c
    <3>a. rows'[i] = [text |-> c, vector |-> v]
      BY <3>1 DEF NewRow
    <3> HIDE DEF v
    <3>3. StoreRow(i)' = [id |-> i, text |-> c, vector |-> v]
      BY <2>2, <3>a
    <3>4. StoreRow(i) = [id |-> i, text |-> c, vector |-> rows[i].vector]
      BY DEF StoreRow, c
    <3>5. [StoreRow(i) EXCEPT !.vector = v] = [id |-> i, text |-> c, vector |-> v]
      BY <3>4
    <3>6. CS!Embedding(StoreRow(i).text, "new") = v
      BY <2>3, <3>2 DEF c
    <3> QED BY <2>3, <2>4, <3>3, <3>5, <3>6
  <2>5. CASE i \notin held
    <3>1. rows'[i] = rows[i]
      BY <2>1, <2>5, WrittenRows
    <3> QED BY <2>2, <2>3, <2>5, <3>1 DEF StoreRow
  <2> QED BY <2>4, <2>5
<1>2. Store' = [d \in Docs |->
        {IF r.id \in held THEN [r EXCEPT !.vector = CS!Embedding(r.text, "new")] ELSE r :
           r \in Store[d]}]
  <2>1. \A d \in Docs : RowsOf(d)' = RowsOf(d)
    BY WrittenRows
  <2>2. ASSUME NEW d \in Docs
        PROVE  {StoreRow(i) : i \in RowsOf(d)}' =
                 {IF r.id \in held THEN [r EXCEPT !.vector = CS!Embedding(r.text, "new")]
                  ELSE r : r \in {StoreRow(i) : i \in RowsOf(d)}}
    <3>1. {StoreRow(i) : i \in RowsOf(d)}' = {StoreRow(i)' : i \in RowsOf(d)}
      BY <2>1
    <3> QED BY <1>1, <3>1
  <2> QED BY <2>2 DEF Store
<1>3. held \in SUBSET UNION {CS!Keys(Store[d]) : d \in Docs}
  <2> SUFFICES ASSUME NEW i \in held
               PROVE  \E d \in Docs : i \in CS!Keys(Store[d])
    OBVIOUS
  <2>1. i \in Existing
    BY DEF IInv, UpdateIsWhole
  <2>2. rows[i].text.doc \in Docs /\ i \in RowsOf(rows[i].text.doc)
    BY <2>1 DEF IInv, TypeOK, Existing, ChunkRow, Text, RowsOf
  <2>3. StoreRow(i) \in Store[rows[i].text.doc] /\ StoreRow(i).id = i
    BY <2>2 DEF Store, StoreRow
  <2> QED BY <2>2, <2>3 DEF CS!Keys
<1> QED BY <1>2, <1>3 DEF CS!Next, CS!Refresh

\* A published version replaces the rows of its document.
LEMMA PublishReplaces ==
  ASSUME IInv, NEW d \in Docs, Publish(d)
  PROVE  CS!Next
<1>0. PICK n \in 1 .. MaxChunks : \E id \in FreshKeys(n) :
        rows' = Replaced(locked[d], d, ingests, id, model[d])
  BY DEF Publish
<1>1. PICK id \in FreshKeys(n) :
        rows' = Replaced(locked[d], d, ingests, id, model[d])
  BY <1>0
<1>2. /\ locked[d] = victims[d] /\ call[d] = "delete" /\ victims[d] = RowsOf(d)
      /\ model[d] \in Models /\ ingests \in 0 .. MaxIngests
  BY DEF Publish, IInv, TypeOK, DeletesOwn
<1> DEFINE fresh == {id[k] : k \in 0 .. n - 1}
           c(k) == [doc |-> d, version |-> ingests, order |-> k]
<1>3. n \in Nat /\ n > 0
  BY ReembedAssumption
<1>4. \A k \in 0 .. n - 1 : id[k] \in Ids \ used /\ rows'[id[k]] = NewRow(c(k), model[d])
  BY <1>1, <1>2, PublishedRows
<1>5. \A i \in Ids \ fresh : rows'[i] = IF i \in locked[d] THEN NoRow ELSE rows[i]
  BY <1>1, <1>2, PublishedRows
<1>6. \A i, j \in 0 .. n - 1 : id[i] = id[j] => i = j
  BY DEF FreshKeys
<1>7. ASSUME NEW k \in 0 .. n - 1
      PROVE  /\ id[k] \in Existing'
             /\ rows'[id[k]].text = c(k)
             /\ rows'[id[k]].vector = Embedding(c(k), model[d])
             /\ c(k).doc = d /\ c(k).order = k
  <2>1. rows'[id[k]] = [text |-> c(k), vector |-> Embedding(c(k), model[d])]
    BY <1>4 DEF NewRow
  <2>2. c(k) \in Text
    BY <1>2, ReembedAssumption DEF Text
  <2>3. Embedding(c(k), model[d]) \in Vector
    BY <1>2, <2>2 DEF Embedding, Vector
  <2>4. c(k).doc = d /\ c(k).order = k
    OBVIOUS
  <2> HIDE DEF c
  <2>5. rows'[id[k]] \in ChunkRow
    BY <2>1, <2>2, <2>3 DEF ChunkRow
  <2>6. id[k] \in Existing'
    BY <1>4, <2>5, ReembedAssumption DEF Existing
  <2> QED BY <2>1, <2>4, <2>6
<1> HIDE DEF c
<1>8. RowsOf(d)' = fresh
  <2>1. ASSUME NEW i \in RowsOf(d)', i \notin fresh PROVE FALSE
    <3>1. i \in Ids /\ rows'[i] # NoRow /\ rows'[i].text.doc = d
      BY <2>1 DEF RowsOf, Existing
    <3>2. i \notin locked[d] /\ rows'[i] = rows[i]
      BY <1>5, <2>1, <3>1
    <3>3. i \in RowsOf(d)
      BY <3>1, <3>2 DEF RowsOf, Existing
    <3> QED BY <1>2, <3>2, <3>3
  <2>2. ASSUME NEW i \in fresh PROVE i \in RowsOf(d)'
    BY <1>7, <2>2 DEF RowsOf
  <2> QED BY <2>1, <2>2
<1>9. ASSUME NEW e \in Docs, e # d
      PROVE  RowsOf(e)' = RowsOf(e) /\ \A i \in RowsOf(e) : rows'[i] = rows[i]
  <2>1. ASSUME NEW i \in RowsOf(e)
        PROVE  i \in RowsOf(e)' /\ rows'[i] = rows[i]
    <3>1. i \in Existing /\ rows[i].text.doc = e /\ i \in used /\ i \in Ids
      BY <2>1 DEF RowsOf, IInv, KeysRemembered, Existing
    <3>2. i \notin fresh /\ i \notin locked[d]
      BY <1>2, <1>4, <1>9, <3>1 DEF RowsOf
    <3>3. rows'[i] = rows[i]
      BY <1>5, <3>1, <3>2
    <3> QED BY <3>1, <3>3 DEF RowsOf, Existing
  <2>2. ASSUME NEW i \in RowsOf(e)'
        PROVE  i \in RowsOf(e)
    <3>1. i \in Ids /\ rows'[i] # NoRow /\ rows'[i].text.doc = e
      BY <2>2 DEF RowsOf, Existing
    <3>2. i \notin fresh
      BY <1>7, <1>9, <3>1
    <3>3. rows'[i] = rows[i]
      BY <1>5, <3>1, <3>2
    <3> QED BY <3>1, <3>3 DEF RowsOf, Existing
  <2> QED BY <2>1, <2>2
<1>10. ASSUME NEW e \in Docs, e # d
       PROVE  {StoreRow(i) : i \in RowsOf(e)}' = {StoreRow(i) : i \in RowsOf(e)}
  <2>1. \A i \in RowsOf(e) : StoreRow(i)' = StoreRow(i)
    BY <1>9, <1>10 DEF StoreRow
  <2>2. {StoreRow(i) : i \in RowsOf(e)}' = {StoreRow(i)' : i \in RowsOf(e)}
    BY <1>9, <1>10
  <2> QED BY <2>1, <2>2
<1>11. Store' = [Store EXCEPT ![d] = Store'[d]]
  BY <1>10 DEF Store
<1>12. /\ DOMAIN Store = Docs /\ DOMAIN Store' = Docs
       /\ Store'[d] = {StoreRow(i)' : i \in fresh}
  BY <1>8 DEF Store
<1>13. ASSUME NEW k \in 0 .. n - 1
       PROVE  /\ StoreRow(id[k])'.id = id[k]
              /\ StoreRow(id[k])'.text = c(k)
              /\ StoreRow(id[k])'.vector = CS!Embedding(c(k), model[d])
  BY <1>7 DEF StoreRow, Embedding, CS!Embedding
<1>14. \A k \in 0 .. n - 1 : c(k) = CS!Text(d, ingests, c(k).order) /\ c(k).order = k
  BY DEF c, CS!Text
<1>15. \A r \in Store'[d] : \E k \in 0 .. n - 1 : r = StoreRow(id[k])'
  BY <1>12
<1>16. \A k \in 0 .. n - 1 : StoreRow(id[k])' \in Store'[d]
  BY <1>12
<1> HIDE DEF fresh
<1>17. CS!IsChunking(Store'[d], d, ingests, model[d])
  <2>1. ASSUME NEW r \in Store'[d]
        PROVE  /\ r.id \in Ids
               /\ r.text = CS!Text(d, ingests, r.text.order)
               /\ r.vector = CS!Embedding(r.text, model[d])
               /\ r.text.order \in Nat
               /\ \A k \in 0 .. r.text.order : \E s \in Store'[d] : s.text.order = k
    <3>1. PICK k \in 0 .. n - 1 : r = StoreRow(id[k])'
      BY <1>15
    <3>2. r.id = id[k] /\ r.text = c(k) /\ r.vector = CS!Embedding(c(k), model[d])
      BY <1>13, <3>1
    <3>3. r.text.order = k
      BY <1>14, <3>2
    <3>4. ASSUME NEW j \in 0 .. k PROVE \E s \in Store'[d] : s.text.order = j
      <4>1. j \in 0 .. n - 1
        BY <1>3
      <4>2. StoreRow(id[j])'.text.order = j
        BY <1>13, <1>14, <4>1
      <4> QED BY <1>16, <4>1, <4>2
    <3> QED BY <1>4, <1>14, <3>2, <3>3, <3>4
  <2>2. ASSUME NEW r \in Store'[d], NEW s \in Store'[d],
               r.id = s.id \/ r.text.order = s.text.order
        PROVE  r = s
    <3>1. PICK j \in 0 .. n - 1 : r = StoreRow(id[j])'
      BY <1>15
    <3>2. PICK k \in 0 .. n - 1 : s = StoreRow(id[k])'
      BY <1>15
    <3>3. /\ r.id = id[j] /\ r.text.order = j
          /\ s.id = id[k] /\ s.text.order = k
      BY <1>13, <1>14, <3>1, <3>2
    <3> QED BY <1>6, <2>2, <3>1, <3>2, <3>3
  <2> QED BY <2>1, <2>2 DEF CS!IsChunking
<1>18. Store'[d] # {}
  BY <1>3, <1>16
<1>19. ASSUME NEW e \in Docs
       PROVE  CS!Keys(Store'[d]) \cap CS!Keys(Store[e]) = {}
  <2>1. CS!Keys(Store'[d]) \subseteq Ids \ used
    BY <1>4, <1>13, <1>15 DEF CS!Keys
  <2>2. \A r \in Store[e] : r.id \in used
    BY DEF Store, StoreRow, RowsOf, IInv, KeysRemembered
  <2> QED BY <2>1, <2>2 DEF CS!Keys
<1> QED BY <1>2, <1>11, <1>17, <1>18, <1>19 DEF CS!Next, CS!Replace, CS!Models, Models

\* Every step is one of the chunk store's, or leaves it alone.
LEMMA RefinementStep ==
  ASSUME IInv, [Next]_vars
  PROVE  [CS!Next]_Store
<1>1. CASE rows' = rows
  BY <1>1, SameStore
<1>2. CASE Commit \/ CommitUnconfirmed
  BY <1>2, WriteRefreshes DEF Commit, CommitUnconfirmed
<1>3. CASE \E d \in Docs : Publish(d)
  BY <1>3, PublishReplaces
<1>4. ASSUME NEW d \in Docs, StartDelete(d) \/ DeleteRow(d) \/ Abort(d) \/ BreakDeadlock(d)
      PROVE  rows' = rows
  BY <1>4 DEF StartDelete, DeleteRow, Abort, BreakDeadlock, Fail
<1>5. ASSUME Start \/ ReadBatch \/ Embed \/ StartUpdate \/ LockTarget \/ Fail
      PROVE  rows' = rows
  BY <1>5 DEF Start, ReadBatch, Embed, StartUpdate, LockTarget, Fail
<1> QED BY <1>1, <1>2, <1>3, <1>4, <1>5 DEF Next, Script, Call, Terminated, vars

\* Re-embedding and ingestion implement the chunk store.
THEOREM Refinement == Spec => ImplementsChunkStore
<1>1. Init => CS!Init
  BY InitialStore
<1>2. IInv /\ [Next]_vars => [CS!Next]_Store
  BY RefinementStep
<1> QED BY <1>1, <1>2, Invariant, PTL DEF Spec, ImplementsChunkStore, CS!Spec

=============================================================================

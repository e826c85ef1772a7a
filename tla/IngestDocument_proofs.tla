------------------------ MODULE IngestDocument_proofs ------------------------
(***************************************************************************)
(* Proofs about IngestDocument, for any number of calls, sources and       *)
(* texts: types, the searchable chunks of a document, exclusion of its     *)
(* writers, and the refinement of KnowledgeBase.                           *)
(***************************************************************************)
EXTENDS IngestDocument, TLAPS

-----------------------------------------------------------------------------
\* The inductive invariant, in named parts.

\* A row that is committed, or that a DELETE has found, is not being written.
Settled(r) == r.by = Nobody \/ pc[r.by] = "done"

RowsSettled ==
  /\ \A u \in Urls : \A r \in chunks[u] : Settled(r)
  /\ \A t \in Tasks : \A r \in rows[t] : Settled(r)

\* What the lookup established holds for the rest of the call.
LookupFacts ==
  \A t \in Tasks :
    /\ pc[t] \in {"start", "lookup"} => loaded[t] = NoDocument
    /\ pc[t] \in {"delete", "deleting"} => loaded[t] # NoDocument
    /\ pc[t] = "create" => loaded[t] = NoDocument
    /\ loaded[t] # NoDocument => documents[Url(t)] # NoDocument
    /\ pc[t] \in InTransaction \ {"unchanged"} =>
         /\ ChunkCount[Text(t)] > 0
         /\ loaded[t] # NoDocument => loaded[t].content_hash # Text(t)

\* Inserted rows are counted up to the number of chunks.
CountFacts ==
  \A t \in Tasks :
    /\ ~ Writing(t) => next[t] = 0
    /\ pc[t] = "insert" => next[t] < ChunkCount[Text(t)]
    /\ pc[t] = "commit" => next[t] = ChunkCount[Text(t)]

\* A call creating a document is alone with it.
CreatorFacts ==
  \A t \in Tasks :
    Writing(t) /\ loaded[t] = NoDocument =>
      /\ documents[Url(t)] = NoDocument
      /\ rows[t] = {}
      /\ \A s \in Tasks \ {t} : Writing(s) /\ loaded[s] = NoDocument => Url(s) # Url(t)

\* The DELETE of a call gets all of the committed rows or none, no two calls
\* get the same row, and a call that has inserted a row got all of them.
DeleteFacts ==
  \A t \in Tasks :
    /\ pc[t] = "deleting" =>
         rows[t] = chunks[Url(t)] \/ rows[t] \cap chunks[Url(t)] = {}
    /\ Writing(t) => rows[t] = chunks[Url(t)] \/ rows[t] = {}
    /\ Writing(t) /\ next[t] > 0 => rows[t] = chunks[Url(t)]
    /\ pc[t] \notin {"deleting", "insert", "commit"} => rows[t] = {}
    /\ Writing(t) => \A s \in Tasks \ {t} :
         Writing(s) /\ Url(s) = Url(t) => rows[s] \cap rows[t] = {}

IInv ==
  /\ TypeOK
  /\ ChunksMatchDocument
  /\ RowsSettled
  /\ LookupFacts
  /\ CountFacts
  /\ CreatorFacts
  /\ DeleteFacts

-----------------------------------------------------------------------------
\* Lemmas about the operators.

\* The rows a call writes are chunk rows of that call.
LEMMA ChunkRowsType ==
  ASSUME NEW c \in Texts, NEW w \in Tasks \cup {Nobody}, NEW n \in Nat
  PROVE  /\ ChunkRows(c, w, n) \subseteq ChunkRow
         /\ \A r \in ChunkRows(c, w, n) : r.by = w
BY DEF ChunkRows, ChunkRow

\* Chunking a non-empty text yields a first row.
LEMMA FirstChunk ==
  ASSUME NEW c \in Texts, NEW w, ChunkCount[c] > 0
  PROVE  \E r \in AllChunks(c, w) : r.order = 0
<1>1. ChunkCount[c] \in Nat
  BY IngestAssumption
<1>2. 0 \in 0 .. ChunkCount[c] - 1
  BY <1>1
<1>3. [order |-> 0, text |-> c, by |-> w] \in AllChunks(c, w)
  BY <1>2 DEF AllChunks, ChunkRows
<1> QED
  BY <1>3

\* A document has a first chunk row.
LEMMA DocumentHasFirstChunk ==
  ASSUME TypeOK, ChunksMatchDocument, NEW u \in Urls, documents[u] # NoDocument
  PROVE  \E r \in chunks[u] : r.order = 0
<1>1. documents[u].content_hash \in Texts
  BY DEF TypeOK, DocumentRow
<1>2. PICK w \in Tasks \cup {Nobody} : chunks[u] = AllChunks(documents[u].content_hash, w)
  BY DEF ChunksMatchDocument
<1> QED
  BY <1>1, <1>2, FirstChunk DEF ChunksMatchDocument

\* The documents row a call writes is a row for its own text.
LEMMA DocumentWritten ==
  ASSUME TypeOK, NEW t \in Tasks
  PROVE  /\ NewDocument(t) \in DocumentRow
         /\ NewDocument(t).content_hash = Text(t)
         /\ loaded[t] # NoDocument /\ documents[Url(t)] # NoDocument =>
              /\ UpdatedDocument(t) \in DocumentRow
              /\ loaded[t].content_hash # Text(t) =>
                   UpdatedDocument(t).content_hash = Text(t)
<1>1. /\ Text(t) \in Texts
      /\ Url(t) \in Urls
      /\ job[t].source_type \in SourceTypes
      /\ ChunkCount[Text(t)] \in Nat
  BY IngestAssumption DEF TypeOK, Job, Text, Url
<1>2. NewDocument(t) \in DocumentRow /\ NewDocument(t).content_hash = Text(t)
  BY <1>1 DEF NewDocument, DocumentRow
<1>3. ASSUME loaded[t] # NoDocument, documents[Url(t)] # NoDocument
      PROVE  /\ UpdatedDocument(t) \in DocumentRow
             /\ loaded[t].content_hash # Text(t) =>
                  UpdatedDocument(t).content_hash = Text(t)
  <2>1. documents[Url(t)] \in DocumentRow
    BY <1>1, <1>3 DEF TypeOK
  <2>2. DOMAIN NewDocument(t) = {"content_hash", "chunk_count", "source_type"}
    BY DEF NewDocument
  <2>3. UpdatedDocument(t) =
          [content_hash |-> UpdatedDocument(t).content_hash,
           chunk_count  |-> UpdatedDocument(t).chunk_count,
           source_type  |-> UpdatedDocument(t).source_type]
    BY <2>2 DEF UpdatedDocument
  <2>4. UpdatedDocument(t).content_hash \in Texts
    BY <2>1, <2>2, <1>1 DEF UpdatedDocument, NewDocument, DocumentRow
  <2>5. UpdatedDocument(t).chunk_count \in Nat
    BY <2>1, <2>2, <1>1 DEF UpdatedDocument, NewDocument, DocumentRow
  <2>6. UpdatedDocument(t).source_type \in SourceTypes
    BY <2>1, <2>2, <1>1 DEF UpdatedDocument, NewDocument, DocumentRow
  <2>7. loaded[t].content_hash # Text(t) => UpdatedDocument(t).content_hash = Text(t)
    BY <2>2 DEF UpdatedDocument, NewDocument
  <2> QED
    BY <2>3, <2>4, <2>5, <2>6, <2>7 DEF DocumentRow
<1> QED
  BY <1>2, <1>3

-----------------------------------------------------------------------------
\* Each action preserves the inductive invariant.

\* Types of what an action reads.
LEMMA CallTypes ==
  ASSUME TypeOK, NEW t \in Tasks
  PROVE  /\ Url(t) \in Urls
         /\ Text(t) \in Texts
         /\ ChunkCount[Text(t)] \in Nat
         /\ next[t] \in Nat
         /\ rows[t] \subseteq ChunkRow
         /\ chunks[Url(t)] \subseteq ChunkRow
BY IngestAssumption DEF TypeOK, Job, Url, Text

\* A call that ends without committing: its locks disappear, and nothing else
\* depended on them.
LEMMA RollbackInv ==
  ASSUME IInv, NEW t \in Tasks, NEW r \in KB!Replies, Rollback(t, r)
  PROVE  IInv'
<1> USE DEF Rollback, Finish
<1>1. TypeOK'
  BY DEF IInv, TypeOK
<1>2. ChunksMatchDocument'
  BY DEF IInv, ChunksMatchDocument, AllChunks, ChunkRows
<1>3. RowsSettled'
  BY DEF IInv, TypeOK, RowsSettled, Settled
<1>4. LookupFacts'
  BY DEF IInv, TypeOK, LookupFacts, InTransaction, Url, Text
<1>5. CountFacts'
  BY DEF IInv, TypeOK, CountFacts, Writing, Text
<1>6. CreatorFacts'
  BY DEF IInv, TypeOK, CreatorFacts, Writing, Url
<1>7. DeleteFacts'
  BY DEF IInv, TypeOK, DeleteFacts, Writing, Url
<1> QED
  BY <1>1, <1>2, <1>3, <1>4, <1>5, <1>6, <1>7 DEF IInv

\* Fetching a page or taking a posted text only sets the call's own job.
LEMMA PrepareInv == ASSUME IInv, NEW t \in Tasks, Prepare(t) PROVE IInv'
<1> USE DEF Prepare
<1>1. TypeOK'
  BY DEF IInv, TypeOK
<1>2. ChunksMatchDocument'
  BY DEF IInv, ChunksMatchDocument, AllChunks, ChunkRows
<1>3. RowsSettled'
  BY DEF IInv, TypeOK, RowsSettled, Settled
<1>4. LookupFacts'
  BY DEF IInv, TypeOK, LookupFacts, InTransaction, Url, Text
<1>5. CountFacts'
  BY DEF IInv, TypeOK, CountFacts, Writing, Text
<1>6. CreatorFacts'
  BY DEF IInv, TypeOK, CreatorFacts, Writing, Url
<1>7. DeleteFacts'
  BY DEF IInv, TypeOK, DeleteFacts, Writing, Url
<1> QED
  BY <1>1, <1>2, <1>3, <1>4, <1>5, <1>6, <1>7 DEF IInv

\* The SELECT copies the committed row into the call, or ends the call.
LEMMA LookupInv == ASSUME IInv, NEW t \in Tasks, Lookup(t) PROVE IInv'
<1>a. CASE Rollback(t, "failed")
  BY <1>a, RollbackInv DEF KB!Replies
<1>b. CASE ~ Rollback(t, "failed")
  <2> DEFINE found == documents[Url(t)]
             same == found # NoDocument /\ found.content_hash = Text(t)
  <2>0. /\ pc[t] = "lookup"
        /\ ~ (~ same /\ ChunkCount[Text(t)] = 0)
        /\ loaded' = [loaded EXCEPT ![t] = found]
        /\ pc' = [pc EXCEPT ![t] = IF same THEN "unchanged" ELSE "embed"]
        /\ UNCHANGED <<documents, chunks, job, rows, next, reply>>
    BY <1>b DEF Lookup
  <2>t. /\ found \in DocumentRow \cup {NoDocument}
        /\ ChunkCount[Text(t)] \in Nat
    BY CallTypes DEF IInv, TypeOK
  <2>1. TypeOK'
    BY <2>0, <2>t DEF IInv, TypeOK, InTransaction
  <2>2. ChunksMatchDocument'
    BY <2>0 DEF IInv, ChunksMatchDocument, AllChunks, ChunkRows
  <2>3. RowsSettled'
    BY <2>0 DEF IInv, TypeOK, RowsSettled, Settled
  <2>4. LookupFacts'
    BY <2>0, <2>t DEF IInv, TypeOK, LookupFacts, InTransaction, Url, Text
  <2>5. CountFacts'
    BY <2>0 DEF IInv, TypeOK, CountFacts, Writing, Text
  <2>6. CreatorFacts'
    BY <2>0 DEF IInv, TypeOK, CreatorFacts, Writing, Url
  <2>7. DeleteFacts'
    BY <2>0 DEF IInv, TypeOK, DeleteFacts, Writing, Url
  <2> QED
    BY <2>1, <2>2, <2>3, <2>4, <2>5, <2>6, <2>7 DEF IInv
<1> QED
  BY <1>a, <1>b

\* The embeddings call changes nothing but the call's place.
LEMMA EmbedInv == ASSUME IInv, NEW t \in Tasks, Embed(t) PROVE IInv'
<1> USE DEF Embed
<1>1. TypeOK'
  BY DEF IInv, TypeOK, InTransaction
<1>2. ChunksMatchDocument'
  BY DEF IInv, ChunksMatchDocument, AllChunks, ChunkRows
<1>3. RowsSettled'
  BY DEF IInv, TypeOK, RowsSettled, Settled
<1>4. LookupFacts'
  BY DEF IInv, TypeOK, LookupFacts, InTransaction, Url, Text
<1>5. CountFacts'
  BY DEF IInv, TypeOK, CountFacts, Writing, Text
<1>6. CreatorFacts'
  BY DEF IInv, TypeOK, CreatorFacts, Writing, Url
<1>7. DeleteFacts'
  BY DEF IInv, TypeOK, DeleteFacts, Writing, Url
<1> QED
  BY <1>1, <1>2, <1>3, <1>4, <1>5, <1>6, <1>7 DEF IInv

\* A creator gets to insert only where no document is committed.
LEMMA CreateInv == ASSUME IInv, NEW t \in Tasks, Create(t) PROVE IInv'
<1>a. CASE Rollback(t, "error")
  BY <1>a, RollbackInv DEF KB!Replies
<1>b. CASE ~ Rollback(t, "error")
  <2>0. /\ pc[t] = "create"
        /\ ~ \E s \in Tasks : Writing(s) /\ loaded[s] = NoDocument /\ Url(s) = Url(t)
        /\ documents[Url(t)] = NoDocument
        /\ pc' = [pc EXCEPT ![t] = "insert"]
        /\ UNCHANGED <<documents, chunks, job, loaded, rows, next, reply>>
    BY <1>b DEF Create
  <2>1. TypeOK'
    BY <2>0 DEF IInv, TypeOK, InTransaction
  <2>2. ChunksMatchDocument'
    BY <2>0 DEF IInv, ChunksMatchDocument, AllChunks, ChunkRows
  <2>3. RowsSettled'
    BY <2>0 DEF IInv, TypeOK, RowsSettled, Settled
  <2>4. LookupFacts'
    BY <2>0 DEF IInv, TypeOK, LookupFacts, InTransaction, Url, Text
  <2>5. CountFacts'
    BY <2>0, CallTypes DEF IInv, TypeOK, CountFacts, LookupFacts, InTransaction, Writing, Text
  <2>6. CreatorFacts'
    BY <2>0 DEF IInv, TypeOK, CreatorFacts, DeleteFacts, LookupFacts, Writing, Url
  <2>7. DeleteFacts'
    BY <2>0 DEF IInv, TypeOK, DeleteFacts, CountFacts, Writing, Url
  <2> QED
    BY <2>1, <2>2, <2>3, <2>4, <2>5, <2>6, <2>7 DEF IInv
<1> QED
  BY <1>a, <1>b

\* The DELETE fixes the rows it will visit; nothing is locked yet.
LEMMA StartDeleteInv == ASSUME IInv, NEW t \in Tasks, StartDelete(t) PROVE IInv'
<1> USE DEF StartDelete
<1>0. Url(t) \in Urls /\ chunks[Url(t)] \subseteq ChunkRow
  BY CallTypes DEF IInv
<1>1. TypeOK'
  BY <1>0 DEF IInv, TypeOK, InTransaction
<1>2. ChunksMatchDocument'
  BY DEF IInv, ChunksMatchDocument, AllChunks, ChunkRows
<1>3. RowsSettled'
  BY <1>0 DEF IInv, TypeOK, RowsSettled, Settled
<1>4. LookupFacts'
  BY DEF IInv, TypeOK, LookupFacts, InTransaction, Url, Text
<1>5. CountFacts'
  BY DEF IInv, TypeOK, CountFacts, Writing, Text
<1>6. CreatorFacts'
  BY DEF IInv, TypeOK, CreatorFacts, Writing, Url
<1>7. DeleteFacts'
  BY DEF IInv, TypeOK, DeleteFacts, Writing, Url
<1> QED
  BY <1>1, <1>2, <1>3, <1>4, <1>5, <1>6, <1>7 DEF IInv

\* The rows the DELETE locks are committed, and no other writer's.
LEMMA FinishDeleteInv == ASSUME IInv, NEW t \in Tasks, FinishDelete(t) PROVE IInv'
<1> USE DEF FinishDelete
<1>0. Url(t) \in Urls /\ chunks[Url(t)] \subseteq ChunkRow
  BY CallTypes DEF IInv
<1>1. TypeOK'
  BY <1>0 DEF IInv, TypeOK, InTransaction
<1>2. ChunksMatchDocument'
  BY DEF IInv, ChunksMatchDocument, AllChunks, ChunkRows
<1>3. RowsSettled'
  BY <1>0 DEF IInv, TypeOK, RowsSettled, Settled
<1>4. LookupFacts'
  BY DEF IInv, TypeOK, LookupFacts, InTransaction, Url, Text
<1>5. CountFacts'
  BY CallTypes DEF IInv, TypeOK, CountFacts, LookupFacts, InTransaction, Writing, Text
<1>6. CreatorFacts'
  BY DEF IInv, TypeOK, CreatorFacts, LookupFacts, Writing, Url
<1>7. DeleteFacts'
  BY DEF IInv, TypeOK, DeleteFacts, CountFacts, Writing, Url
<1> QED
  BY <1>1, <1>2, <1>3, <1>4, <1>5, <1>6, <1>7 DEF IInv

\* The first chunk goes in only if the DELETE got the committed rows: one of
\* them has order 0.
LEMMA InsertNeedsDelete ==
  ASSUME IInv, NEW t \in Tasks, pc[t] = "insert", loaded[t] # NoDocument,
         ~ \E r \in chunks[Url(t)] \ rows[t] : r.order = next[t]
  PROVE  rows[t] = chunks[Url(t)]
<1>1. CASE next[t] > 0
  BY <1>1 DEF IInv, DeleteFacts, Writing
<1>2. CASE next[t] = 0
  <2>1. PICK r \in chunks[Url(t)] : r.order = 0
    BY CallTypes, DocumentHasFirstChunk DEF IInv, LookupFacts
  <2>2. r \in rows[t]
    BY <2>1, <1>2
  <2> QED
    BY <2>2 DEF IInv, DeleteFacts, Writing
<1> QED
  BY <1>1, <1>2, CallTypes DEF IInv

\* A chunk is inserted at an order no other writer and no committed row has.
LEMMA InsertChunkInv == ASSUME IInv, NEW t \in Tasks, InsertChunk(t) PROVE IInv'
<1>a. CASE Rollback(t, "error")
  BY <1>a, RollbackInv DEF KB!Replies
<1>b. CASE ~ Rollback(t, "error")
  <2>0. /\ pc[t] = "insert"
        /\ ~ \E r \in chunks[Url(t)] \ rows[t] : r.order = next[t]
        /\ next' = [next EXCEPT ![t] = @ + 1]
        /\ pc' = [pc EXCEPT ![t] =
             IF next[t] + 1 = ChunkCount[Text(t)] THEN "commit" ELSE "insert"]
        /\ UNCHANGED <<documents, chunks, job, loaded, rows, reply>>
    BY <1>b DEF InsertChunk
  <2>t. next[t] \in Nat /\ ChunkCount[Text(t)] \in Nat
    BY CallTypes DEF IInv
  <2>1. TypeOK'
    BY <2>0, <2>t DEF IInv, TypeOK, InTransaction
  <2>2. ChunksMatchDocument'
    BY <2>0 DEF IInv, ChunksMatchDocument, AllChunks, ChunkRows
  <2>3. RowsSettled'
    BY <2>0 DEF IInv, TypeOK, RowsSettled, Settled
  <2>4. LookupFacts'
    BY <2>0 DEF IInv, TypeOK, LookupFacts, InTransaction, Url, Text
  <2>5. CountFacts'
    BY <2>0, <2>t DEF IInv, TypeOK, CountFacts, Writing, Text
  <2>6. CreatorFacts'
    BY <2>0 DEF IInv, TypeOK, CreatorFacts, Writing, Url
  <2>7. DeleteFacts'
    <3>1. rows[t] = chunks[Url(t)]
      <4>1. CASE loaded[t] = NoDocument
        BY <4>1, <2>0, CallTypes DEF IInv, CreatorFacts, ChunksMatchDocument, Writing
      <4>2. CASE loaded[t] # NoDocument
        BY <4>2, <2>0, InsertNeedsDelete
      <4> QED
        BY <4>1, <4>2
    <3> QED
      BY <3>1, <2>0 DEF IInv, TypeOK, DeleteFacts, Writing, Url
  <2> QED
    BY <2>1, <2>2, <2>3, <2>4, <2>5, <2>6, <2>7 DEF IInv
<1> QED
  BY <1>a, <1>b

\* What a COMMIT leaves in the tables, and which other calls it meets.
LEMMA CommitFacts ==
  ASSUME IInv, NEW t \in Tasks, Commit(t)
  PROVE  /\ chunks' = [chunks EXCEPT ![Url(t)] = AllChunks(Text(t), t)]
         /\ documents'[Url(t)] \in DocumentRow
         /\ documents'[Url(t)].content_hash = Text(t)
         /\ chunks[Url(t)] = rows[t]
         /\ ChunkCount[Text(t)] > 0
         /\ \A s \in Tasks \ {t} : Writing(s) /\ Url(s) = Url(t) =>
              /\ loaded[s] # NoDocument
              /\ rows[s] = {}
              /\ next[s] = 0
<1> USE DEF Commit
<1>0. /\ pc[t] = "commit"
      /\ Writing(t)
      /\ Url(t) \in Urls
      /\ next[t] = ChunkCount[Text(t)]
      /\ ChunkCount[Text(t)] > 0
      /\ ChunkCount[Text(t)] \in Nat
  BY CallTypes DEF IInv, CountFacts, LookupFacts, InTransaction, Writing
<1>1. chunks[Url(t)] = rows[t]
  <2>1. CASE loaded[t] = NoDocument
    BY <1>0, <2>1 DEF IInv, CreatorFacts, ChunksMatchDocument
  <2>2. CASE loaded[t] # NoDocument
    BY <1>0, <2>2 DEF IInv, DeleteFacts
  <2> QED
    BY <2>1, <2>2
<1>2. chunks' = [chunks EXCEPT ![Url(t)] = AllChunks(Text(t), t)]
  BY <1>0, <1>1 DEF AllChunks, IInv, TypeOK
<1>3. /\ documents'[Url(t)] \in DocumentRow
      /\ documents'[Url(t)].content_hash = Text(t)
  <2>1. documents'[Url(t)] =
          IF loaded[t] = NoDocument THEN NewDocument(t) ELSE UpdatedDocument(t)
    BY <1>0 DEF IInv, TypeOK
  <2>2. loaded[t] # NoDocument =>
          documents[Url(t)] # NoDocument /\ loaded[t].content_hash # Text(t)
    BY <1>0 DEF IInv, LookupFacts, InTransaction
  <2> QED
    BY <2>1, <2>2, DocumentWritten DEF IInv
<1>4. ASSUME NEW s \in Tasks \ {t}, Writing(s), Url(s) = Url(t)
      PROVE  loaded[s] # NoDocument /\ rows[s] = {} /\ next[s] = 0
  <2>1. loaded[s] # NoDocument /\ loaded[t] # NoDocument
    BY <1>0, <1>4 DEF IInv, CreatorFacts, LookupFacts
  <2>2. PICK r \in chunks[Url(t)] : r.order = 0
    BY <1>0, <2>1, DocumentHasFirstChunk DEF IInv, LookupFacts
  <2>3. rows[s] \cap chunks[Url(t)] = {}
    BY <1>0, <1>1, <1>4 DEF IInv, DeleteFacts
  <2>4. rows[s] = {}
    BY <1>4, <2>3 DEF IInv, DeleteFacts
  <2>5. ~ (next[s] > 0)
    BY <1>4, <2>2, <2>4 DEF IInv, DeleteFacts
  <2> QED
    BY <2>1, <2>4, <2>5, CallTypes DEF IInv
<1> QED
  BY <1>0, <1>1, <1>2, <1>3, <1>4

\* The commit replaces the whole chunking and the hash that names it.
LEMMA CommitInv == ASSUME IInv, NEW t \in Tasks, Commit(t) PROVE IInv'
<1>0. /\ pc[t] = "commit"
      /\ pc' = [pc EXCEPT ![t] = "done"]
      /\ loaded' = [loaded EXCEPT ![t] = NoDocument]
      /\ rows' = [rows EXCEPT ![t] = {}]
      /\ next' = [next EXCEPT ![t] = 0]
      /\ job' = job
      /\ reply' \in [Tasks -> KB!Replies \cup {"none"}]
  BY DEF IInv, TypeOK, Commit, Finish, KB!Replies
<1>d. /\ documents' = [u \in Urls |-> documents'[u]]
      /\ \A u \in Urls \ {Url(t)} : documents'[u] = documents[u]
  BY DEF IInv, TypeOK, Commit
<1>1. /\ chunks' = [chunks EXCEPT ![Url(t)] = AllChunks(Text(t), t)]
      /\ documents'[Url(t)] \in DocumentRow
      /\ documents'[Url(t)] # NoDocument
      /\ documents'[Url(t)].content_hash = Text(t)
      /\ chunks[Url(t)] = rows[t]
      /\ ChunkCount[Text(t)] > 0
  BY CommitFacts, IngestAssumption
<1>2. \A s \in Tasks \ {t} : Writing(s) /\ Url(s) = Url(t) =>
        loaded[s] # NoDocument /\ rows[s] = {} /\ next[s] = 0
  BY CommitFacts
<1>3. /\ Url(t) \in Urls /\ Text(t) \in Texts
      /\ AllChunks(Text(t), t) \subseteq ChunkRow
  BY CallTypes, ChunkRowsType DEF IInv, AllChunks
<1>4. \A r \in AllChunks(Text(t), t) : r.by = t
  BY DEF AllChunks, ChunkRows
<1>5. TypeOK'
  BY <1>0, <1>d, <1>1, <1>3 DEF IInv, TypeOK
<1>6. ChunksMatchDocument'
  <2> SUFFICES ASSUME NEW u \in Urls
               PROVE  IF documents'[u] = NoDocument
                        THEN chunks'[u] = {}
                        ELSE /\ ChunkCount[documents'[u].content_hash] > 0
                             /\ \E w \in Tasks \cup {Nobody} :
                                  chunks'[u] = AllChunks(documents'[u].content_hash, w)
    BY DEF ChunksMatchDocument, AllChunks, ChunkRows
  <2>1. CASE u = Url(t)
    BY <1>1, <2>1 DEF IInv, TypeOK
  <2>2. CASE u # Url(t)
    <3>1. documents'[u] = documents[u] /\ chunks'[u] = chunks[u]
      BY <1>d, <1>1, <2>2 DEF IInv, TypeOK
    <3> QED
      BY <3>1 DEF IInv, ChunksMatchDocument
  <2> QED
    BY <2>1, <2>2
<1>7. RowsSettled'
  BY <1>0, <1>1, <1>4 DEF IInv, TypeOK, RowsSettled, Settled
<1>8. LookupFacts'
  BY <1>0, <1>d, <1>1, CallTypes DEF IInv, TypeOK, LookupFacts, InTransaction, Url, Text
<1>9. CountFacts'
  BY <1>0 DEF IInv, TypeOK, CountFacts, Writing, Text
<1>10. CreatorFacts'
  BY <1>0, <1>d, <1>1, <1>2, CallTypes DEF IInv, TypeOK, CreatorFacts, Writing, Url
<1>11. DeleteFacts'
  <2>1. \A s \in Tasks : rows[s] \cap AllChunks(Text(t), t) = {}
    BY <1>0, <1>4, IngestAssumption DEF IInv, RowsSettled, Settled
  <2> QED
    BY <1>0, <1>1, <1>2, <2>1, CallTypes DEF IInv, TypeOK, DeleteFacts, Writing, Url
<1> QED
  BY <1>5, <1>6, <1>7, <1>8, <1>9, <1>10, <1>11 DEF IInv

-----------------------------------------------------------------------------
\* The theorems.

\* The invariant holds in the initial states.
LEMMA InitInv == Init => IInv
<1> SUFFICES ASSUME Init PROVE IInv
  OBVIOUS
<1>0. PICK seed \in [Urls -> {c \in Texts : ChunkCount[c] > 0} \cup {NoDocument}] :
        /\ documents = [u \in Urls |->
             IF seed[u] = NoDocument THEN NoDocument
             ELSE [content_hash |-> seed[u],
                   chunk_count  |-> ChunkCount[seed[u]],
                   source_type  |-> "url"]]
        /\ chunks = [u \in Urls |->
             IF seed[u] = NoDocument THEN {} ELSE AllChunks(seed[u], Nobody)]
  BY DEF Init
<1>1. \A u \in Urls :
        \/ documents[u] = NoDocument /\ chunks[u] = {}
        \/ /\ documents[u] \in DocumentRow
           /\ ChunkCount[documents[u].content_hash] > 0
           /\ chunks[u] = AllChunks(documents[u].content_hash, Nobody)
           /\ documents[u].content_hash \in Texts
  BY <1>0, IngestAssumption DEF DocumentRow, SourceTypes
<1>2. \A u \in Urls : chunks[u] \subseteq ChunkRow /\ \A r \in chunks[u] : r.by = Nobody
  <2>1. ASSUME NEW c \in Texts
        PROVE  /\ AllChunks(c, Nobody) \subseteq ChunkRow
               /\ \A r \in AllChunks(c, Nobody) : r.by = Nobody
    BY ChunkRowsType, IngestAssumption DEF AllChunks
  <2> QED
    BY <1>1, <2>1
<1>3. TypeOK
  <2>1. job \in [Tasks -> Job]
    BY IngestAssumption DEF Init
  <2>2. documents \in [Urls -> DocumentRow \cup {NoDocument}]
    BY <1>0, <1>1
  <2>3. chunks \in [Urls -> SUBSET ChunkRow]
    BY <1>0, <1>2
  <2> QED
    BY <2>1, <2>2, <2>3 DEF Init, TypeOK
<1>4. ChunksMatchDocument
  BY <1>1, IngestAssumption DEF ChunksMatchDocument
<1>5. RowsSettled
  BY <1>2 DEF Init, RowsSettled, Settled
<1>6. LookupFacts /\ CountFacts /\ CreatorFacts /\ DeleteFacts
  BY DEF Init, LookupFacts, CountFacts, CreatorFacts, DeleteFacts, Writing, InTransaction
<1> QED
  BY <1>3, <1>4, <1>5, <1>6 DEF IInv

\* A stuttering step keeps the invariant.
LEMMA StutterInv == ASSUME IInv, UNCHANGED vars PROVE IInv'
<1> USE DEF vars
<1>1. TypeOK'
  BY DEF IInv, TypeOK
<1>2. ChunksMatchDocument'
  BY DEF IInv, ChunksMatchDocument, AllChunks, ChunkRows
<1>3. RowsSettled'
  BY DEF IInv, RowsSettled, Settled
<1>4. LookupFacts'
  BY DEF IInv, LookupFacts, InTransaction, Url, Text
<1>5. CountFacts'
  BY DEF IInv, CountFacts, Writing, Text
<1>6. CreatorFacts'
  BY DEF IInv, CreatorFacts, Writing, Url
<1>7. DeleteFacts'
  BY DEF IInv, DeleteFacts, Writing, Url
<1> QED
  BY <1>1, <1>2, <1>3, <1>4, <1>5, <1>6, <1>7 DEF IInv

\* Every step keeps the invariant.
LEMMA NextInv == IInv /\ [Next]_vars => IInv'
<1> SUFFICES ASSUME IInv, [Next]_vars PROVE IInv'
  OBVIOUS
<1>1. ASSUME NEW t \in Tasks, Step(t) PROVE IInv'
  <2>1. CASE Prepare(t)
    BY <2>1, PrepareInv
  <2>2. CASE PrepareFails(t)
    BY <2>2, RollbackInv DEF PrepareFails, KB!Replies
  <2>3. CASE Lookup(t)
    BY <2>3, LookupInv
  <2>4. CASE ReplyUnchanged(t)
    BY <2>4, RollbackInv DEF ReplyUnchanged, KB!Replies
  <2>5. CASE Embed(t)
    BY <2>5, EmbedInv
  <2>6. CASE Create(t)
    BY <2>6, CreateInv
  <2>7. CASE StartDelete(t)
    BY <2>7, StartDeleteInv
  <2>8. CASE FinishDelete(t)
    BY <2>8, FinishDeleteInv
  <2>9. CASE InsertChunk(t)
    BY <2>9, InsertChunkInv
  <2>10. CASE Commit(t)
    BY <2>10, CommitInv
  <2> QED
    BY <1>1, <2>1, <2>2, <2>3, <2>4, <2>5, <2>6, <2>7, <2>8, <2>9, <2>10 DEF Step
<1>2. ASSUME NEW t \in Tasks, Abort(t) PROVE IInv'
  BY <1>2, RollbackInv DEF Abort, KB!Replies
<1>3. CASE UNCHANGED vars
  BY <1>3, StutterInv
<1> QED
  BY <1>1, <1>2, <1>3 DEF Next, Terminated

\* The inductive invariant holds of every reachable state.
LEMMA InvariantHolds == Spec => []IInv
<1>1. Init => IInv
  BY InitInv
<1>2. IInv /\ [Next]_vars => IInv'
  BY NextInv
<1> QED
  BY <1>1, <1>2, PTL DEF Spec

\* The tables and the locals of every call keep their types.
THEOREM TypeCorrect == Spec => []TypeOK
<1>1. IInv => TypeOK
  BY DEF IInv
<1> QED
  BY <1>1, InvariantHolds, PTL

\* At every moment the committed chunk rows of a document are the complete
\* chunking of the text its content_hash names.
THEOREM SearchableIsComplete == Spec => []ChunksMatchDocument
<1>1. IInv => ChunksMatchDocument
  BY DEF IInv
<1> QED
  BY <1>1, InvariantHolds, PTL

\* Inserted chunk rows of one document belong to one call at a time.
THEOREM WritersExclude == Spec => []OneWriter
<1>1. IInv => OneWriter
  <2> SUFFICES ASSUME IInv, NEW s \in Tasks, NEW t \in Tasks, s # t, Url(s) = Url(t),
                      Writing(s), next[s] > 0, Writing(t), next[t] > 0
               PROVE  FALSE
    BY DEF OneWriter
  <2>1. rows[s] = chunks[Url(t)] /\ rows[t] = chunks[Url(t)] /\ rows[s] \cap rows[t] = {}
    BY DEF IInv, DeleteFacts
  <2>2. documents[Url(t)] = NoDocument
    BY <2>1, CallTypes, DocumentHasFirstChunk DEF IInv
  <2> QED
    BY <2>2 DEF IInv, LookupFacts, CreatorFacts
<1> QED
  BY <1>1, InvariantHolds, PTL

\* A source that can be searched stays searchable through every re-ingest.
THEOREM NeverEmptied == Spec => StaysSearchable
<1>1. ASSUME IInv, [Next]_vars, NEW u \in Urls, chunks[u] # {}
      PROVE  chunks'[u] # {}
  <2>1. ASSUME NEW t \in Tasks, Commit(t) PROVE chunks'[u] # {}
    <3>1. CASE u = Url(t)
      <4>1. chunks'[u] = AllChunks(Text(t), t) /\ ChunkCount[Text(t)] > 0
        BY <1>1, <2>1, <3>1, CommitFacts DEF IInv, TypeOK
      <4>2. Text(t) \in Texts
        BY <1>1, CallTypes DEF IInv
      <4> QED
        BY <4>1, <4>2, FirstChunk
    <3>2. CASE u # Url(t)
      BY <1>1, <2>1, <3>2, CommitFacts DEF IInv, TypeOK
    <3> QED
      BY <3>1, <3>2
  <2>2. CASE UNCHANGED chunks
    BY <1>1, <2>2
  <2> QED
    BY <1>1, <2>1, <2>2 DEF Next, Step, Abort, Terminated, vars, Prepare, PrepareFails,
       Lookup, ReplyUnchanged, Embed, Create, StartDelete, FinishDelete, InsertChunk,
       Rollback
<1>2. IInv /\ [Next]_vars => [\A u \in Urls : chunks[u] # {} => chunks'[u] # {}]_vars
  BY <1>1
<1> QED
  BY <1>2, InvariantHolds, PTL DEF Spec, StaysSearchable

\* The loser of a race to create a document never overwrites the winner's.
THEOREM CreatorsSeeFresh == Spec => CreateOnlyFresh
<1>1. IInv => [\A t \in Tasks :
                  pc[t] = "commit" /\ loaded[t] = NoDocument /\ reply'[t] = "ingested"
                    => documents[Url(t)] = NoDocument]_vars
  BY DEF IInv, CreatorFacts, Writing
<1> QED
  BY <1>1, InvariantHolds, PTL DEF Spec, CreateOnlyFresh

-----------------------------------------------------------------------------
\* Refinement of the knowledge base.

\* What a search sees of a complete chunking is the abstract chunking.
LEMMA SearchableChunking ==
  ASSUME NEW c \in Texts, NEW w
  PROVE  {[order |-> r.order, text |-> r.text] : r \in AllChunks(c, w)} = KB!Chunking(c)
<1> DEFINE S == {[order |-> r.order, text |-> r.text] : r \in AllChunks(c, w)}
           row(i) == [order |-> i, text |-> c, by |-> w]
<1>1. AllChunks(c, w) = {row(i) : i \in 0 .. ChunkCount[c] - 1}
  BY DEF AllChunks, ChunkRows
<1>2. ASSUME NEW e \in S PROVE e \in KB!Chunking(c)
  BY <1>1, <1>2 DEF KB!Chunking
<1>3. ASSUME NEW e \in KB!Chunking(c) PROVE e \in S
  <2>1. PICK i \in 0 .. ChunkCount[c] - 1 : e = [order |-> i, text |-> c]
    BY <1>3 DEF KB!Chunking
  <2>2. row(i) \in AllChunks(c, w) /\ e = [order |-> row(i).order, text |-> row(i).text]
    BY <1>1, <2>1
  <2> QED
    BY <2>2
<1> HIDE DEF S
<1>4. S = KB!Chunking(c)
  BY <1>2, <1>3
<1> QED
  BY <1>4 DEF S

\* The abstract chunking of a text that has chunks is not empty.
LEMMA ChunkingNonEmpty ==
  ASSUME NEW c \in Texts, ChunkCount[c] > 0
  PROVE  KB!Chunking(c) # {}
<1>1. 0 \in 0 .. ChunkCount[c] - 1
  BY IngestAssumption
<1>2. [order |-> 0, text |-> c] \in KB!Chunking(c)
  BY <1>1 DEF KB!Chunking
<1> QED
  BY <1>2

\* An initial state of the tables is one of the knowledge base.
LEMMA InitRefines == ASSUME Init PROVE KB!Init
<1>1. IInv
  BY InitInv
<1>2. ASSUME NEW u \in Urls
      PROVE  Searchable[u] \in {{}} \cup {KB!Chunking(c) : c \in Texts}
  <2>1. CASE documents[u] = NoDocument
    BY <1>1, <2>1 DEF IInv, ChunksMatchDocument, Searchable
  <2>2. CASE documents[u] # NoDocument
    <3> DEFINE c == documents[u].content_hash
    <3>1. c \in Texts
      BY <1>1, <2>2 DEF IInv, TypeOK, DocumentRow
    <3>2. PICK w \in Tasks \cup {Nobody} : chunks[u] = AllChunks(c, w)
      BY <1>1, <2>2 DEF IInv, ChunksMatchDocument
    <3>3. Searchable[u] = KB!Chunking(c)
      BY <3>1, <3>2, SearchableChunking DEF Searchable
    <3> QED
      BY <3>1, <3>3
  <2> QED
    BY <2>1, <2>2
<1>3. Searchable \in [Urls -> {{}} \cup {KB!Chunking(c) : c \in Texts}]
  BY <1>2 DEF Searchable
<1>4. Phase = [t \in Tasks |-> "pending"]
  BY DEF Phase, Init
<1> QED
  BY <1>3, <1>4 DEF KB!Init

\* A rollback is an abstract failure, or the abstract reply of a call that
\* had found its text in place.
LEMMA RollbackRefines ==
  ASSUME IInv, NEW t \in Tasks, NEW r \in KB!Replies, Rollback(t, r), pc[t] # "done",
         r \in {"failed", "error"} \/ (r = "unchanged" /\ pc[t] = "unchanged")
  PROVE  KB!Next
<1>1. Searchable' = Searchable
  BY DEF Rollback, Searchable
<1>2. Phase' = [Phase EXCEPT ![t] = r]
  BY DEF Rollback, Finish, Phase, IInv, TypeOK
<1>3. Phase[t] = IF pc[t] = "unchanged" THEN "same" ELSE "pending"
  BY DEF Phase
<1> QED
  BY <1>1, <1>2, <1>3 DEF KB!Next, KB!Fail, KB!ReplySame

\* The lookup that finds the same hash sees the complete text in place.
LEMMA LookupRefines ==
  ASSUME IInv, NEW t \in Tasks, Lookup(t)
  PROVE  KB!Next \/ UNCHANGED KB!kbVars
<1> DEFINE found == documents[Url(t)]
           same == found # NoDocument /\ found.content_hash = Text(t)
<1>1. CASE Rollback(t, "failed")
  BY <1>1, RollbackRefines DEF Lookup, KB!Replies
<1>2. CASE ~ Rollback(t, "failed")
  <2>1. /\ pc[t] = "lookup"
        /\ pc' = [pc EXCEPT ![t] = IF same THEN "unchanged" ELSE "embed"]
        /\ UNCHANGED <<chunks, reply>>
    BY <1>2 DEF Lookup
  <2>2. Searchable' = Searchable
    BY <2>1 DEF Searchable
  <2>3. Phase[t] = "pending"
    BY <2>1 DEF Phase
  <2>4. CASE same
    <3>1. Phase' = [Phase EXCEPT ![t] = "same"]
      BY <2>1, <2>4 DEF Phase, IInv, TypeOK
    <3>2. /\ Url(t) \in Urls /\ Text(t) \in Texts
          /\ ChunkCount[Text(t)] > 0
          /\ \E w \in Tasks \cup {Nobody} : chunks[Url(t)] = AllChunks(Text(t), w)
      BY <2>4, CallTypes DEF IInv, ChunksMatchDocument
    <3>3. Searchable[Url(t)] = KB!Chunking(Text(t)) /\ Searchable[Url(t)] # {}
      BY <3>2, SearchableChunking, ChunkingNonEmpty DEF Searchable
    <3> QED
      BY <2>2, <2>3, <3>1, <3>2, <3>3 DEF KB!Next, KB!FindSame
  <2>5. CASE ~ same
    BY <2>1, <2>2, <2>5 DEF Phase, IInv, TypeOK, KB!kbVars
  <2> QED
    BY <2>4, <2>5
<1> QED
  BY <1>1, <1>2

\* A commit publishes the whole chunking at once.
LEMMA CommitRefines ==
  ASSUME IInv, NEW t \in Tasks, Commit(t)
  PROVE  KB!Next
<1>1. /\ Url(t) \in Urls /\ Text(t) \in Texts
      /\ chunks' = [chunks EXCEPT ![Url(t)] = AllChunks(Text(t), t)]
      /\ ChunkCount[Text(t)] > 0
  BY CallTypes, CommitFacts DEF IInv
<1>2. ASSUME NEW u \in Urls
      PROVE  Searchable'[u] = IF u = Url(t) THEN KB!Chunking(Text(t)) ELSE Searchable[u]
  BY <1>1, SearchableChunking DEF Searchable, IInv, TypeOK
<1>3. Searchable' = [Searchable EXCEPT ![Url(t)] = KB!Chunking(Text(t))]
  BY <1>2 DEF Searchable
<1>4. PICK r \in {"ingested", "error"} : Finish(t, r)
  BY DEF Commit
<1>5. Phase' = [Phase EXCEPT ![t] = r]
  BY <1>4 DEF Finish, Phase, IInv, TypeOK
<1>6. Phase[t] = "pending"
  BY DEF Commit, Phase
<1> QED
  BY <1>1, <1>3, <1>5, <1>6 DEF KB!Next, KB!Publish

\* Steps inside a transaction are invisible.
LEMMA InnerStepRefines ==
  ASSUME IInv, NEW t \in Tasks, UNCHANGED <<chunks, reply>>,
         NEW v \in InTransaction \cup {"lookup"}, v # "unchanged",
         pc' = [pc EXCEPT ![t] = v], pc[t] \notin {"done", "unchanged"}
  PROVE  UNCHANGED KB!kbVars
<1>1. Phase' = Phase
  BY DEF Phase, IInv, TypeOK, InTransaction
<1>2. Searchable' = Searchable
  BY DEF Searchable
<1> QED
  BY <1>1, <1>2 DEF KB!kbVars

\* Every step of the tables is a step of the knowledge base or a stutter.
LEMMA StepRefines ==
  ASSUME IInv, NEW t \in Tasks, Step(t)
  PROVE  KB!Next \/ UNCHANGED KB!kbVars
<1> USE DEF KB!Replies
<1>1. CASE Prepare(t)
  BY <1>1, InnerStepRefines DEF Prepare
<1>2. CASE PrepareFails(t)
  BY <1>2, RollbackRefines DEF PrepareFails
<1>3. CASE Lookup(t)
  BY <1>3, LookupRefines
<1>4. CASE ReplyUnchanged(t)
  BY <1>4, RollbackRefines DEF ReplyUnchanged
<1>5. CASE Embed(t)
  BY <1>5, InnerStepRefines DEF Embed, InTransaction
<1>6. CASE Create(t)
  BY <1>6, InnerStepRefines, RollbackRefines DEF Create, InTransaction
<1>7. CASE StartDelete(t)
  BY <1>7, InnerStepRefines DEF StartDelete, InTransaction
<1>8. CASE FinishDelete(t)
  BY <1>8, InnerStepRefines DEF FinishDelete, InTransaction
<1>9. CASE InsertChunk(t)
  BY <1>9, InnerStepRefines, RollbackRefines DEF InsertChunk, InTransaction
<1>10. CASE Commit(t)
  BY <1>10, CommitRefines
<1> QED
  BY <1>1, <1>2, <1>3, <1>4, <1>5, <1>6, <1>7, <1>8, <1>9, <1>10 DEF Step

\* Ingestion implements the knowledge base: every call has one atomic effect
\* on what can be searched, and its reply says which.
THEOREM Refinement == Spec => ImplementsKnowledgeBase
<1>1. Init => KB!Init
  BY InitRefines
<1>2. ASSUME IInv, [Next]_vars PROVE [KB!Next]_(KB!kbVars)
  <2>1. ASSUME NEW t \in Tasks, Step(t) PROVE KB!Next \/ UNCHANGED KB!kbVars
    BY <1>2, <2>1, StepRefines
  <2>2. ASSUME NEW t \in Tasks, Abort(t) PROVE KB!Next
    BY <1>2, <2>2, RollbackRefines DEF Abort, InTransaction, KB!Replies
  <2>3. CASE UNCHANGED vars
    BY <2>3 DEF vars, KB!kbVars, Searchable, Phase
  <2> QED
    BY <1>2, <2>1, <2>2, <2>3 DEF Next, Terminated
<1>3. IInv /\ [Next]_vars => [KB!Next]_(KB!kbVars)
  BY <1>2
<1> QED
  BY <1>1, <1>3, InvariantHolds, PTL DEF Spec, KB!Spec, ImplementsKnowledgeBase
=============================================================================

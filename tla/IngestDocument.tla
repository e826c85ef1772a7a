--------------------------- MODULE IngestDocument ---------------------------
(***************************************************************************)
(* Concurrent ingest_document calls (HTTP requests, scripts, manifest      *)
(* entries) against the documents and chunks tables.                       *)
(*                                                                         *)
(* Every await of the call is a step of its own, because other calls run   *)
(* between two awaits.  The tables hold committed rows only; what a        *)
(* transaction has deleted or inserted and not committed is kept with the  *)
(* call, and other transactions meet it as a row lock or as a pending      *)
(* unique-index entry, the way PostgreSQL's READ COMMITTED treats it.      *)
(*                                                                         *)
(* A document never changes its source_url and is never deleted, so its    *)
(* row is addressed by source_url.  A chunk row is known by its order and  *)
(* by the call that wrote it, which stands for its primary key.  title     *)
(* and last_ingested_at are left out: title is treated as source_type is.  *)
(***************************************************************************)
EXTENDS Naturals, FiniteSets

CONSTANTS
  Tasks,       \* ingest_document calls
  Urls,        \* source_url values
  Texts,       \* cleaned texts; a text stands for its sha256 as well
  ChunkCount,  \* how many chunks chunk_text makes of a text
  NoDocument,  \* get_by_source_url found nothing
  Nobody       \* writer of the chunk rows that exist initially

VARIABLES
  documents,   \* committed documents row of each source_url
  chunks,      \* committed chunk rows of each document
  pc,          \* where each call is
  job,         \* source_url, source_type and text the call works on
  loaded,      \* `existing`: the row as this call's session loaded it
  rows,        \* chunk rows its DELETE statement found, then deleted
  next,        \* how many chunk rows it has inserted
  reply        \* what the caller got

vars == <<documents, chunks, pc, job, loaded, rows, next, reply>>

SourceTypes == {"url", "text"}
Job == [url : Urls, source_type : SourceTypes, text : Texts]
DocumentRow == [content_hash : Texts, chunk_count : Nat, source_type : SourceTypes]
ChunkRow == [order : Nat, text : Texts, by : Tasks \cup {Nobody}]

ASSUME IngestAssumption ==
  /\ ChunkCount \in [Texts -> Nat]
  /\ Job # {}                        \* there is a source and a text
  /\ Nobody \notin Tasks
  /\ NoDocument \notin DocumentRow

InTransaction == {"unchanged", "embed", "create", "delete", "deleting", "insert", "commit"}
Writing(t) == pc[t] \in {"insert", "commit"}

Url(t) == job[t].url
Text(t) == job[t].text

\* The rows that chunking text c yields, written by w: all, or the first n.
ChunkRows(c, w, n) == {[order |-> i, text |-> c, by |-> w] : i \in 0 .. n - 1}
AllChunks(c, w) == ChunkRows(c, w, ChunkCount[c])

\* What searches can hit, and how far each call has got, as the abstract
\* specification of the knowledge base sees them.
Searchable == [u \in Urls |-> {[order |-> r.order, text |-> r.text] : r \in chunks[u]}]

Phase == [t \in Tasks |->
  CASE pc[t] = "done"      -> reply[t]
    [] pc[t] = "unchanged" -> "same"
    [] OTHER               -> "pending"]

KB == INSTANCE KnowledgeBase WITH kb <- Searchable, phase <- Phase

\* The documents row the call computes for its text.
NewDocument(t) ==
  [content_hash |-> Text(t),
   chunk_count  |-> ChunkCount[Text(t)],
   source_type  |-> job[t].source_type]

\* The UPDATE that the ORM flushes carries only the columns whose new value
\* differs from the value this session loaded, so the others keep whatever
\* the row holds by then.
UpdatedDocument(t) ==
  LET new == NewDocument(t) IN
  [f \in DOMAIN new |->
     IF new[f] # loaded[t][f] THEN new[f] ELSE documents[Url(t)][f]]

-----------------------------------------------------------------------------

Init ==
  /\ \E seed \in [Urls -> {c \in Texts : ChunkCount[c] > 0} \cup {NoDocument}] :
       /\ documents = [u \in Urls |->
            IF seed[u] = NoDocument THEN NoDocument
            ELSE [content_hash |-> seed[u],
                  chunk_count  |-> ChunkCount[seed[u]],
                  source_type  |-> "url"]]
       /\ chunks = [u \in Urls |->
            IF seed[u] = NoDocument THEN {} ELSE AllChunks(seed[u], Nobody)]
  /\ pc = [t \in Tasks |-> "start"]
  /\ job \in [Tasks -> {CHOOSE j \in Job : TRUE}]
  /\ loaded = [t \in Tasks |-> NoDocument]
  /\ rows = [t \in Tasks |-> {}]
  /\ next = [t \in Tasks |-> 0]
  /\ reply = [t \in Tasks |-> "none"]

\* The call is over: its session is closed and its locks are gone.
Finish(t, r) ==
  /\ pc' = [pc EXCEPT ![t] = "done"]
  /\ loaded' = [loaded EXCEPT ![t] = NoDocument]
  /\ rows' = [rows EXCEPT ![t] = {}]
  /\ next' = [next EXCEPT ![t] = 0]
  /\ reply' = [reply EXCEPT ![t] = r]

Rollback(t, r) == Finish(t, r) /\ UNCHANGED <<documents, chunks, job>>

-----------------------------------------------------------------------------
\* Plausible bugs, each in place of the definition it is named after when the
\* properties are put to the test.

\* A posted document keeps a source_type outside the two that exist.
PrepareMarkdown(t) ==
  /\ pc[t] = "start"
  /\ \E j \in Job : job' = [job EXCEPT ![t] = [j EXCEPT !.source_type = "markdown"]]
  /\ pc' = [pc EXCEPT ![t] = "lookup"]
  /\ UNCHANGED <<documents, chunks, loaded, rows, next, reply>>

\* A document that has appeared meanwhile is taken over, not refused.
CreateOrReplace(t) ==
  /\ pc[t] = "create"
  /\ rows' = [rows EXCEPT ![t] = chunks[Url(t)]]
  /\ pc' = [pc EXCEPT ![t] = "insert"]
  /\ UNCHANGED <<documents, chunks, job, loaded, next, reply>>

\* The DELETE commits on its own.
FinishDeleteAutocommit(t) ==
  /\ pc[t] = "deleting"
  /\ chunks' = [chunks EXCEPT ![Url(t)] = @ \ rows[t]]
  /\ rows' = [rows EXCEPT ![t] = {}]
  /\ pc' = [pc EXCEPT ![t] = "insert"]
  /\ UNCHANGED <<documents, job, loaded, next, reply>>

\* The insert runs in another transaction than the delete, and waits for it.
IndexEntryPendingSelf(t, i) ==
  \E s \in Tasks :
    /\ Writing(s)
    /\ Url(s) = Url(t)
    /\ i < next[s] \/ \E r \in rows[s] : r.order = i

\* The schema lacks UNIQUE (document_id, chunk_order).
InsertChunkNoUnique(t) ==
  /\ pc[t] = "insert"
  /\ next' = [next EXCEPT ![t] = @ + 1]
  /\ pc' = [pc EXCEPT ![t] =
       IF next[t] + 1 = ChunkCount[Text(t)] THEN "commit" ELSE "insert"]
  /\ UNCHANGED <<documents, chunks, job, loaded, rows, reply>>

\* The insert loop stops one chunk early.
InsertChunkShort(t) ==
  /\ pc[t] = "insert"
  /\ IF \E r \in chunks[Url(t)] \ rows[t] : r.order = next[t]
       THEN Rollback(t, "error")
       ELSE /\ next' = [next EXCEPT ![t] = @ + 1]
            /\ pc' = [pc EXCEPT ![t] =
                 IF next[t] + 2 >= ChunkCount[Text(t)] THEN "commit" ELSE "insert"]
            /\ UNCHANGED <<documents, chunks, job, loaded, rows, reply>>

\* An exception inside the block skips the rollback and reaches the commit.
AbortNoRollback(t) ==
  /\ pc[t] \in InTransaction
  /\ chunks' = [chunks EXCEPT ![Url(t)] =
       (@ \ rows[t]) \cup ChunkRows(Text(t), t, next[t])]
  /\ Finish(t, "error")
  /\ UNCHANGED <<documents, job>>

-----------------------------------------------------------------------------
\* The steps of a call.

\* Fetch and extract a page, or clean a posted text.  A client may post any
\* source_url with any text, so every pair can arise; the text://<hash> URL
\* made up for a text without one is among them.
Prepare(t) ==
  /\ pc[t] = "start"
  /\ \E j \in Job : job' = [job EXCEPT ![t] = j]
  /\ pc' = [pc EXCEPT ![t] = "lookup"]
  /\ UNCHANGED <<documents, chunks, loaded, rows, next, reply>>

\* FetchError, or EmptyContentError from the cleaner: no transaction begun.
PrepareFails(t) == pc[t] = "start" /\ Rollback(t, "failed")

\* SELECT the document, compare hashes, chunk the text.
Lookup(t) ==
  LET found == documents[Url(t)]
      same == found # NoDocument /\ found.content_hash = Text(t)
  IN
  /\ pc[t] = "lookup"
  /\ IF ~same /\ ChunkCount[Text(t)] = 0
       THEN Rollback(t, "failed")                 \* EmptyContentError
       ELSE /\ loaded' = [loaded EXCEPT ![t] = found]
            /\ pc' = [pc EXCEPT ![t] = IF same THEN "unchanged" ELSE "embed"]
            /\ UNCHANGED <<documents, chunks, job, rows, next, reply>>

ReplyUnchanged(t) == pc[t] = "unchanged" /\ Rollback(t, "unchanged")

\* The embeddings call returns; the transaction has been open meanwhile.
Embed(t) ==
  /\ pc[t] = "embed"
  /\ pc' = [pc EXCEPT ![t] = IF loaded[t] = NoDocument THEN "create" ELSE "delete"]
  /\ UNCHANGED <<documents, chunks, job, loaded, rows, next, reply>>

\* INSERT INTO documents.  It waits for another uncommitted insert of the
\* same source_url and violates the unique constraint once that one commits.
Create(t) ==
  /\ pc[t] = "create"
  /\ ~ \E s \in Tasks : Writing(s) /\ loaded[s] = NoDocument /\ Url(s) = Url(t)
  /\ IF documents[Url(t)] # NoDocument
       THEN Rollback(t, "error")                  \* IntegrityError
       ELSE /\ pc' = [pc EXCEPT ![t] = "insert"]
            /\ UNCHANGED <<documents, chunks, job, loaded, rows, next, reply>>

\* DELETE FROM chunks: the statement's snapshot fixes the rows it will visit.
StartDelete(t) ==
  /\ pc[t] = "delete"
  /\ rows' = [rows EXCEPT ![t] = chunks[Url(t)]]
  /\ pc' = [pc EXCEPT ![t] = "deleting"]
  /\ UNCHANGED <<documents, chunks, job, loaded, next, reply>>

\* It waits for every transaction that has deleted one of them, and then
\* skips the rows that are gone; rows committed meanwhile are not visited.
FinishDelete(t) ==
  /\ pc[t] = "deleting"
  /\ ~ \E s \in Tasks : Writing(s) /\ Url(s) = Url(t) /\ rows[s] \cap rows[t] # {}
  /\ rows' = [rows EXCEPT ![t] = @ \cap chunks[Url(t)]]
  /\ pc' = [pc EXCEPT ![t] = "insert"]
  /\ UNCHANGED <<documents, chunks, job, loaded, next, reply>>

\* Another transaction has, uncommitted, inserted chunk i of this document
\* or deleted the committed one: UNIQUE (document_id, chunk_order) waits.
IndexEntryPending(t, i) ==
  \E s \in Tasks \ {t} :
    /\ Writing(s)
    /\ Url(s) = Url(t)
    /\ i < next[s] \/ \E r \in rows[s] : r.order = i

\* INSERT of the next chunk, flushed at once.
InsertChunk(t) ==
  /\ pc[t] = "insert"
  /\ ~ IndexEntryPending(t, next[t])
  /\ IF \E r \in chunks[Url(t)] \ rows[t] : r.order = next[t]
       THEN Rollback(t, "error")                  \* IntegrityError
       ELSE /\ next' = [next EXCEPT ![t] = @ + 1]
            /\ pc' = [pc EXCEPT ![t] =
                 IF next[t] + 1 = ChunkCount[Text(t)] THEN "commit" ELSE "insert"]
            /\ UNCHANGED <<documents, chunks, job, loaded, rows, reply>>

\* Flush the document row and COMMIT.  The confirmation may be lost on the
\* way back, and then the caller gets an error for work that is durable.
Commit(t) ==
  /\ pc[t] = "commit"
  /\ documents' = [documents EXCEPT ![Url(t)] =
       IF loaded[t] = NoDocument THEN NewDocument(t) ELSE UpdatedDocument(t)]
  /\ chunks' = [chunks EXCEPT ![Url(t)] =
       (@ \ rows[t]) \cup ChunkRows(Text(t), t, next[t])]
  /\ \E r \in {"ingested", "error"} : Finish(t, r)
  /\ UNCHANGED job

\* The embeddings API or a statement fails, the call is cancelled, or the
\* process dies: the server rolls the transaction back.
Abort(t) == pc[t] \in InTransaction /\ Rollback(t, "error")

Step(t) ==
  \/ Prepare(t) \/ PrepareFails(t)
  \/ Lookup(t) \/ ReplyUnchanged(t)
  \/ Embed(t)
  \/ Create(t) \/ StartDelete(t) \/ FinishDelete(t)
  \/ InsertChunk(t) \/ Commit(t)

Terminated == (\A t \in Tasks : pc[t] = "done") /\ UNCHANGED vars

Next == (\E t \in Tasks : Step(t) \/ Abort(t)) \/ Terminated

Spec == Init /\ [][Next]_vars

\* Every statement, HTTP fetch and API call has a timeout or an answer, and
\* the event loop resumes whoever got it.
FairSpec == Spec /\ \A t \in Tasks : WF_vars(Step(t))

-----------------------------------------------------------------------------
\* Properties.

\* Every variable keeps the shape that the tables and the call's locals have.
TypeOK ==
  /\ documents \in [Urls -> DocumentRow \cup {NoDocument}]
  /\ chunks \in [Urls -> SUBSET ChunkRow]
  /\ pc \in [Tasks -> InTransaction \cup {"start", "lookup", "done"}]
  /\ job \in [Tasks -> Job]
  /\ loaded \in [Tasks -> DocumentRow \cup {NoDocument}]
  /\ rows \in [Tasks -> SUBSET ChunkRow]
  /\ next \in [Tasks -> Nat]
  /\ reply \in [Tasks -> KB!Replies \cup {"none"}]

\* Whatever a search can see at any moment, a document's chunk rows are the
\* complete chunking, written by one call, of the very text its content_hash
\* names: racing re-ingests (delete, then insert one by one) never mix two
\* texts, drop a chunk or leave the hash naming another text.
ChunksMatchDocument ==
  \A u \in Urls :
    IF documents[u] = NoDocument
      THEN chunks[u] = {}
      ELSE /\ ChunkCount[documents[u].content_hash] > 0
           /\ \E w \in Tasks \cup {Nobody} :
                chunks[u] = AllChunks(documents[u].content_hash, w)

\* Two calls for one source never both hold inserted chunk rows: the flush of
\* the documents row and the COMMIT that follows it therefore need no lock of
\* their own.
OneWriter ==
  \A s, t \in Tasks :
    s # t /\ Url(s) = Url(t) => ~ (Writing(s) /\ next[s] > 0 /\ Writing(t) /\ next[t] > 0)

\* A source that can be searched stays searchable: deleting the old chunks
\* before inserting the new ones never exposes an empty document.
StaysSearchable ==
  [][\A u \in Urls : chunks[u] # {} => chunks'[u] # {}]_vars

\* A call that found no document and creates one commits only if no other
\* call has created it since; the loser of the race gets an error instead of
\* overwriting a document it never saw.
CreateOnlyFresh ==
  [][\A t \in Tasks :
       pc[t] = "commit" /\ loaded[t] = NoDocument /\ reply'[t] = "ingested"
         => documents[Url(t)] = NoDocument]_vars

\* Every call gets its reply: waiting for row locks and index entries of
\* other calls never becomes waiting in a circle.
EveryCallEnds == \A t \in Tasks : <>(pc[t] = "done")

\* The documents row's chunk_count is the number of its chunk rows (the
\* "convenience mirror" of the schema's design notes).
ChunkCountMirrors ==
  \A u \in Urls :
    documents[u] # NoDocument => documents[u].chunk_count = Cardinality(chunks[u])

\* Ingestion implements the knowledge base: each call has one atomic effect.
ImplementsKnowledgeBase == KB!Spec

=============================================================================

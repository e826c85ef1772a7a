------------------------------ MODULE Reembed ------------------------------
(***************************************************************************)
(* scripts.reembed_all: it walks the chunk rows in the order of their keys *)
(* and, batch by batch, writes the new model's vectors in place, while     *)
(* other processes re-ingest documents.                                    *)
(*                                                                         *)
(* The keys of chunk rows are random, so an ingest may insert rows before  *)
(* or behind the script's cursor; a key is given out once.  The table      *)
(* holds committed rows.  Both sides lock the rows of their statement one  *)
(* by one and keep the locks until they commit, so they can wait for each  *)
(* other; PostgreSQL then makes one of them fail.  Calls that ingest the   *)
(* same document follow one another here: IngestDocument has those that    *)
(* race.                                                                   *)
(***************************************************************************)
EXTENDS Naturals, FiniteSets

CONSTANTS
  Docs,        \* documents
  MaxId,       \* bound: the largest key; there are enough for all ingests
  MaxChunks,   \* bound: how many chunks a text has
  Tables,      \* document and chunk_order of each key at first
  BatchSize,   \* --batch-size
  MaxIngests,  \* bound: how many ingest calls there are
  MaxRuns,     \* bound: how often the script is started
  NoRow        \* there is no such row

Ids == 1 .. MaxId
Models == {"old", "new"}
Text == [doc : Docs, version : 0 .. MaxIngests, order : 0 .. MaxChunks - 1]
Vector == [of : Text, by : Models]
ChunkRow == [text : Text, vector : Vector]

\* A document has the chunks 0, 1, ... or none, each once, under any keys.
WellFormed(table) ==
  /\ table \in [Ids -> (Docs \X (0 .. MaxChunks - 1)) \cup {NoRow}]
  /\ \A i, j \in Ids : table[i] = table[j] /\ table[i] # NoRow => i = j
  /\ \A i \in Ids : table[i] # NoRow =>
       \A k \in 0 .. table[i][2] : \E j \in Ids : table[j] = <<table[i][1], k>>

ASSUME ReembedAssumption ==
  /\ MaxId \in Nat
  /\ MaxChunks \in Nat \ {0}
  /\ BatchSize \in Nat \ {0}
  /\ MaxIngests \in Nat
  /\ MaxRuns \in Nat
  /\ \A table \in Tables : WellFormed(table)
  /\ NoRow \notin ChunkRow \cup (Docs \X (0 .. MaxChunks - 1))

VARIABLES
  rows,      \* the committed chunk row of each key
  used,      \* keys that have been given out
  pc,        \* where the script is
  dry,       \* --dry-run
  cursor,    \* last_id
  batch,     \* chunk_text of each key of the batch that was read
  vectors,   \* the embeddings of their texts
  targets,   \* keys of the rows its UPDATE is to write
  held,      \* those it has locked
  runs,      \* how often it was started
  present,   \* keys that had a row when it was
  call,      \* where the ingest call of each document is
  model,     \* the embedding model that call's server is configured with
  victims,   \* keys of the rows its DELETE is to remove
  locked,    \* those it has deleted and thereby locked
  ingests    \* how many ingest calls there have been

script == <<pc, dry, cursor, batch, vectors, targets, held, runs, present>>
calls == <<call, model, victims, locked, ingests>>
vars == <<rows, used, script, calls>>


Embedding(c, m) == [of |-> c, by |-> m]
NewRow(c, m) == [text |-> c, vector |-> Embedding(c, m)]
Existing == {i \in Ids : rows[i] # NoRow}
RowsOf(d) == {i \in Existing : rows[i].text.doc = d}

\* The document whose ingest has locked row i, if any.
LockedBy(i) == {d \in Docs : i \in locked[d]}

\* Keys for the chunks of a text: injective, and never used before.
FreshKeys(n) ==
  {id \in [0 .. n - 1 -> Ids \ used] : \A j, k \in 0 .. n - 1 : id[j] = id[k] => j = k}

\* The table once the rows of `gone` make way for version v of document d.
Replaced(gone, d, v, id, m) ==
  [i \in Ids |->
     IF \E k \in DOMAIN id : id[k] = i
       THEN NewRow([doc |-> d, version |-> v,
                    order |-> CHOOSE k \in DOMAIN id : id[k] = i], m)
       ELSE IF i \in gone THEN NoRow ELSE rows[i]]

Init ==
  /\ \E table \in Tables :
       rows = [i \in Ids |->
         IF table[i] = NoRow THEN NoRow
         ELSE NewRow([doc |-> table[i][1], version |-> 0, order |-> table[i][2]], "old")]
  /\ used = Existing
  /\ pc = "off" /\ dry = FALSE /\ cursor = 0
  /\ batch = <<>> /\ vectors = <<>>
  /\ targets = {} /\ held = {}
  /\ runs = 0 /\ present = {}
  /\ call = [d \in Docs |-> "idle"]
  /\ model = [d \in Docs |-> "old"]
  /\ victims = [d \in Docs |-> {}]
  /\ locked = [d \in Docs |-> {}]
  /\ ingests = 0

-----------------------------------------------------------------------------
\* Plausible bugs, each in place of the definition it is named after when the
\* properties are put to the test.

\* zip is given the embeddings in another order.
EmbedShifted ==
  /\ pc = "embed"
  /\ vectors' = [i \in DOMAIN batch |->
       Embedding(batch[CHOOSE j \in DOMAIN batch : DOMAIN batch # {i} => j # i], "new")]
  /\ pc' = "update"
  /\ UNCHANGED <<rows, used, dry, cursor, batch, targets, held, runs, present, calls>>

\* ORDER BY is forgotten: any rows ahead of the cursor make up the batch.
ReadBatchUnordered ==
  /\ pc = "read"
  /\ \E first \in SUBSET {i \in Existing : i > cursor} :
       /\ Cardinality(first) <= BatchSize
       /\ first = {} => \A i \in Existing : i <= cursor
       /\ batch' = [i \in first |-> rows[i].text]
       /\ pc' = IF first = {} THEN "done" ELSE "embed"
  /\ UNCHANGED <<rows, used, dry, cursor, vectors, targets, held, runs, present, calls>>

\* WHERE id >= last_id.
ReadBatchInclusive ==
  /\ pc = "read"
  /\ LET ahead == {i \in Existing : i >= cursor}
         first == {i \in ahead : Cardinality({j \in ahead : j < i}) < BatchSize}
     IN /\ batch' = [i \in first |-> rows[i].text]
        /\ pc' = IF first = {} THEN "done" ELSE "embed"
  /\ UNCHANGED <<rows, used, dry, cursor, vectors, targets, held, runs, present, calls>>

\* The transaction of a batch is not closed.
AdvanceKeepsLocks ==
  /\ pc' = "read"
  /\ cursor' = CHOOSE i \in DOMAIN batch : \A j \in DOMAIN batch : j <= i
  /\ batch' = <<>> /\ vectors' = <<>>
  /\ UNCHANGED <<dry, targets, held, runs, present>>

\* INSERT ... ON CONFLICT DO UPDATE instead of UPDATE.
WrittenUpsert == [i \in Ids |->
  IF i \in DOMAIN batch THEN [text |-> batch[i], vector |-> vectors[i]] ELSE rows[i]]

-----------------------------------------------------------------------------
\* The script.

\* A run starts from the beginning, whatever the one before has done.
Start ==
  /\ pc \in {"off", "done", "failed"} /\ runs < MaxRuns
  /\ pc' = "read"
  /\ dry' \in BOOLEAN
  /\ cursor' = 0
  /\ runs' = runs + 1
  /\ present' = Existing
  /\ UNCHANGED <<rows, used, batch, vectors, targets, held, calls>>

\* The run ends, and its transaction with it.
End(p) ==
  /\ pc' = p
  /\ batch' = <<>> /\ vectors' = <<>>
  /\ targets' = {} /\ held' = {}
  /\ cursor' = 0
  /\ UNCHANGED <<dry, runs, present>>

\* SELECT ... WHERE id > last_id ORDER BY id LIMIT batch_size.  Rows whose
\* deletion is not committed are among them.
ReadBatch ==
  /\ pc = "read"
  /\ LET ahead == {i \in Existing : i > cursor}
         first == {i \in ahead : Cardinality({j \in ahead : j < i}) < BatchSize}
     IN IF first = {}
          THEN End("done")
          ELSE /\ batch' = [i \in first |-> rows[i].text]
               /\ pc' = "embed"
               /\ UNCHANGED <<dry, cursor, vectors, targets, held, runs, present>>
  /\ UNCHANGED <<rows, used, calls>>

LastOfBatch == CHOOSE i \in DOMAIN batch : \A j \in DOMAIN batch : j <= i

\* The batch is done: on to the next one.
Advance ==
  /\ pc' = "read"
  /\ cursor' = LastOfBatch
  /\ batch' = <<>> /\ vectors' = <<>>
  /\ targets' = {} /\ held' = {}
  /\ UNCHANGED <<dry, runs, present>>

\* embed_texts keeps the order, and zip gives each key the vector of its text.
Embed ==
  /\ pc = "embed"
  /\ IF dry THEN Advance
     ELSE /\ vectors' = [i \in DOMAIN batch |-> Embedding(batch[i], "new")]
          /\ pc' = "update"
          /\ UNCHANGED <<dry, cursor, batch, targets, held, runs, present>>
  /\ UNCHANGED <<rows, used, calls>>

\* The UPDATE's snapshot fixes the rows it joins the batch with.
StartUpdate ==
  /\ pc = "update"
  /\ targets' = DOMAIN batch \cap Existing
  /\ pc' = "locking"
  /\ UNCHANGED <<rows, used, dry, cursor, batch, vectors, held, runs, present, calls>>

\* It locks one row after the other, waits for a row that an ingest has
\* deleted, and drops it if that ingest commits.
LockTarget ==
  /\ pc = "locking"
  /\ \E i \in targets \ held :
       /\ LockedBy(i) = {}
       /\ IF i \in Existing THEN held' = held \cup {i} /\ UNCHANGED targets
          ELSE targets' = targets \ {i} /\ UNCHANGED held
  /\ UNCHANGED <<rows, used, pc, dry, cursor, batch, vectors, runs, present, calls>>

Written == [i \in Ids |->
  IF i \in held THEN [rows[i] EXCEPT !.vector = vectors[i]] ELSE rows[i]]

Commit ==
  /\ pc = "locking" /\ held = targets
  /\ rows' = Written
  /\ Advance
  /\ UNCHANGED <<used, calls>>

\* COMMIT raises although the server did it.
CommitUnconfirmed ==
  /\ pc = "locking" /\ held = targets
  /\ rows' = Written
  /\ End("failed")
  /\ UNCHANGED <<used, calls>>

\* The API or a statement fails, or the process dies.
Fail ==
  /\ pc \in {"read", "embed", "update", "locking"}
  /\ End("failed")
  /\ UNCHANGED <<rows, used, calls>>

-----------------------------------------------------------------------------
\* The ingest calls.

\* The chunks are embedded, and the DELETE takes its snapshot.
StartDelete(d) ==
  /\ call[d] = "idle" /\ ingests < MaxIngests
  /\ call' = [call EXCEPT ![d] = "delete"]
  /\ \E m \in Models : model' = [model EXCEPT ![d] = m]
  /\ victims' = [victims EXCEPT ![d] = RowsOf(d)]
  /\ ingests' = ingests + 1
  /\ UNCHANGED <<rows, used, script, locked>>

\* It deletes one row after the other and waits for those the script writes.
DeleteRow(d) ==
  /\ call[d] = "delete"
  /\ \E i \in (victims[d] \ locked[d]) \ held :
       locked' = [locked EXCEPT ![d] = @ \cup {i}]
  /\ UNCHANGED <<rows, used, script, call, model, victims, ingests>>

\* The call is over and its locks are gone.
Leave(d) ==
  /\ call' = [call EXCEPT ![d] = "idle"]
  /\ model' = [model EXCEPT ![d] = "old"]
  /\ victims' = [victims EXCEPT ![d] = {}]
  /\ locked' = [locked EXCEPT ![d] = {}]
  /\ UNCHANGED ingests

\* The new rows, with keys drawn at random, and COMMIT.
Publish(d) ==
  /\ call[d] = "delete" /\ locked[d] = victims[d]
  /\ \E n \in 1 .. MaxChunks : \E id \in FreshKeys(n) :
       /\ rows' = Replaced(locked[d], d, ingests, id, model[d])
       /\ used' = used \cup {id[k] : k \in DOMAIN id}
  /\ Leave(d)
  /\ UNCHANGED script

\* A statement fails, the call is cancelled, or the process dies.
Abort(d) ==
  /\ call[d] = "delete"
  /\ Leave(d)
  /\ UNCHANGED <<rows, used, script>>

\* The script and an ingest each hold a row that the other has still to lock.
Deadlocked(d) ==
  /\ pc = "locking"
  /\ (targets \ held) \cap locked[d] # {}
  /\ (victims[d] \ locked[d]) \cap held # {}

\* PostgreSQL's deadlock detector: one of the two gets an error.
BreakDeadlock(d) ==
  /\ Deadlocked(d)
  /\ \/ Fail
     \/ Abort(d)

-----------------------------------------------------------------------------

Script == ReadBatch \/ Embed \/ StartUpdate \/ LockTarget \/ Commit

Call(d) == DeleteRow(d) \/ Publish(d)

Terminated ==
  /\ pc \in {"off", "done", "failed"}
  /\ \A d \in Docs : call[d] = "idle"
  /\ UNCHANGED vars

Next ==
  \/ Start \/ Script \/ CommitUnconfirmed \/ Fail
  \/ \E d \in Docs : StartDelete(d) \/ Call(d) \/ Abort(d) \/ BreakDeadlock(d)
  \/ Terminated

Spec == Init /\ [][Next]_vars

\* The API and the database answer or time out, and a lock is granted once it
\* is free; a deadlock is found after deadlock_timeout.
FairSpec ==
  /\ Spec
  /\ WF_vars(Script)
  /\ \A d \in Docs : WF_vars(Call(d)) /\ WF_vars(BreakDeadlock(d))

-----------------------------------------------------------------------------
\* Properties.

\* Every variable keeps the shape of the table and of the locals; what a
\* statement has locked is among what it is to visit.
TypeOK ==
  /\ rows \in [Ids -> ChunkRow \cup {NoRow}]
  /\ used \in SUBSET Ids
  /\ pc \in {"off", "read", "embed", "update", "locking", "done", "failed"}
  /\ dry \in BOOLEAN
  /\ cursor \in 0 .. MaxId
  /\ DOMAIN batch \subseteq Ids /\ \A i \in DOMAIN batch : batch[i] \in Text
  /\ DOMAIN vectors \subseteq Ids /\ \A i \in DOMAIN vectors : vectors[i] \in Vector
  /\ targets \subseteq DOMAIN batch /\ held \subseteq targets
  /\ runs \in 0 .. MaxRuns
  /\ present \in SUBSET Ids
  /\ call \in [Docs -> {"idle", "delete"}]
  /\ model \in [Docs -> Models]
  /\ victims \in [Docs -> SUBSET Ids]
  /\ locked \in [Docs -> SUBSET Ids]
  /\ \A d \in Docs : locked[d] \subseteq victims[d]
  /\ ingests \in 0 .. MaxIngests

\* The vector of a row is the embedding of its own text: the texts were read
\* in another transaction than the one that writes the vectors, and rows came
\* and went in between.
VectorsMatchText == \A i \in Existing : rows[i].vector.of = rows[i].text

\* A run that exits with 0 has given the new model's vector to every row that
\* was there when it started and still is, however many rows ingests have
\* inserted and deleted around the cursor and whatever earlier runs have done.
NothingMissed ==
  pc = "done" /\ ~ dry => \A i \in present \cap Existing : rows[i].vector.by = "new"

\* Every run ends, and so does every ingest call: waiting for each other's
\* row locks is broken by an error.
EveryoneEnds ==
  /\ pc = "read" ~> pc \in {"done", "failed"}
  /\ \A d \in Docs : call[d] = "delete" ~> call[d] = "idle"

\* The rows as the abstract specification sees them.
StoreRow(i) == [id |-> i, text |-> rows[i].text, vector |-> rows[i].vector]
Store == [d \in Docs |-> {StoreRow(i) : i \in RowsOf(d)}]

CS == INSTANCE ChunkStore WITH Versions <- 0 .. MaxIngests, store <- Store

\* The script and the ingests implement the chunk store: documents are
\* replaced as a whole, and re-embedding only refreshes vectors.
ImplementsChunkStore == CS!Spec
=============================================================================

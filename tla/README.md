# ContextIngest API in TLA+

Specifications, model-checking configurations and machine-checked proofs for the
ContextIngest API: a FastAPI service that ingests pages into Postgres with pgvector and
answers questions about them with citations. All of them are translated from the code
below `src/`; `PROJECT.json` maps each definition to the lines that it stands for.

1. [The system](#1-the-system)
2. [The modules](#2-the-modules)
3. [The runs](#3-the-runs)
4. [Where the code and its documents disagree](#4-where-the-code-and-its-documents-disagree)
5. [What is proved](#5-what-is-proved)
6. [What is only model-checked, and what is not modelled](#6-what-is-only-model-checked-and-what-is-not-modelled)
7. [The plan](#7-the-plan)

## 1. The system

One Python process (or several workers behind one port) runs an asyncio event loop. State
lives in three places: five Postgres tables (`documents`, `chunks`, `query_requests`,
`query_responses`, `feedback`), one in-memory table per process (the IP limiter), and the
locals of the handlers. Each asyncio task has its own database session
(`async_scoped_session(scopefunc=current_task)`, `autoflush=False`), so the tasks meet only
in Postgres, at READ COMMITTED, and interleave at every `await`.

| Component | State | Operations | Talks to | What is hard | What makes it correct |
|---|---|---|---|---|---|
| **Ingestion of a document** `core/actions/ingest_document.py`, `core/ingestion/pipeline.py` | `documents`, `chunks` | `ingest_document` | fetcher, cleaner, chunker, embeddings API, Postgres | the document is read, then an API is called inside the transaction, then old chunks are deleted and new ones inserted one by one, next to other calls that do the same; failures and cancellation at any await | a search sees one complete chunking of the text that the hash names; one atomic effect per call; nobody waits forever |
| **Query path** `api/routes/query.py`, `core/actions/query_document.py` | `query_requests`, `query_responses` | `POST /v1/query` | limits, safety gate, retrieval, LLM, Postgres | three transactions with slow network calls in between; the question is committed before the answer exists; conversations are resolved on committed rows | conversations stay apart; history is the session's own completed turns; a reply tells what is stored |
| **Session and turn limits** `core/rate_limit/session_limiter.py` | none: counts of `query_requests` | two checks | Postgres | check and insert are several awaits apart | the limits hold, or are exceeded by a known amount |
| **Per-IP limiter** `core/rate_limit/ip_limiter.py`, middleware | `_ip_timestamps`, `_last_prune` | `is_ip_rate_limited` | middleware of `/v1` POSTs | pruning and filtering use different inequalities and two readings of the clock; each worker has its own table | it decides as a sliding window does; the table does not grow with every address ever seen |
| **Transactions, task-scoped sessions** `db/sqlalchemy/transaction.py`, `db/connections` | the session of each task | `commit_transaction_async`, `release_session`, the app-wide dependency | all of the above | who ends the transaction on which exit path; a COMMIT that raises in the `finally` | no transaction spans slow network work; nothing half-written is committed |
| **Safety gate** `core/safety` | none | `check_input` | LLM classifier | fails closed; runs between the limit checks and the insert | a blocked question leaves no row |
| **Embeddings and LLM adapters** `core/services/embeddings.py`, `llm.py` | none | `embed_texts`, `generate_answer` | OpenAI | outcomes: result, exception, unparseable | batches keep their order; failures become a status |
| **Retrieval and rank fusion** `core/services/retrieval.py`, `db/models/chunks.py` | none | `search`, `hybrid_search` | Postgres | fusion of two bounded rankings | documented RRF score, no lost chunk |
| **Feedback** `core/actions/record_feedback.py` | `feedback` | upsert by `query_id` | Postgres | the query is looked up before the upsert | one row per query, last write wins |
| **Manifest ingestion** `core/actions/ingest_manifest.py`, `scripts/ingest_all.py`, `ingest_one.py` | progress of the list | a sequence of ingest calls | ingestion | one session shared by all entries; one entry fails, or its COMMIT does; other walks and edits meanwhile | a failed entry changes nothing and costs the others as little as can be |
| **Re-embedding** `scripts/reembed_all.py`, `Chunk.iter_for_reembed` | a cursor over `chunks` | keyset pagination, bulk update | Postgres, embeddings API | re-ingests delete and insert rows meanwhile, around the cursor and under the UPDATE; row locks taken in two orders | each chunk has an embedding of its own text; no row that stays is missed; nobody waits forever |
| **Prompt construction** `core/services/prompts.py` | none | `_fit_chunks_to_budget`, builders | query path | token budget at its edges | context stays within the budget |
| **Fetcher, cleaner, chunker** `core/ingestion` | none | pure functions, HTTP fetch | ingestion | overlap and size at the boundaries | chunks cover the text |
| **HTTP application** `api/server`, `api/routes` | none | routing, middleware, error handlers | all | the release of the session on every exit path | - |
| **Configuration, logging, migrations** | start-up values, schema | - | - | - | constraints used by the models |

`PROJECT.json` lists the same components with their status, and under `hazards` what in
this code is hard to reach with tests, line by line, with the properties aimed at each.

## 2. The modules

| Module | Role |
|---|---|
| `KnowledgeBase` | abstract: a searchable chunk set per source; each call has one atomic effect |
| `IngestDocument` | ingest calls at the grain of awaits, with row locks and unique-index waits |
| `IngestDocument_proofs` | its theorems |
| `QueryPath` | `POST /v1/query` handlers with limits, gate, resolution, history and both commits |
| `QueryPath_proofs` | its theorems |
| `SlidingWindow` | abstract: a rate limiter that knows all admissions |
| `IpLimiter` | the table of timestamps, its filtering and its pruning |
| `IpLimiter_proofs` | its theorems |
| `FeedbackBoard` | abstract: one rating per query, each call atomic |
| `Feedback` | feedback handlers against an operator who deletes queries |
| `Feedback_proofs` | its theorems |
| `Manifest` | walks over the manifest (one task and one session each) against other walks and edits |
| `Manifest_proofs` | its theorems |
| `ChunkStore` | abstract: documents replaced as a whole, vectors refreshed in place |
| `Reembed` | the re-embedding script next to ingest calls, at the grain of rows and their locks |
| `Reembed_proofs` | its theorems |
| `AnswerContext` | from the two rankings of a search to the prompt's sources and the citations |
| `AnswerContext_proofs` | its theorems |
| `Chunker` | `chunk_text` on texts of tokens and separators, a step per turn of its loops |
| `Chunker_proofs` | its theorems |
| `MCIngestDocument`, `MCQueryPath`, `MCManifest`, `MCReembed`, `MCAnswerContext`, `MCChunker` | instances for TLC; `IpLimiter` and `Feedback` need none |

How they hang together: `Manifest` does not repeat the rows and locks of `IngestDocument`.
Both implement `KnowledgeBase`, so the two steps that an entry has in `Manifest` (its lookup,
and the step that settles it) are what `IngestDocument` shows a call to amount to. `Reembed` has calls of
its own because it is about rows and keys; they follow one another on a document, which is
what `OneWriter` of `IngestDocument` allows. `AnswerContext` is the inside of the steps
`Retrieve` and `GenerateAnswer` of `QueryPath`, `Chunker` the inside of `ChunkCount` in
`IngestDocument` and `Manifest`.

Some modules also hold *plausible bugs*: variants of a definition, placed ahead of it, that
show that a property would notice (a dropped guard, `>` for `>=`, a missing rollback).
`PROJECT.json` pairs each property with one under `mutants`. They are used by no
specification.

### IngestDocument

| TLA+ | Code |
|---|---|
| `documents`, `chunks` | the committed rows. A document is addressed by `source_url`: it is unique, never changes and is never deleted. A chunk row is known by its order and by the call that wrote it, which stands for the random primary key |
| `job` | `source_url`, `source_type`, `text`; a text stands for its SHA-256 |
| `loaded` | `existing`, as this session loaded it |
| `rows` | the chunk rows that the DELETE statement found, later those it deleted (uncommitted) |
| `next` | how many chunks the loop has inserted (uncommitted) |
| `Prepare`, `PrepareFails` | fetch and extract, or clean a posted text; `status: failed` without a transaction |
| `Lookup`, `ReplyUnchanged` | `get_by_source_url`, comparison of hashes, `chunk_text` and its `EmptyContentError` |
| `Embed` | `embed_texts`, inside the transaction |
| `Create` | `Document.create`: waits for another uncommitted insert of the URL, fails on a committed one |
| `StartDelete`, `FinishDelete` | `Chunk.delete_by_document_id`: the statement's snapshot, then the wait for row locks; rows committed after the snapshot are not visited |
| `InsertChunk` | `Chunk.create`: `flush([model_object])` sends this row only, and `UNIQUE (document_id, chunk_order)` waits for or refuses duplicates |
| `Commit` | the flush of the document row and the COMMIT in the `finally` of `commit_transaction_async`. The ORM writes only columns that differ from `loaded` |
| `Abort` | an exception, a cancellation or the death of the process inside the transaction |

The document row is flushed only with the COMMIT, because the sessions do not autoflush and
`BaseModel.create` flushes a single object. `Commit` therefore is one action; `OneWriter`
says why its UPDATE has no lock to wait for. Within `Commit` the answer of the server may
be lost: the caller sees an error for durable work.

### QueryPath

| TLA+ | Code |
|---|---|
| `requests`, `responses` | the committed rows of the two tables (`responses` keeps the internal status) |
| `clock`, `created`, `horizon` | `created_at` as an order of inserts; `horizon` is the time an hour ago |
| `sent`, `conv` | `conversation_id` in the body, and as resolved |
| `history`, `outcome` | locals of `query_document` |
| `txn` | whether the task's session has a transaction open |
| `seen` | not in the program: which replies the clients had when they sent this one |
| `Ask` | a client sends a question with no id, an id from an earlier reply, or a stale one |
| `CheckSessionRateLimit`, `CheckConversationTurnLimit` | the two counts and their 429s |
| `CheckInput` | `check_input`; anything but "safe" blocks |
| `ResolveConversationId` | `belongs_to_session`, or a new id |
| `InsertRequest`, `CommitRequest` | flush (which fixes `created_at`) and commit of the question |
| `FetchHistory` | the newest completed turns of session and conversation, then `release_session` |
| `Retrieve`, `GenerateAnswer` | embeddings and search; LLM call; each with its statuses |
| `Respond` | insert and commit of the response, then the reply |
| `Fail` | a failed statement, an exception, a cancellation, a crash |
| `HourPasses` | the oldest row of the hour leaves it |

The five internal statuses, `_STATUS_MAP`, and the three kinds of refusal are kept.
Questions, answers, chunks and citations are not: no property tells them apart.

### IpLimiter

One action per outcome of `is_ip_rate_limited`: `AdmitUnknown`, `Admit`, `Refuse`. The
middleware calls it without an await and under a lock, so it is atomic within a worker; the
two readings of the clock, one for the window and one in `_prune_expired`, may differ by up to
`Lag`. `Serve` is the pruning and the rest of the table's update. A time stamp is a
record of its value and of its number among the admissions of its key, so that two
admissions at the same reading count twice. `log` holds all admissions and is not part of
the program.

### Feedback

| TLA+ | Code |
|---|---|
| `queries`, `feedback` | the committed rows; `feedback` has `id`, `rating` (with its reason), `created_at`, `updated_at` |
| `target`, `now` | `query_id`, and the handler's reading of the clock |
| `purging` | queries that the operator's transaction has deleted and not committed |
| `LookUp` | `QueryRequest.get_by_id` and the 404; then `now` is read and the statement sent |
| `Upsert` | `INSERT ... ON CONFLICT (query_id) DO UPDATE`: waits for other upserts on the query; an insert checks the foreign key and waits for who deletes the query |
| `Commit`, `Fail` | COMMIT, whose confirmation may be lost; any failure before |
| `StartPurge`, `FinishPurge`, `AbortPurge` | `DELETE FROM query_requests`, which `docs/architecture/schema.md:85` recommends, with its cascade. No code deletes a query |

A statement that deletes several queries waits for each in turn; as a handler locks rows of
one query only, no more circles are possible than with one.

### Manifest

| TLA+ | Code |
|---|---|
| `KindOf` | `POST /v1/ingest`, `scripts.ingest_all`, or `scripts.ingest_one` with one entry of the manifest |
| `manifest`, `content` | `data/sources.json`, and what the file or page of each entry holds |
| `stored` | the text each source is stored with, for what `IngestDocument` has in `documents` and `chunks` |
| `index`, `last`, `text`, `seen` | the loop of `ingest_manifest` and the locals of the current call |
| `session` | the session registered for the task: closed, or `stuck` after a COMMIT that raised and so skipped `close` |
| `result`, `reply` | what the tallies count, and the status or exit code |
| `faults`, `calm` | not in the program: how much has gone wrong, and whether anything has during this walk |
| `Start`, `Unloadable`, `Skip`, `Read` | loading the list; an element that is not an object ends the loop; an entry that cannot be read; fetch and clean |
| `LookUp`, `Unchanged`, `Ingest`, `Conflict` | the ingest call: lookup and hashes, then its effect or the lost race for a new URL |
| `Spill` | a stuck session refuses the first statement; the rollback that follows closes it |
| `Finish` | the response or exit code from the tallies |
| `FetchFails`, `StatementFails`, `CommitRaises`, `Die`, `Edit` | what goes wrong. A COMMIT that raises may have been done by the server |

### Reembed

| TLA+ | Code |
|---|---|
| `rows`, `used` | the chunk rows by primary key; a key is an integer, drawn at random and given out once |
| `cursor`, `batch`, `vectors` | `last_id`, the rows of the batch, the embeddings of their texts |
| `ReadBatch` | `Chunk.iter_for_reembed`: `WHERE id > last_id ORDER BY id LIMIT n` |
| `Embed` | `embed_texts`; a dry run goes on from here |
| `StartUpdate`, `LockTarget`, `Commit`, `CommitUnconfirmed` | `Chunk.bulk_update_embeddings`: the statement's snapshot, row locks one by one, the COMMIT of each batch, whose confirmation may be lost |
| `StartDelete`, `DeleteRow`, `Publish`, `Abort` | an ingest call of any server, with the old or the new model configured |
| `BreakDeadlock` | Postgres' deadlock detector, external: one of the two statements fails |

### AnswerContext

A chunk is an id with a number of tokens. `Search` takes any two bounded rankings of any
set of active chunks and fuses them as the query in `chunks.py` does, with the rank of
`candidates + 1` for a chunk that a list misses; the scores are exact fractions, compared by
cross-multiplication, and chunks of equal scores may come in any order. `Accept` and `Skip` are one
turn of the loop of `_fit_chunks_to_budget`, `BuildPrompt` its end, `GenerateAnswer` the
outcome and the citations.

### Chunker

A text is known by what stands before each token of its words (a separator of one of four
ranks, or nothing: the word goes on) and by where the token is among all tokens; a piece is an
interval of it.

| TLA+ | Code |
|---|---|
| `stack`, `next` | the open calls of `_recursive_split`, each known by where its text ends, and the place in the text at which all of them are; the height of the stack is the rank of the separator |
| `current`, `raw` | `current` of the innermost call (the others have none), and what the calls have produced so far, in the order in which `extend` puts it together |
| `turn`, `chunks` | the loop over `raw_chunks`, and its result |
| `Start` | `chunk_text` up to the first loop: no text, a text that fits, or one that is split |
| `Join`, `Hold`, `Descend` | a turn of the loop over the parts: the part is joined to what is held back, is held back in its place, or is split further |
| `SplitByTokens` | a turn of the loop of `_split_by_tokens` |
| `Return` | the end of a call |
| `ApplyOverlap` | a turn of the loop of `_apply_overlap`, and the test of the length for its result |
| `Finish` | the `EmptyContentError` of the pipeline, or the chunks |

How tokens are counted:

- Within the text counts are taken to add up: a piece of it that `_recursive_split` measures has the
  count of its interval. The code encodes each candidate by itself, so that a piece whose first word has lost
  its space may be a little longer for it than its tokens in the text; the code's comparisons are with
  what it measures, and so are the model's.
- `_apply_overlap` decodes the last tokens of the piece before, strips them, and joins them by a
  space to the piece; the result is encoded anew by the test of its length and by whoever reads
  the chunk. Its count is not the sum: ` Kubernetes` is one token and `Kubernetes` two, the space that
  joins may be a token before a digit, and other tokens may merge. `Recoded` lets the count be any number
  within `Grow` above and `Shrink` below the sum. The constants stand for what the
  tokenizer may do; the code has no bound for it.
- `_split_by_tokens` cuts anywhere, also inside of a multi-byte character, where `decode` puts
  U+FFFD on both sides of the cut. `Torn` tells which pieces have such an end. Their counts may change when
  they are encoded, and with them the place at which the last `Overlap` tokens begin
  (`TailStarts`). That the character itself is lost is not modelled: the properties
  are about positions of tokens, and both sides of the cut still have theirs.
- An overlap that would start with a separator starts behind it, as the code strips it. With
  `CHUNK_TOKEN_OVERLAP=0` there is none.

### Assumptions about the environment

- Postgres at READ COMMITTED: statement snapshots, row locks held to the end of the
  transaction, unique indexes that wait for uncommitted entries. A commit makes all rows of
  a transaction visible at once.
- Ids from `generate_id` never collide: a request stands for its `query_id` and for the
  `conversation_id` that may be minted for it.
- Two rows never get the same `created_at` and the wall clock does not step back.
- The embeddings API returns one vector per text, in the order of the texts
  (`embeddings.py` takes them as they come).
- All tasks of a worker share one event loop, and a task runs without interruption between
  two awaits.

### Fairness

`FairSpec` of `IngestDocument` asks weak fairness of `Step(t)` for each call: fetches and API calls have timeouts, statements have `statement_timeout`, a
statement that waits for a lock resumes once the lock is free, and the event loop resumes
each task whose answer is there. `Abort` has none: nothing has to fail.

`FairSpec` of `Feedback` asks strong fairness of a handler, since purges that are begun and
rolled back over and over disable its upsert in between: Postgres queues those who wait for
a lock, so that each gets its turn. A purge that has begun ends, one way or the other.

`FairSpec` of `Reembed` asks weak fairness of the script as a whole, of each ingest call and
of the deadlock detector, which runs after `deadlock_timeout`. The script's `Start`, the
beginning of a call, and every failure but the detector's have none.

## 3. The runs

| Run | Configuration | Checks | Shows |
|---|---|---|---|
| `ingest` | `MCIngestDocument.cfg`: 3 calls, 1 URL, texts of 0, 1, 2 chunks | `TypeOK`, `ChunksMatchDocument`, `OneWriter`, `StaysSearchable`, `CreateOnlyFresh`, `ImplementsKnowledgeBase`, `EveryCallEnds` | racing creates and re-ingests never show a search a mixed, partial or empty document; each call is atomic; lock waits never form a circle |
| `ingest_mirror` | `MCIngestMirror.cfg`: 2 calls, texts of 1, 1, 2 chunks | `ChunkCountMirrors` violated | see section 4 |
| `query` | `MCQueryPath.cfg`: 3 requests, 2 sessions, session limit 1, turn limit 2, history limit 1, 2 calls in flight per session | `TypeOK`, `ConversationHasOneSession`, `HistoryIsOwnAndComplete`, `NoTransactionAcrossCalls`, `ReplyTellsWhatIsStored`, `DanglingOnlyAfterFailure` | the two commits, the resolution of conversations and the releases under all interleavings and failures |
| `query_history` | `MCQueryHistory.cfg`: 3 requests of 1 session, session limit 1, turn limit 3, history limit 1, 2 calls in flight | `HistorySeesRepliedTurns`, `OvershootBounded` | a client that continues a conversation finds the turn it saw answered, or newer ones; overlapping calls exceed the session limit by less than their number |
| `query_stale` | `MCQueryStale.cfg` | `StaleIdIsNoError` violated | see section 4 |
| `ip` | `IpLimiter.cfg`: 1 worker, 2 addresses, limit 2, window 3, pruning every 4, lag 1, clock to 7 | `RecentRemembered`, `OnlyRecentTracked`, `IpLimitHolds`, `ImplementsSlidingWindow` | the table with its pruning decides as the sliding window does |
| `feedback` | `Feedback.cfg`: 3 calls, 2 queries | `NoOrphanFeedback`, `BackdatedOnlyByOverlap`, `ImplementsFeedbackBoard`, `EveryPostAnswered` | posts race each other and purges: one row per query, the last write wins, no feedback outlives its query, no circle of locks; `updated_at` is behind only by posts that overlapped |
| `manifest` | `MCManifest.cfg`: an HTTP walk and a walk of one entry, 3 entries, 1 fault | `SpillFollowsBrokenCommit`, `CalmWalkStores`, `FailureLeavesStore`, `ImplementsKnowledgeBase` | a failed entry changes nothing, a COMMIT that raises costs at most one more entry, an undisturbed walk stores all it can, whatever state earlier ones left |
| `manifest_spill` | `MCManifestSpill.cfg`: a walk of `ingest_all`, 1 fault | `OwnFaultOnly` violated | see section 4 |
| `reembed` | `MCReembed.cfg`: 2 documents of 2 and 1 chunks, batches of 2, 2 runs, 2 ingests, 6 keys | `TypeOK`, `VectorsMatchText`, `NothingMissed`, `EveryoneEnds`, `ImplementsChunkStore` | vectors are those of their rows' texts although read and written in different transactions; the cursor misses no row that stays; deadlocks between the UPDATE and a DELETE end |
| `context` | `MCAnswerContext.cfg`: 4 chunks of 1, 2, 3 and 6 tokens, 3 and 2 candidates, top 3, budget 4, a blank line of 1 | `FusionKeepsAgreement`, `PromptFits`, `OnlyOverflowDropped`, `AnswerIsGrounded` | fusion turns no common judgement around; the prompt has what fits, the best chunk in any case, and nothing that is not cited |
| `chunker` | `MCChunker.cfg`: texts of up to 7 tokens, a word of 10, and 7 short words between two long ones; chunks of 5, overlap 4, minimum 2; encoding anew adds or saves at most 1 | `SizeBounded`, `ChunksFollowText`, `LossBounded`, `CutsOnlyTooLong` | all arrangements of the separators: chunks are bounded and in order, cuts fall where they must, and what is dropped is short |

Why the bounds are enough to be of interest:

- *ingest*: a third call is needed for the race in which a DELETE snapshot predates a
  commit and a third transaction has deleted the rows committed since; two chunks are needed
  for a partial document, zero for the empty one. The initial document exists or not. One
  URL is where all contention is: calls for different URLs share no row, and the proofs
  cover any number of URLs.
- *query*: two sessions are the smallest way of mixing conversations. Three calls of a
  session are needed for a history in which a turn is displaced by a newer one, and for
  more calls than the overshoot allows (a limit of 1 with two calls in flight); that is the
  run `query_history`, where the hour passes between calls as well. Calls of one session are interchangeable (`OfOneSession`), as no
  definition tells them apart.
- *ip*: a clock up to 7 has room for a window, a pruning and a window after it, and the
  initial clock is any value, so that the first pruning can fall anywhere.
  The workers share nothing, so a second one adds nothing but a factor; the proofs have any
  number of them.
- *feedback*: two calls on one query race for the insert, the third may update or wait, and
  the second query shows that calls on different queries leave each other alone.
- *manifest*: three entries are needed for two of one source with another between, and for
  an entry between a broken COMMIT and the one that pays for it. The walk of one entry is
  the smallest one that competes. One fault anywhere covers every first failure. In
  `manifest_spill` the walk is alone and the broken COMMIT is the only fault, so that the next entry has none of its
  own. The first contents and the sources stored at first
  vary. The proofs have any number of walks, entries and faults.
- *reembed*: batches of 2 over 3 rows make a full batch and a partial one; of the six keys
  there are free ones before, between and behind the rows. Two rows per document and
  per batch are what a deadlock needs; a second run meets what a first one left half done.
- *context*: one chunk is larger than the budget, each list is shorter than the set of
  chunks, and the top 3 leave chunks out.
- *chunker*: seven tokens are a full chunk and a rest that is short or nearly full; the word of
  ten is cut into two full chunks, and the overlap of the second begins at a cut. The other family of
  texts is where most is dropped in a row: seven words of one token between two words that are longer than
  a chunk, with any of the three separators above the space between them. Six of the
  seven can be in no chunk, which is the bound of `LossBounded` for these numbers, and the
  seventh is always kept (`FewAreLost`). Chunks of `ChunkSize + Overlap + 2` tokens occur, so the
  bound of `SizeBounded` is reached, too. The code's numbers are 500, 75 and 50; what matters is their
  order. `LossBounded` asks for it in `ShortFits`, which 500, 75 and 50 satisfy while
  `Grow` and `Shrink` are 25 together at most; nothing in the code checks the environment variables, and the other properties
  hold without it.
- `MaxInFlight` bounds how many calls of one session overlap; `Requests` is how many
  there are. Each call and each request runs once, so nothing else needs a bound but the
  clock of the limiter (`MaxTime`), faults and edits (`MaxFaults`), and ingests, runs and
  keys of `Reembed` (`MaxIngests`, `MaxRuns`, `MaxId`, `MaxChunks`).

In `IpLimiter` only `Tick` stops at `MaxTime`: requests are still served there. The other
specifications end in `Terminated`, when all is done. No run switches the deadlock check off.
The type invariants of `IpLimiter`, `Feedback`, `Manifest`, `AnswerContext` and `Chunker` are
checked by their proofs only.

## 4. Where the code and its documents disagree

| Run | Code | Document | What happens |
|---|---|---|---|
| `ingest_mirror` | `core/ingestion/pipeline.py:53` | `docs/batches/batch2/2c-migrations-and-tables.md:39` "Convenience mirror; updated inside the same txn" | Two re-ingests overlap. The second loaded the row before the first replaced it, and its text has as many chunks as the loaded row: the ORM leaves `chunk_count` out of the UPDATE, and it keeps the first call's number |
| `query_stale` | `api/routes/query.py:24` | `docs/api/query.md:198` "does **not** return an error" | The turn limit looks at the id as sent: a full conversation of another session is a 429 |
| `manifest_spill` | `db/sqlalchemy/transaction.py:47` | `docs/api/ingest.md:39` "partial failures still ingest the successful entries" | A COMMIT that raises skips `close`; the next entry of the walk that reaches the database is given that session, and its first statement fails: an entry that could be stored, and met no fault of its own, is reported as failed |

`SpillFollowsBrokenCommit` says how far the third one goes: one entry per broken COMMIT, and only
in a walk, as a handler that ends has its session released.

More divergences met while modelling, without a run of their own:

- `docs/guides/self-hosting.md:42` calls the session limit a maximum per hour; overlapping calls pass
  on the same count (`session_limiter.py:17`). How far it can be exceeded is
  `OvershootBounded`: by fewer calls than overlap. The turn limit (`session_limiter.py:35`)
  has the same gap, and `TurnLimitOvershoot` the same bound.
- `docs/api/query.md:86` says of `conversation_id` "Always set"; a refusal echoes the id as sent, or
  an empty one (`api/routes/query.py:39`).
- `docs/api/query.md:89` has one citation "per chunk used to ground the answer"; an answer cites every
  chunk retrieved, also those that the budget kept out of the prompt (`query_document.py`).
- `CHANGELOG.md:14` has no transaction held across the LLM calls; that of the two counts is open
  during the classifier's call (`api/routes/query.py:28`). From the commit of the
  question on it is true: `NoTransactionAcrossCalls`.
- `db/models/feedback.py:10` and `docs/architecture/schema.md:75`: `updated_at` advances with each upsert. The
  clock is read before the statement is sent, so a post that overlaps may move it back;
  `BackdatedOnlyByOverlap` says that no other can.
- `docs/api/feedback.md:73`: 404 when the insert fails on the foreign key. Nothing maps that error, the client
  gets a 500; the 404 comes from the lookup before it.
- `docs/architecture/retrieval.md:26`: 0 for the missing term of a chunk in one list. The query uses the
  rank after the list's last (`chunks.py:157`), also when the list has fewer entries.
- `core/services/prompts.py:189`: chunks are dropped from the lowest-scored until they fit. The loop
  skips a chunk that overflows and may take a smaller one after it;
  `OnlyOverflowDropped` is what holds.
- `docs/batches/batch3/3a-ingestion-pipeline.md:172`: chunks below the minimum "are usually footer/nav
  boilerplate". A short paragraph between two long ones may be dropped as well, and several pieces in
  a row: as much text as three pieces that may be dropped can be lost at one place. `LossBounded`
  is the bound, and the texts of the run `chunker` reach it.
- `docs/batches/batch3/3a-ingestion-pipeline.md:168`: "No chunk exceeds `chunk_size + overlap` tokens". The overlap is
  decoded, stripped and joined by a space (`chunker.py:96-97`), and nothing measures the
  result: it may have a few tokens more. `SizeBounded` is what holds: they are no more than encoding anew
  explains. The texts of the run `chunker` exceed the document's bound by two.
- `docs/batches/batch3/3e-reembed.md:159`: "No row locking. Concurrent ingestion + reembed is unsupported". The
  UPDATE locks its rows as any UPDATE does, and nothing keeps the two apart: the script runs next to a
  server. The run `reembed` shows what holds all the same (`VectorsMatchText`, `NothingMissed`) and
  that deadlocks end.
- `docs/api/ingest.md:47`: not rate-limited by the middleware. `api/server/middleware.py:9` lists
  `/v1/ingest`.

An IP limit of 0 still lets an unknown address through (`ip_limiter.py:85`), which
is why the theorems on the limit ask for a positive one.

## 5. What is proved

TLAPS checks the following for every value of the constants that satisfies the module's
`ASSUME`. TLC evaluates these assumptions in every run, and has checked the same properties
on the instances above.

**`IngestDocument_proofs`**: `TypeCorrect`, `SearchableIsComplete`
(`ChunksMatchDocument`), `WritersExclude` (`OneWriter`), `NeverEmptied` (`StaysSearchable`),
`CreatorsSeeFresh` (`CreateOnlyFresh`), `Refinement` (`ImplementsKnowledgeBase`).
Assumptions: a text has a number of chunks, there is a source and a text, the markers for
"no document" and "initial writer" are none of the others. The chunk set and the hash are
tied together only at a commit, so the properties are not inductive alone. `IInv` adds what
each call knows at each step. `RowsSettled`: a row that is committed, or that a DELETE has
found, was written by a call that is over, so its writer is not confused with one at work.
`LookupFacts` and `CountFacts`: what the lookup established and how many chunks have been
inserted. `CreatorFacts`: a call creating a document is alone with it. `DeleteFacts`: a
DELETE gets all of the committed rows or none, two calls never get the same row, and a call
that has inserted a chunk has got all of them (otherwise the unique index would have made it
wait or fail). At
`Commit` a call that has inserted every chunk has therefore deleted every row that was
committed, and the new chunk set is exactly its own. `Refinement` follows step by step:
`Commit` maps to the abstract effect, `Lookup` of equal text to the abstract
"same", a failure to the abstract failure, all others to stuttering.

**`QueryPath_proofs`**: `TypeCorrect`, `ConversationsAreSeparate`
(`ConversationHasOneSession`), `SessionsAreReleased` (`NoTransactionAcrossCalls`),
`HistoryIsPrivate` (`HistoryIsOwnAndComplete`), `RepliesAreTrue`
(`ReplyTellsWhatIsStored`), `NoSilentLoss` (`DanglingOnlyAfterFailure`), `LimitOvershoot`
(`OvershootBounded`). Assumptions: finitely many requests, each with a session; limits are
natural numbers and at least one call may be in flight. `StageFacts` says what is stored at
each step of a handler (the row exists from the first commit on, the response not before the
second), `MintedBySession` that a stored conversation id is that of a request of the same
session: a handler resolves to its own id or to one that a committed row of its session
carries, and this stays true while others commit. For the overshoot, a call between the
check and the commit is counted together with the rows: whoever passes the check has seen
fewer rows than the limit, and at most `MaxInFlight - 1` other calls of the session are
past the check. A commit moves a call from one summand to the other, and the passing of an
hour only lowers the first.

On the turns of a conversation, `HistoryIsRecent` (`HistorySeesRepliedTurns`) and
`TurnLimitOvershoot`. The first needs that a query for the newest `k` rows that leaves one
out returns `k` rows, all newer. That is the lemma `NewestCounted`, shown by the smallest `k` for
which it would fail, as induction theorems are out of reach; it needs that no two rows have the same time
(`StampFacts`). `SeenReplied` says that what a client has seen is durable. The second theorem states for a conversation what `OvershootBounded`
states for a session: at most `MaxInFlight - 1` turns more than the limit, if that is positive. The
first turn of a conversation passes no check of its count; `KnownConversations` says that nobody can send
its id before it is stored.

**`IpLimiter_proofs`**: `TypeCorrect`, `NeverForgets` (`RecentRemembered`), `LimitHolds`
(`IpLimitHolds`), `TableStaysSmall` (`OnlyRecentTracked`), `Refinement`
(`ImplementsSlidingWindow`). Assumption: the lag is at most the window; all but the first two
also take `Limit > 0`: with 0 an unknown address would still be admitted. The
invariant `Numbered` says that the admissions of a key are numbered 1 to n in the order of
their times, without which "the last entry of the list" says nothing about the others: an
entry is pruned when its last time is older than the window, and only then can none of it
count. What is remembered equals what counts, so the filtered count is the abstract one up
to the lag. For the size of the table, `ListsEnd` (a list that is not empty has a last entry) and `PrunedInPast` (no pruning lies ahead of the clock).

**`Feedback_proofs`**: `TypeCorrect`, `NoOrphans` (`NoOrphanFeedback`), `Refinement`
(`ImplementsFeedbackBoard`), `DatesFollowPosts` (`BackdatedOnlyByOverlap`). Assumption: `NoRow` is not a row. The invariant adds `Stamped`
(who is past the lookup has read the clock), so that what a commit writes is a row.
`NoOrphanFeedback` has two parts: rows have their query, and so has every upsert that is
waiting for its commit. The second follows from the first for an update and from the foreign
key for an insert, and lasts because a purge waits for both kinds of lock. In the refinement
`Commit` records the call, `FinishPurge` purges, the failed foreign key is a failure, and
everything else stutters.

**`Manifest_proofs`**: `TypeCorrect`, `OneSpillPerBrokenCommit` (`SpillFollowsBrokenCommit`),
`FailedEntriesChangeNothing` (`FailureLeavesStore`), `CalmWalksStoreAll`
(`CalmWalkStores`), `Refinement` (`ImplementsKnowledgeBase`). Assumptions: there is an entry,
and the markers for a malformed element, an unreadable file and a source not stored are no
values. `Located` ties the locals to the place of a walk and says that entries ahead are
pending, so that each gets its result once. `StuckAfterBroken` is what makes the first
theorem inductive: while the session is stuck, the last entry that reached the database was
the one whose COMMIT raised. `Undisturbed` says of a calm walk that it is alone and that what it
has read and seen is still so, and `Named` that only entries with a source have results. In
the refinement each entry of each walk is a call of the knowledge base.

**`Reembed_proofs`**: `TypeCorrect`, `VectorsAreOwn` (`VectorsMatchText`), `NoRowMissed`
(`NothingMissed`), `Refinement` (`ImplementsChunkStore`). Assumptions: the tables at first are
well formed and `NoRow` is not a row. `KeysRemembered`: whatever key is remembered has been given out, so
that no later row has it; without it the batch's texts say nothing about the rows
of the same keys. `BatchIsNext`: a row of the batch that is left still has the text that was read,
and no row present at the start lies between the cursor and the last of the batch without
being in it (this is where the order of keys is used: among finitely many there is a first, `Smallest`, and a last).
`UpdateIsWhole`: a batch row that still exists is among those to be written, since keys are not reused.
`DeletesOwn` keeps the two sides' locks apart, and `BehindIsNew` carries the result along the
cursor. In the refinement `Commit` is a refresh of the rows it has locked, also of none, and
`Publish` a replacement.

**`AnswerContext_proofs`**: `TypeCorrect`, `AgreementKept` (`FusionKeepsAgreement`),
`Grounded` (`AnswerIsGrounded`), `NothingFittingDropped` (`OnlyOverflowDropped`),
`BudgetKept` (`PromptFits`). Assumptions: finitely many chunks; all numbers are natural. The lemma
`SmallerRanksOutscore` says that of two chunks one with ranks no greater in both
lists, and smaller in one, has the greater score; `AheadRanks` that being ahead in a list
gives such a rank, the fallback included, because a list never has more entries than
candidates. `PromptFromRetrieved` says that the prompt is a subsequence of what was retrieved
and begins with its first.

The last two theorems are about a sum over a list, which the loop keeps as a running count.
`Counted` says that the count is the sum, and that each chunk passed over exceeded the budget
beside those taken before it; what is taken later only comes behind these. It also bounds the
number of chunks by the turns of the loop, from which the bound of `PromptFits` for the joins
follows: they are not counted by the code, and are one less than the top chunks at most. That a
longer list has the tokens of its last chunk more (the lemma `TokensOfAppend`) would be an induction;
here `SumsExist` and `SumsAgree` take the smallest length at which it fails, and
refute it, as `<` on the natural numbers is well founded.

**`Chunker_proofs`**: `TypeCorrect`, `SizesAreBounded` (`SizeBounded`), `TextIsFollowed`
(`ChunksFollowText`), `CutsAreNeeded` (`CutsOnlyTooLong`), `LossIsBounded` (`LossBounded`).
Assumptions: the chunk size and the minimum are positive, the overlap may be 0, encoding anew may add and save any
numbers of tokens, and a separator is one token at most (in the vocabulary in use each of the four is
one, or goes into the word that follows). That short pieces fit the overlap and a chunk
(`ShortFits`) is a precondition of `LossBounded` alone. Texts are of any length.

The invariant has the open calls on one side and the pieces on the other. `CallsNest`: the
text of each call is within that of its caller, has no separator of a lower rank from the
current place on, and ends with a unit that was too long; the call that is made for it is justified by
that. `HeldBack`: what is held back goes from the end of `raw` to the next part, fits a chunk, and has no
separator that ranks above those of the call. `Partition`: the pieces are the text up to there, without a gap. `CutsHaveReasons`
gives each cut between two pieces one of two reasons: the unit behind it does not fit beside
the piece before it (`NoRoomBehind`), or the piece before it ends a unit that was too long
(`EndOfLongUnit`). The property is weaker than these, and not inductive: that a cut is
justified has to be known when it is made, while the text behind it has not been looked at.
`Chosen` ties `chunks` to `raw`. Each lemma named `...Inv` is about one action.

`LossIsBounded` takes most work. A piece is dropped only if it is short together with the piece before it
(`DroppedIsShort`), and text of a dropped piece is in no chunk only if the next piece is
dropped as well (`LostIsDropped`). Where two such pieces meet, the cut has one of the two
reasons, and as both pieces would have fit one chunk, the reason lies beyond them:
the separator after the second, or that before the first, ranks lower than the one between
(`NeighbourDeeper`). In a row of dropped pieces the ranks of the separators therefore fall
strictly and then rise strictly, and with four ranks (`SeparatorBehindShort` excludes cuts
inside of a word) the row ends after six pieces at most: `FewAreLost`. Taken in pairs, as two
neighbours are dropped for being short together, six pieces are three times less than `Short`, the least
number of tokens that is never dropped however it is encoded. Before this argument was made, the bound was
stated as two short pieces, which held on all texts of nine tokens and is false. `SizesAreBounded` needs
that a tail of the piece before begins at one of `TailStarts`, so that it counts no more than `Overlap` and
what a torn piece may have saved.

## 6. What is only model-checked, and what is not modelled

Only model-checked:

- `EveryCallEnds`, `EveryPostAnswered`, `EveryoneEnds`: liveness, and `ENABLED`, are out of
  the prover's reach.
- The violations.

Not modelled, and why:

- *Wording, layout, log lines, HTML extraction, safety patterns, prompts.* No property is
  about them; the models keep the outcomes.
- *The embedding vectors and the search itself.* A search is a read of committed chunk rows;
  the ingest model says what any such read can see.
- *`title` and `last_ingested_at`.* They are written as `source_type` is.
- *`is_active`.* Nothing in the code sets it to false.
- *Which key `get_client_ip` derives from headers.* It is an input of the limiter.
- *Connections.* The asynchronous engine has no pool (`NullPool`): a session opens a
  connection when its transaction begins. A server that has none left shows as `Fail`.
- *What HTML and markdown become in the cleaner.* It is text to text; its outcomes, a text or
  none, are in `IngestDocument` and `Manifest`.
- *The requests of 2048 texts that `embed_texts` is split into.* They are concatenated in order, one after
  the other, and a caller sees one result or one exception.
- *A file given to `ingest_one` that is not an entry of the manifest.* It is a walk of one
  entry like the others.
- *Configuration, logging, migrations.* Nothing there interleaves. Constraints of the schema
  appear in the actions that meet them.

## 7. The plan

**Done**, in order of importance: ingestion against its abstract knowledge base; the query
path with its limits; the per-IP limiter against the sliding window; feedback against its
board; walks over the manifest against the same knowledge base; re-embedding next to
re-ingestion against the chunk store; rank fusion and the prompt's budget; the chunker. Every
safety property of every run that passes is proved.

**Left**:

1. A run with four calls of one conversation, in which the bound of `TurnLimitOvershoot` is
   reached and a faulty check exceeds it, on a machine that has the time.

------------------------------ MODULE Manifest ------------------------------
(***************************************************************************)
(* Walks over the entries of data/sources.json: POST /v1/ingest and        *)
(* scripts.ingest_all go through the whole list, scripts.ingest_one takes  *)
(* one entry.  A walk is one task, so all of its entries use one database  *)
(* session, and what a COMMIT that raises leaves behind in that session    *)
(* meets the next entry.                                                   *)
(*                                                                         *)
(* What ingest_document does to the tables is taken from its own           *)
(* specification, which implements KnowledgeBase: one atomic effect per    *)
(* call.  Here a call is its lookup and the step that settles it.          *)
(***************************************************************************)
EXTENDS Naturals

CONSTANTS
  Walks,       \* runs of ingest_manifest or of ingest_one
  KindOf,      \* how each was started: "http", "all" or "one"
  Size,        \* how many entries the manifest has
  Manifests,   \* the lists it may be: a source_url per entry, or Malformed
  Malformed,   \* an element of the JSON array that is not an object
  Contents,    \* what their files and pages hold at first, per entry
  Sources,     \* source_url values
  Texts,       \* cleaned texts
  ChunkCount,  \* how many chunks a text makes
  Unreadable,  \* no such file, an empty one, a page that cannot be fetched
  NoText,      \* the source is not stored
  MaxFaults    \* bound: how many calls, statements and commits fail, files change

Entries == 1 .. Size

ASSUME ManifestAssumption ==
  /\ Size \in Nat \ {0}
  /\ KindOf \in [Walks -> {"http", "all", "one"}]
  /\ Manifests \subseteq [Entries -> Sources \cup {Malformed}]
  /\ Contents \subseteq [Entries -> Texts \cup {Unreadable}]
  /\ ChunkCount \in [Texts -> Nat]
  /\ Malformed \notin Sources /\ Unreadable \notin Texts /\ NoText \notin Texts
  /\ MaxFaults \in Nat

VARIABLES
  manifest,  \* data/sources.json
  content,   \* what the file or page of each entry holds
  stored,    \* the text each source is stored with
  pc,        \* where each walk is
  index,     \* its current entry
  last,      \* its last entry
  text,      \* cleaned text of the current entry
  seen,      \* stored text that its lookup found
  session,   \* "closed", or "stuck" after a COMMIT that raised
  result,    \* what became of each entry
  reply,     \* HTTP status or exit code
  faults,    \* how many faults and edits there have been
  calm       \* no fault, edit or other walk since the walk began

vars == <<manifest, content, stored, pc, index, last, text, seen, session,
          result, reply, faults, calm>>

\* The tallies count "ingested" and "unchanged"; all the others are "failed".
Stored == {"ingested", "unchanged"}
Failed == {"unread",   \* _build_request raised, or status "failed" of a fetch
           "empty",    \* EmptyContentError of the chunker
           "error",    \* an exception, rolled back
           "broken",   \* COMMIT raised
           "spill"}    \* the session would not take a statement
ReachedDatabase == {"ingested", "unchanged", "empty", "error", "broken", "spill"}

Running(w) == pc[w] \in {"entry", "lookup", "settle"}
Source(w) == manifest[index[w]]
Publishable(c) == c \in Texts /\ ChunkCount[c] > 0

Init ==
  /\ manifest \in Manifests
  /\ content \in Contents
  /\ stored \in [Sources -> {c \in Texts : Publishable(c)} \cup {NoText}]
  /\ pc = [w \in Walks |-> "idle"]
  /\ index = [w \in Walks |-> 1]
  /\ last = [w \in Walks |-> Size]
  /\ text = [w \in Walks |-> NoText]
  /\ seen = [w \in Walks |-> NoText]
  /\ session = [w \in Walks |-> "closed"]
  /\ result = [w \in Walks |-> [e \in Entries |-> "pending"]]
  /\ reply = [w \in Walks |-> "none"]
  /\ faults = 0
  /\ calm = [w \in Walks |-> FALSE]

world == <<manifest, content>>

Fault ==
  /\ faults < MaxFaults
  /\ faults' = faults + 1
  /\ calm' = [w \in Walks |-> FALSE]

NoFault == UNCHANGED <<faults, calm>>

\* The entry is counted and the loop goes on.
Record(w, r) ==
  /\ result' = [result EXCEPT ![w][index[w]] = r]
  /\ index' = [index EXCEPT ![w] = @ + 1]
  /\ pc' = [pc EXCEPT ![w] = "entry"]
  /\ text' = [text EXCEPT ![w] = NoText]
  /\ seen' = [seen EXCEPT ![w] = NoText]
  /\ UNCHANGED <<last, reply>>

\* The request or the script ends, and its session with it.
Leave(w, r) ==
  /\ pc' = [pc EXCEPT ![w] = "done"]
  /\ reply' = [reply EXCEPT ![w] = r]
  /\ text' = [text EXCEPT ![w] = NoText]
  /\ seen' = [seen EXCEPT ![w] = NoText]
  /\ session' = [session EXCEPT ![w] = "closed"]

Close(w) == session' = [session EXCEPT ![w] = "closed"]

-----------------------------------------------------------------------------
\* Plausible bugs, each in place of the definition it is named after when the
\* properties are put to the test.

\* A source that is stored counts as unchanged, whatever its text.
LookUpByUrlOnly(w) ==
  /\ pc[w] = "lookup" /\ session[w] = "closed"
  /\ \/ /\ Publishable(text[w]) \/ stored[Source(w)] # NoText
        /\ seen' = [seen EXCEPT ![w] =
             IF stored[Source(w)] # NoText THEN text[w] ELSE NoText]
        /\ pc' = [pc EXCEPT ![w] = "settle"]
        /\ UNCHANGED <<index, last, text, session, result, reply>>
     \/ /\ ~ Publishable(text[w]) /\ stored[Source(w)] = NoText
        /\ Record(w, "empty") /\ Close(w)
  /\ NoFault /\ UNCHANGED <<world, stored>>

\* The rollback is left out, and the session stays as it is.
SpillKeepsSession(w) ==
  /\ pc[w] = "lookup" /\ session[w] = "stuck"
  /\ Record(w, "spill")
  /\ NoFault /\ UNCHANGED <<world, stored, session>>

\* The chunks are committed one by one.
StatementFailsHalfWay(w) ==
  /\ pc[w] = "settle"
  /\ Record(w, "error") /\ Close(w)
  /\ stored' = [stored EXCEPT ![Source(w)] = IF seen[w] = text[w] THEN @ ELSE NoText]
  /\ Fault /\ UNCHANGED world

\* Losing the race for a new source counts as "unchanged".
ConflictIsUnchanged(w) ==
  /\ pc[w] = "settle"
  /\ seen[w] # text[w] /\ stored[Source(w)] # seen[w]
  /\ Record(w, "unchanged") /\ Close(w)
  /\ NoFault /\ UNCHANGED <<world, stored>>

-----------------------------------------------------------------------------
\* The steps of a walk.

\* The list is read; ingest_one has a single entry.  No walk is calm while
\* another is on its way.
Start(w) ==
  /\ pc[w] = "idle"
  /\ IF KindOf[w] = "one"
       THEN \E e \in Entries :
              /\ manifest[e] # Malformed
              /\ index' = [index EXCEPT ![w] = e]
              /\ last' = [last EXCEPT ![w] = e]
       ELSE UNCHANGED <<index, last>>
  /\ pc' = [pc EXCEPT ![w] = "entry"]
  /\ calm' = [v \in Walks |-> v = w /\ \A x \in Walks : ~ Running(x)]
  /\ UNCHANGED <<world, stored, text, seen, session, result, reply, faults>>

\* Replies for an exception that leaves the walk.
Crash(w) == IF KindOf[w] = "http" THEN "500" ELSE "3"

\* No manifest, or not a list; an element that is no object, on which the
\* loop stops outside of its try.
Unloadable(w) ==
  /\ \/ pc[w] = "idle" /\ KindOf[w] # "one"
     \/ pc[w] = "entry" /\ index[w] <= last[w] /\ Source(w) = Malformed
  /\ Leave(w, Crash(w))
  /\ NoFault /\ UNCHANGED <<world, stored, index, last, result>>

\* _build_request, fetch_url, the cleaner: there is no text, and the database
\* is not asked.
Skip(w) ==
  /\ pc[w] = "entry" /\ index[w] <= last[w]
  /\ manifest[index[w]] # Malformed
  /\ content[index[w]] = Unreadable
  /\ Record(w, "unread")
  /\ NoFault /\ UNCHANGED <<world, stored, session>>

Read(w) ==
  /\ pc[w] = "entry" /\ index[w] <= last[w]
  /\ manifest[index[w]] # Malformed
  /\ content[index[w]] # Unreadable
  /\ text' = [text EXCEPT ![w] = content[index[w]]]
  /\ pc' = [pc EXCEPT ![w] = "lookup"]
  /\ NoFault /\ UNCHANGED <<world, stored, index, last, seen, session, result, reply>>

\* get_by_source_url and the comparison of hashes; a text without chunks ends
\* here.
LookUp(w) ==
  /\ pc[w] = "lookup" /\ session[w] = "closed"
  /\ \/ /\ Publishable(text[w]) \/ stored[Source(w)] = text[w]
        /\ seen' = [seen EXCEPT ![w] = stored[Source(w)]]
        /\ pc' = [pc EXCEPT ![w] = "settle"]
        /\ UNCHANGED <<index, last, text, session, result, reply>>
     \/ /\ ~ Publishable(text[w]) /\ stored[Source(w)] # text[w]
        /\ Record(w, "empty") /\ Close(w)
  /\ NoFault /\ UNCHANGED <<world, stored>>

\* The session of an earlier COMMIT that raised was not closed.  It refuses
\* the first statement; the rollback that follows makes it usable again.
Spill(w) ==
  /\ pc[w] = "lookup" /\ session[w] = "stuck"
  /\ Record(w, "spill") /\ Close(w)
  /\ NoFault /\ UNCHANGED <<world, stored>>

Unchanged(w) ==
  /\ pc[w] = "settle"
  /\ seen[w] = text[w]
  /\ Record(w, "unchanged") /\ Close(w)
  /\ NoFault /\ UNCHANGED <<world, stored>>

\* A new document is created only if there is still none; an existing one is
\* replaced, also if another walk has replaced it meanwhile.
CanPublish(w) == seen[w] # text[w] /\ (seen[w] = NoText => stored[Source(w)] = NoText)
Publish(w) == stored' = [stored EXCEPT ![Source(w)] = text[w]]

Ingest(w) ==
  /\ pc[w] = "settle"
  /\ CanPublish(w) /\ Publish(w)
  /\ Record(w, "ingested") /\ Close(w)
  /\ NoFault /\ UNCHANGED world

\* IntegrityError: another walk has stored the source since the lookup.
Conflict(w) ==
  /\ pc[w] = "settle"
  /\ seen[w] # text[w] /\ stored[Source(w)] # seen[w]
  /\ Record(w, "error") /\ Close(w)
  /\ NoFault /\ UNCHANGED <<world, stored>>

Finish(w) ==
  /\ pc[w] = "entry" /\ index[w] > last[w]
  /\ LET ends == {result[w][e] : e \in Entries}
         codes ==
           CASE KindOf[w] = "http" -> {IF ends \subseteq Stored THEN "200" ELSE "500"}
             [] KindOf[w] = "all" -> {IF ends \subseteq Stored THEN "0" ELSE "1"}
             [] KindOf[w] = "one" ->
                  CASE ends \cap Stored # {} -> {"0"}
                    [] "unread" \in ends -> {"1", "2"}
                    [] "empty" \in ends -> {"1"}
                    [] OTHER -> {"3"}
     IN \E r \in codes : Leave(w, r)
  /\ NoFault /\ UNCHANGED <<world, stored, index, last, result>>

-----------------------------------------------------------------------------
\* What goes wrong.

\* The page cannot be fetched this time.
FetchFails(w) ==
  /\ pc[w] = "entry" /\ index[w] <= last[w]
  /\ manifest[index[w]] # Malformed
  /\ Record(w, "unread")
  /\ Fault /\ UNCHANGED <<world, stored, session>>

\* A statement or the embeddings API fails; the block rolls back and closes.
StatementFails(w) ==
  /\ pc[w] \in {"lookup", "settle"} /\ session[w] = "closed"
  /\ Record(w, "error") /\ Close(w)
  /\ Fault /\ UNCHANGED <<world, stored>>

\* The COMMIT in the finally raises, before or after the server did it: the
\* close that follows it is skipped.
CommitRaises(w) ==
  /\ pc[w] = "settle"
  /\ \/ CanPublish(w) /\ Publish(w)
     \/ UNCHANGED stored
  /\ Record(w, "broken")
  /\ session' = [session EXCEPT ![w] = "stuck"]
  /\ Fault /\ UNCHANGED world

\* The process dies, or the task is cancelled: the server rolls back.
Die(w) ==
  /\ Running(w)
  /\ Leave(w, "died")
  /\ result' = IF pc[w] = "entry" THEN result
               ELSE [result EXCEPT ![w][index[w]] = "error"]
  /\ NoFault /\ UNCHANGED <<world, stored, index, last>>

\* A file or a page changes.
Edit ==
  /\ \E e \in Entries, c \in Texts \cup {Unreadable} :
       content' = [content EXCEPT ![e] = c]
  /\ Fault
  /\ UNCHANGED <<manifest, stored, pc, index, last, text, seen, session, result, reply>>

Step(w) ==
  \/ Start(w) \/ Unloadable(w) \/ Skip(w) \/ Read(w)
  \/ LookUp(w) \/ Spill(w) \/ Unchanged(w) \/ Ingest(w) \/ Conflict(w)
  \/ Finish(w)

GoesWrong(w) == FetchFails(w) \/ StatementFails(w) \/ CommitRaises(w) \/ Die(w)

Terminated == (\A w \in Walks : pc[w] = "done") /\ UNCHANGED vars

Next == (\E w \in Walks : Step(w) \/ GoesWrong(w)) \/ Edit \/ Terminated

Spec == Init /\ [][Next]_vars

-----------------------------------------------------------------------------
\* Properties.

\* Every variable keeps the shape of the tables and of the walk's locals.
TypeOK ==
  /\ manifest \in Manifests
  /\ content \in [Entries -> Texts \cup {Unreadable}]
  /\ stored \in [Sources -> {c \in Texts : Publishable(c)} \cup {NoText}]
  /\ pc \in [Walks -> {"idle", "entry", "lookup", "settle", "done"}]
  /\ index \in [Walks -> 1 .. Size + 1]
  /\ last \in [Walks -> Entries]
  /\ text \in [Walks -> Texts \cup {NoText}]
  /\ seen \in [Walks -> Texts \cup {NoText}]
  /\ session \in [Walks -> {"closed", "stuck"}]
  /\ result \in [Walks -> [Entries -> Stored \cup Failed \cup {"pending"}]]
  /\ reply \in [Walks -> {"none", "200", "500", "0", "1", "2", "3", "died"}]
  /\ faults \in 0 .. MaxFaults
  /\ calm \in [Walks -> BOOLEAN]

\* A COMMIT that raises costs at most one more entry: one that fails on the
\* session left open comes after a broken one, and no entry in between has
\* reached the database.
SpillFollowsBrokenCommit ==
  \A w \in Walks, e \in Entries :
    result[w][e] = "spill" =>
      \E b \in 1 .. e - 1 :
        /\ result[w][b] = "broken"
        /\ \A i \in b + 1 .. e - 1 : result[w][i] \notin ReachedDatabase

\* A walk that nothing disturbs stores every entry that can be read and has
\* chunks, whatever earlier walks left behind, half done or failed; of several
\* entries for one source the last one counts.
CalmWalkStores ==
  \A w \in Walks :
    calm[w] /\ Running(w) =>
      \A e \in Entries :
        result[w][e] # "pending" =>
          /\ (result[w][e] \in Stored) = Publishable(content[e])
          /\ Publishable(content[e]) =>
               \/ stored[manifest[e]] = content[e]
               \/ \E later \in Entries :
                    /\ later > e
                    /\ manifest[later] = manifest[e]
                    /\ result[w][later] \in Stored

\* An entry that is counted as failed has changed nothing, unless it was the
\* confirmation of its COMMIT that got lost.
FailureLeavesStore ==
  [][\A w \in Walks, e \in Entries :
       result[w][e] = "pending" /\ result'[w][e] \in Failed \ {"broken"}
         => stored' = stored]_vars

\* "Partial failures still ingest the successful entries": no entry that could
\* be stored fails for what has befallen another entry.
OwnFaultOnly ==
  \A w \in Walks, e \in Entries : result[w][e] = "spill" => ~ Publishable(content[e])

\* Each entry is a call of the knowledge base.
EntryPhase == [t \in Walks \X Entries |->
  LET r == result[t[1]][t[2]]
      same == /\ pc[t[1]] = "settle"
              /\ index[t[1]] = t[2]
              /\ seen[t[1]] = text[t[1]]
  IN IF r = "pending" THEN IF same THEN "same" ELSE "pending"
     ELSE IF r \in Stored THEN r
     ELSE IF r \in {"unread", "empty"} THEN "failed" ELSE "error"]

\* What searches can hit.
Searchable == [u \in Sources |->
  {[order |-> i, text |-> stored[u]] :
     i \in IF stored[u] = NoText THEN {} ELSE 0 .. ChunkCount[stored[u]] - 1}]

KB == INSTANCE KnowledgeBase WITH
  Tasks <- Walks \X Entries, Urls <- Sources, kb <- Searchable, phase <- EntryPhase

\* A walk implements the knowledge base: one atomic effect per entry.
ImplementsKnowledgeBase == KB!Spec
=============================================================================

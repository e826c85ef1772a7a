---------------------------- MODULE KnowledgeBase ----------------------------
(***************************************************************************)
(* What ingestion promises to everyone who searches the knowledge base.    *)
(*                                                                         *)
(* A source is either absent or searchable as the complete chunking of one *)
(* text.  An ingest call has exactly one effect on it: nothing, or the     *)
(* replacement of the whole chunking in one step.  The reply tells which,  *)
(* except that "error" is also what the caller sees when the confirmation  *)
(* of a successful commit is lost.                                         *)
(***************************************************************************)
EXTENDS Naturals

CONSTANTS
  Tasks,       \* ingest calls
  Urls,        \* source_url values
  Texts,       \* cleaned document texts
  ChunkCount   \* how many chunks the chunker makes of a text

VARIABLES
  kb,          \* per source: the set of (order, text) chunks a search can hit
  phase        \* per call: "pending", "same", or the reply it ended with

kbVars == <<kb, phase>>

Replies == {"ingested", "unchanged", "failed", "error"}

\* The chunks a text is split into, each known by its position and its text.
Chunking(c) == {[order |-> i, text |-> c] : i \in 0 .. ChunkCount[c] - 1}

Init ==
  /\ kb \in [Urls -> {{}} \cup {Chunking(c) : c \in Texts}]
  /\ phase = [t \in Tasks |-> "pending"]

\* The whole chunking of a non-empty text becomes searchable at once.
Publish(t) ==
  /\ phase[t] = "pending"
  /\ \E u \in Urls, c \in Texts :
       /\ ChunkCount[c] > 0
       /\ kb' = [kb EXCEPT ![u] = Chunking(c)]
  /\ \E r \in {"ingested", "error"} : phase' = [phase EXCEPT ![t] = r]

\* The call finds some source holding a complete text already ...
FindSame(t) ==
  /\ phase[t] = "pending"
  /\ \E u \in Urls, c \in Texts : kb[u] = Chunking(c) /\ kb[u] # {}
  /\ phase' = [phase EXCEPT ![t] = "same"]
  /\ UNCHANGED kb

\* ... and only then may it answer "unchanged".
ReplySame(t) ==
  /\ phase[t] = "same"
  /\ phase' = [phase EXCEPT ![t] = "unchanged"]
  /\ UNCHANGED kb

\* A call that fails leaves the knowledge base as it was.
Fail(t) ==
  /\ phase[t] \in {"pending", "same"}
  /\ \E r \in {"failed", "error"} : phase' = [phase EXCEPT ![t] = r]
  /\ UNCHANGED kb

Next == \E t \in Tasks : Publish(t) \/ FindSame(t) \/ ReplySame(t) \/ Fail(t)

Spec == Init /\ [][Next]_kbVars
=============================================================================

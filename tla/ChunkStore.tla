----------------------------- MODULE ChunkStore -----------------------------
(***************************************************************************)
(* What re-embedding and ingestion together promise about the chunk rows.  *)
(*                                                                         *)
(* A document is at any moment the complete chunking of one version of its *)
(* text, and the vector of a chunk is the embedding of its own text.       *)
(* Ingestion replaces a document as a whole; re-embedding gives rows that  *)
(* exist a vector of the new model and does nothing else: no row comes     *)
(* back, none changes its text, none returns to the old model.             *)
(***************************************************************************)
EXTENDS Naturals

CONSTANTS
  Docs,        \* documents
  Ids,         \* primary keys of chunk rows
  Versions     \* versions of a document's text

VARIABLE store   \* per document: its chunk rows

Models == {"old", "new"}

\* A row is [id, text, vector]; no two chunks have the same text.
Text(d, v, k) == [doc |-> d, version |-> v, order |-> k]

Embedding(c, m) == [of |-> c, by |-> m]

Keys(rows) == {r.id : r \in rows}

\* The rows are chunks 0, 1, ... of version v of d, each with a key of its
\* own and the embedding of its text by model m.
IsChunking(rows, d, v, m) ==
  /\ \A r \in rows :
       /\ r.id \in Ids
       /\ r.text = Text(d, v, r.text.order)
       /\ r.vector = Embedding(r.text, m)
       /\ r.text.order \in Nat
       /\ \A k \in 0 .. r.text.order : \E s \in rows : s.text.order = k
  /\ \A r, s \in rows : r.id = s.id \/ r.text.order = s.text.order => r = s

Init ==
  /\ DOMAIN store = Docs
  /\ \A d \in Docs : \E v \in Versions : IsChunking(store[d], d, v, "old")

\* The rows of a document make way for those of another version of it, all
\* under keys that no row has.
Replace(d) ==
  /\ store' = [store EXCEPT ![d] = store'[d]]
  /\ \E v \in Versions, m \in Models : IsChunking(store'[d], d, v, m)
  /\ store'[d] # {}
  /\ \A e \in Docs : Keys(store'[d]) \cap Keys(store[e]) = {}

\* The rows with the keys S get the new model's embedding of their own text.
Refresh(S) ==
  store' = [d \in Docs |->
    {IF r.id \in S THEN [r EXCEPT !.vector = Embedding(r.text, "new")] ELSE r :
       r \in store[d]}]

Next ==
  \/ \E S \in SUBSET UNION {Keys(store[d]) : d \in Docs} : Refresh(S)
  \/ \E d \in Docs : Replace(d)

Spec == Init /\ [][Next]_store
=============================================================================

---------------------------- MODULE FeedbackBoard ----------------------------
(***************************************************************************)
(* What POST /v1/feedback promises: at most one rating per query, which is *)
(* the one recorded last, under the identity it was first recorded with.   *)
(* A call has one atomic effect or none; "failed" is also what the caller  *)
(* sees when the confirmation of a commit is lost.                         *)
(***************************************************************************)

CONSTANTS
  Calls,    \* feedback calls; each stands for the rating it posts
  Queries,  \* query_id values
  NoRow     \* no feedback on a query

VARIABLES
  known,    \* queries that exist
  board,    \* per query: the first and the latest call recorded, or NoRow
  target,   \* the query each call is about
  phase     \* per call: "pending", or the reply it ended with

boardVars == <<known, board, target, phase>>

Init ==
  /\ known \in SUBSET Queries
  /\ board = [q \in Queries |-> NoRow]
  /\ target \in [Calls -> Queries]
  /\ phase = [f \in Calls |-> "pending"]

End(f, r) == phase[f] = "pending" /\ phase' = [phase EXCEPT ![f] = r]

Record(f) ==
  LET q == target[f] IN
  /\ \E r \in {"204", "failed"} : End(f, r)
  /\ q \in known
  /\ board' = [board EXCEPT ![q] =
       [first |-> IF @ = NoRow THEN f ELSE @.first, latest |-> f]]
  /\ UNCHANGED <<known, target>>

\* A call is told that the query is unknown only if it is.
NotFound(f) ==
  /\ target[f] \notin known
  /\ End(f, "404")
  /\ UNCHANGED <<known, board, target>>

Fail(f) == End(f, "failed") /\ UNCHANGED <<known, board, target>>

\* An operator deletes a query; its feedback goes with it.
Purge(q) ==
  /\ known' = known \ {q}
  /\ board' = [board EXCEPT ![q] = NoRow]
  /\ UNCHANGED <<target, phase>>

Next == (\E f \in Calls : Record(f) \/ NotFound(f) \/ Fail(f)) \/ \E q \in Queries : Purge(q)

Spec == Init /\ [][Next]_boardVars
=============================================================================

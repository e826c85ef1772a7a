------------------------------ MODULE Feedback ------------------------------
(***************************************************************************)
(* Concurrent POST /v1/feedback handlers against the query_requests and    *)
(* feedback tables, while an operator deletes old queries, the only way in *)
(* which a query ever disappears.                                          *)
(*                                                                         *)
(* As in the other modules an await is a step and the tables hold what is  *)
(* committed.  A call stands for the rating and the reason it posts, and   *)
(* for the random id that it generates.  Validation changes no state.      *)
(***************************************************************************)
EXTENDS Naturals

CONSTANTS
  Calls,    \* POST /v1/feedback calls
  Queries,  \* query_id values
  NoRow     \* no feedback on a query

VARIABLES
  queries,  \* committed query_requests rows
  feedback, \* committed feedback row of each query
  purging,  \* query_requests rows deleted by a transaction not yet ended
  clock,    \* latest reading of the wall clock
  pc,       \* where each handler is
  target,   \* query_id that each call is about
  now,      \* the handler's reading of the clock
  reply     \* what the client got

vars == <<queries, feedback, purging, clock, pc, target, now, reply>>

Row == [id : Calls, rating : Calls, created_at : Nat \ {0}, updated_at : Nat \ {0}]

ASSUME FeedbackAssumption == NoRow \notin Row \cup [first : Calls, latest : Calls]

\* An upsert on q that has been executed and not committed: it holds the row
\* or, if there is none yet, the unique-index entry of q and a key-share lock
\* on the query_requests row.
Holds(g, q) == pc[g] = "commit" /\ target[g] = q

\* The rating on each query as the abstract specification sees it.
Shown == [q \in Queries |->
  IF feedback[q] = NoRow THEN NoRow
  ELSE [first |-> feedback[q].id, latest |-> feedback[q].rating]]

Phase == [f \in Calls |->
  IF pc[f] # "done" THEN "pending"
  ELSE IF reply[f] = "foreign_key" THEN "failed" ELSE reply[f]]

FB == INSTANCE FeedbackBoard WITH known <- queries, board <- Shown, phase <- Phase

-----------------------------------------------------------------------------

Init ==
  /\ queries \in SUBSET Queries
  /\ feedback = [q \in Queries |-> NoRow]
  /\ purging = {}
  /\ clock = 0
  /\ pc = [f \in Calls |-> "lookup"]
  /\ target \in [Calls -> Queries]
  /\ now = [f \in Calls |-> 0]
  /\ reply = [f \in Calls |-> "none"]

\* The handler is over and its session is released.
Leave(f, r) ==
  /\ pc' = [pc EXCEPT ![f] = "done"]
  /\ now' = [now EXCEPT ![f] = 0]
  /\ reply' = [reply EXCEPT ![f] = r]

-----------------------------------------------------------------------------
\* Plausible bugs, each in place of the definition it is named after when the
\* properties are put to the test.

\* The lookup takes a shared lock on what the upsert then locks exclusively.
HeldByOtherShared(f, q) == \E g \in Calls \ {f} : pc[g] \in {"upsert", "commit"} /\ target[g] = q

\* The clock is read once, when the module is loaded.
LookUpImportTime(f) ==
  /\ pc[f] = "lookup"
  /\ IF target[f] \in queries
       THEN /\ clock' = clock + 1
            /\ now' = [now EXCEPT ![f] = 1]
            /\ pc' = [pc EXCEPT ![f] = "upsert"]
            /\ UNCHANGED reply
       ELSE Leave(f, "404") /\ UNCHANGED clock
  /\ UNCHANGED <<queries, feedback, purging, target>>

\* feedback.query_id is not a foreign key: the lookup is all there is.
UpsertNoForeignKey(f) ==
  /\ pc[f] = "upsert"
  /\ pc' = [pc EXCEPT ![f] = "commit"]
  /\ UNCHANGED <<queries, feedback, purging, clock, target, now, reply>>

\* On a conflict the row is replaced as a whole.
CommitReplacesRow(f) ==
  /\ pc[f] = "commit"
  /\ feedback' = [feedback EXCEPT ![target[f]] =
       [id |-> f, rating |-> f, created_at |-> now[f], updated_at |-> now[f]]]
  /\ \E r \in {"204", "failed"} : Leave(f, r)
  /\ UNCHANGED <<queries, purging, clock, target>>

-----------------------------------------------------------------------------
\* The steps of a handler.

HeldByOther(f, q) == \E g \in Calls \ {f} : Holds(g, q)

\* SELECT the query; if it is there, read the clock and send the upsert.
LookUp(f) ==
  /\ pc[f] = "lookup"
  /\ IF target[f] \in queries
       THEN /\ clock' = clock + 1
            /\ now' = [now EXCEPT ![f] = clock + 1]
            /\ pc' = [pc EXCEPT ![f] = "upsert"]
            /\ UNCHANGED reply
       ELSE Leave(f, "404") /\ UNCHANGED clock
  /\ UNCHANGED <<queries, feedback, purging, target>>

\* INSERT ... ON CONFLICT (query_id) DO UPDATE.  It waits for other upserts
\* on the query.  An update does not look at the foreign key again; an insert
\* waits for whoever is deleting the query, and fails if it is gone.
Upsert(f) ==
  LET q == target[f] IN
  /\ pc[f] = "upsert"
  /\ ~ HeldByOther(f, q)
  /\ \/ /\ feedback[q] # NoRow \/ q \in queries \ purging
        /\ pc' = [pc EXCEPT ![f] = "commit"]
        /\ UNCHANGED <<now, reply>>
     \/ /\ feedback[q] = NoRow /\ q \notin queries
        /\ Leave(f, "foreign_key")                \* IntegrityError, a 500
  /\ UNCHANGED <<queries, feedback, purging, clock, target>>

\* A conflict keeps the id and created_at of the row.  The confirmation of
\* the COMMIT may be lost.
Commit(f) ==
  /\ pc[f] = "commit"
  /\ feedback' = [feedback EXCEPT ![target[f]] =
       IF @ = NoRow
         THEN [id |-> f, rating |-> f, created_at |-> now[f], updated_at |-> now[f]]
         ELSE [@ EXCEPT !.rating = f, !.updated_at = now[f]]]
  /\ \E r \in {"204", "failed"} : Leave(f, r)
  /\ UNCHANGED <<queries, purging, clock, target>>

\* A statement fails, the call is cancelled or the process dies.
Fail(f) ==
  /\ pc[f] # "done"
  /\ Leave(f, "failed")
  /\ UNCHANGED <<queries, feedback, purging, clock, target>>

\* The operator's DELETE FROM query_requests waits for inserts of feedback,
\* which hold the row with a key-share lock ...
StartPurge(q) ==
  /\ q \in queries \ purging
  /\ feedback[q] = NoRow => \A f \in Calls : ~ Holds(f, q)
  /\ purging' = purging \cup {q}
  /\ UNCHANGED <<queries, feedback, clock, pc, target, now, reply>>

\* ... its cascade waits for updates of the feedback; then it commits ...
FinishPurge(q) ==
  /\ q \in purging
  /\ \A f \in Calls : ~ Holds(f, q)
  /\ queries' = queries \ {q}
  /\ feedback' = [feedback EXCEPT ![q] = NoRow]
  /\ purging' = purging \ {q}
  /\ UNCHANGED <<clock, pc, target, now, reply>>

\* ... or is rolled back.
AbortPurge(q) ==
  /\ q \in purging
  /\ purging' = purging \ {q}
  /\ UNCHANGED <<queries, feedback, clock, pc, target, now, reply>>

Handle(f) == LookUp(f) \/ Upsert(f) \/ Commit(f)
EndPurge(q) == FinishPurge(q) \/ AbortPurge(q)

Terminated == (\A f \in Calls : pc[f] = "done") /\ queries = {} /\ UNCHANGED vars

Next ==
  \/ \E f \in Calls : Handle(f) \/ Fail(f)
  \/ \E q \in Queries : StartPurge(q) \/ EndPurge(q)
  \/ Terminated

Spec == Init /\ [][Next]_vars

\* Statements end, and Postgres queues those that wait for a lock, so that
\* even an operator who begins and cancels purges over and over starves
\* nobody: hence strong fairness of a handler.
FairSpec ==
  /\ Spec
  /\ \A f \in Calls : SF_vars(Handle(f))
  /\ \A q \in Queries : WF_vars(EndPurge(q))

-----------------------------------------------------------------------------
\* Properties.

\* Every variable keeps its shape; no time stamp of a row is missing.
TypeOK ==
  /\ queries \in SUBSET Queries
  /\ feedback \in [Queries -> Row \cup {NoRow}]
  /\ purging \in SUBSET Queries
  /\ clock \in Nat
  /\ pc \in [Calls -> {"lookup", "upsert", "commit", "done"}]
  /\ target \in [Calls -> Queries]
  /\ now \in [Calls -> Nat]
  /\ reply \in [Calls -> {"none", "204", "404", "foreign_key", "failed"}]

\* Feedback never outlives its query, however purges, lookups and upserts
\* interleave, and a purge never deletes under an upsert that is about to
\* commit.
NoOrphanFeedback ==
  /\ \A q \in Queries : feedback[q] # NoRow => q \in queries
  /\ \A f \in Calls : pc[f] = "commit" => target[f] \in queries

\* Every call gets its reply: handlers and purges that wait for each other's
\* locks never form a circle.
EveryPostAnswered == \A f \in Calls : <>(pc[f] = "done")

\* A post that begins when a rating is stored is dated after it, so only posts
\* that overlap can set updated_at back: the clock is read before the upsert
\* has its turn.
BackdatedOnlyByOverlap ==
  [][\A f \in Calls, q \in Queries :
       /\ pc[f] = "lookup" /\ pc'[f] = "upsert"
       /\ feedback[q] # NoRow
       => feedback[q].updated_at < now'[f]]_vars

\* Racing upserts and purges look like one write after the other: at most one
\* row per query, the last write wins, the first write's id stays.
ImplementsFeedbackBoard == FB!Spec
=============================================================================

--------------------------- MODULE Feedback_proofs ---------------------------
(***************************************************************************)
(* Proofs about Feedback, for any number of calls and queries: types, no   *)
(* feedback without its query, and the refinement of FeedbackBoard.        *)
(***************************************************************************)
EXTENDS Feedback, TLAPS

\* Whoever is past the lookup has read the clock.
Stamped == \A f \in Calls : pc[f] \in {"upsert", "commit"} => now[f] > 0

IInv == TypeOK /\ Stamped /\ NoOrphanFeedback

-----------------------------------------------------------------------------
\* Lemmas, one per step that does more than to move on.

\* A call that ends keeps the shape of its locals and leaves the others be.
LEMMA LeaveKeeps ==
  ASSUME TypeOK, Stamped, NEW f \in Calls,
         NEW r \in {"204", "404", "foreign_key", "failed"}, Leave(f, r)
  PROVE  /\ pc' \in [Calls -> {"lookup", "upsert", "commit", "done"}]
         /\ now' \in [Calls -> Nat]
         /\ reply' \in [Calls -> {"none", "204", "404", "foreign_key", "failed"}]
         /\ Stamped'
         /\ \A g \in Calls : pc'[g] = "commit" => pc[g] = "commit"
<1>1. /\ pc' \in [Calls -> {"lookup", "upsert", "commit", "done"}]
      /\ now' \in [Calls -> Nat]
      /\ reply' \in [Calls -> {"none", "204", "404", "foreign_key", "failed"}]
  BY DEF Leave, TypeOK
<1>2. \A g \in Calls :
        pc'[g] = (IF g = f THEN "done" ELSE pc[g]) /\ now'[g] = (IF g = f THEN 0 ELSE now[g])
  BY DEF Leave, TypeOK
<1> QED BY <1>1, <1>2 DEF Stamped

\* The lookup stamps whoever goes on with a reading above 0.
LEMMA LookUpKeeps ==
  ASSUME IInv, NEW f \in Calls, LookUp(f)
  PROVE  IInv'
<1>1. CASE target[f] \in queries
  <2>1. /\ clock' \in Nat
        /\ pc' \in [Calls -> {"lookup", "upsert", "commit", "done"}]
        /\ now' \in [Calls -> Nat]
    BY <1>1 DEF LookUp, IInv, TypeOK
  <2>2. \A g \in Calls :
          /\ pc'[g] = (IF g = f THEN "upsert" ELSE pc[g])
          /\ now'[g] = (IF g = f THEN clock + 1 ELSE now[g])
    BY <1>1 DEF LookUp, IInv, TypeOK
  <2>3. TypeOK'
    BY <1>1, <2>1 DEF LookUp, IInv, TypeOK
  <2>4. Stamped'
    BY <2>2 DEF IInv, Stamped, TypeOK
  <2>5. NoOrphanFeedback'
    BY <2>2 DEF LookUp, IInv, NoOrphanFeedback
  <2> QED BY <2>3, <2>4, <2>5 DEF IInv
<1>2. CASE target[f] \notin queries
  <2>1. Leave(f, "404") /\ UNCHANGED <<clock, queries, feedback, purging, target>>
    BY <1>2 DEF LookUp
  <2> QED BY <2>1, LeaveKeeps DEF IInv, TypeOK, NoOrphanFeedback
<1> QED BY <1>1, <1>2

\* An upsert that gets through has its query: there is feedback on it, or the
\* foreign key was looked at.
LEMMA UpsertKeeps ==
  ASSUME IInv, NEW f \in Calls, Upsert(f)
  PROVE  IInv'
<1>1. UNCHANGED <<queries, feedback, purging, clock, target>> /\ pc[f] = "upsert"
  BY DEF Upsert
<1>2. target[f] \in Queries
  BY DEF IInv, TypeOK
<1>3. CASE /\ feedback[target[f]] # NoRow \/ target[f] \in queries \ purging
           /\ pc' = [pc EXCEPT ![f] = "commit"]
           /\ UNCHANGED <<now, reply>>
  <2>1. target[f] \in queries
    BY <1>2, <1>3 DEF IInv, NoOrphanFeedback
  <2>2. \A g \in Calls : pc'[g] = (IF g = f THEN "commit" ELSE pc[g])
    BY <1>3 DEF IInv, TypeOK
  <2>3. TypeOK'
    BY <1>1, <1>3 DEF IInv, TypeOK
  <2>4. Stamped' /\ NoOrphanFeedback'
    BY <1>1, <1>3, <2>1, <2>2 DEF IInv, Stamped, NoOrphanFeedback
  <2> QED BY <2>3, <2>4 DEF IInv
<1>4. CASE Leave(f, "foreign_key")
  BY <1>1, <1>4, LeaveKeeps DEF IInv, TypeOK, NoOrphanFeedback
<1> QED BY <1>3, <1>4 DEF Upsert

\* What a commit writes is a row, with both time stamps.
LEMMA CommitWritesRow ==
  ASSUME IInv, NEW f \in Calls, Commit(f)
  PROVE  /\ feedback' \in [Queries -> Row \cup {NoRow}]
         /\ feedback'[target[f]] # NoRow
         /\ feedback'[target[f]].rating = f
         /\ feedback'[target[f]].id =
              IF feedback[target[f]] = NoRow THEN f ELSE feedback[target[f]].id
         /\ \A q \in Queries \ {target[f]} : feedback'[q] = feedback[q]
<1> DEFINE q == target[f]
           row == IF feedback[q] = NoRow
                    THEN [id |-> f, rating |-> f, created_at |-> now[f], updated_at |-> now[f]]
                    ELSE [feedback[q] EXCEPT !.rating = f, !.updated_at = now[f]]
<1>1. q \in Queries /\ now[f] \in Nat \ {0} /\ feedback[q] \in Row \cup {NoRow}
  BY DEF IInv, TypeOK, Stamped, Commit
<1>2. /\ row \in Row
      /\ row.rating = f
      /\ row.id = IF feedback[q] = NoRow THEN f ELSE feedback[q].id
  BY <1>1 DEF Row
<1>3. row # NoRow
  BY <1>2, FeedbackAssumption
<1>4. feedback' = [feedback EXCEPT ![q] = row]
  BY DEF Commit
<1> HIDE DEF row
<1> QED BY <1>1, <1>2, <1>3, <1>4 DEF IInv, TypeOK

\* Committing keeps the invariant.
LEMMA CommitKeeps ==
  ASSUME IInv, NEW f \in Calls, Commit(f)
  PROVE  IInv'
<1>1. PICK r \in {"204", "failed"} : Leave(f, r)
  BY DEF Commit
<1>2. UNCHANGED <<queries, purging, clock, target>> /\ pc[f] = "commit"
  BY DEF Commit
<1>3. TypeOK' /\ Stamped'
  BY <1>1, <1>2, LeaveKeeps, CommitWritesRow DEF IInv, TypeOK
<1>4. NoOrphanFeedback'
  BY <1>1, <1>2, LeaveKeeps, CommitWritesRow DEF IInv, NoOrphanFeedback
<1> QED BY <1>3, <1>4 DEF IInv

\* A purge takes the feedback along, and waits for whoever holds it.
LEMMA PurgeKeeps ==
  ASSUME IInv, NEW q \in Queries, StartPurge(q) \/ EndPurge(q)
  PROVE  IInv'
<1>1. CASE StartPurge(q)
  BY <1>1 DEF StartPurge, IInv, TypeOK, Stamped, NoOrphanFeedback
<1>2. CASE FinishPurge(q)
  <2>1. TypeOK' /\ Stamped'
    BY <1>2 DEF FinishPurge, IInv, TypeOK, Stamped
  <2>2. \A p \in Queries : feedback'[p] = IF p = q THEN NoRow ELSE feedback[p]
    BY <1>2 DEF FinishPurge, IInv, TypeOK
  <2>3. \A f \in Calls : pc[f] = "commit" => target[f] # q
    BY <1>2 DEF FinishPurge, Holds
  <2>4. NoOrphanFeedback'
    BY <1>2, <2>2, <2>3 DEF FinishPurge, IInv, NoOrphanFeedback
  <2> QED BY <2>1, <2>4 DEF IInv
<1>3. CASE AbortPurge(q)
  BY <1>3 DEF AbortPurge, IInv, TypeOK, Stamped, NoOrphanFeedback
<1> QED BY <1>1, <1>2, <1>3 DEF EndPurge

\* Every step keeps the invariant.
LEMMA StepKeeps ==
  ASSUME IInv, [Next]_vars
  PROVE  IInv'
<1>1. ASSUME NEW f \in Calls, Handle(f)
      PROVE  IInv'
  BY <1>1, LookUpKeeps, UpsertKeeps, CommitKeeps DEF Handle
<1>2. ASSUME NEW f \in Calls, Fail(f)
      PROVE  IInv'
  <2>1. Leave(f, "failed") /\ UNCHANGED <<queries, feedback, purging, clock, target>>
    BY <1>2 DEF Fail
  <2> QED BY <2>1, LeaveKeeps DEF IInv, TypeOK, NoOrphanFeedback
<1>3. ASSUME NEW q \in Queries, StartPurge(q) \/ EndPurge(q)
      PROVE  IInv'
  BY <1>3, PurgeKeeps
<1>4. CASE UNCHANGED vars
  BY <1>4 DEF vars, IInv, TypeOK, Stamped, NoOrphanFeedback
<1> QED BY <1>1, <1>2, <1>3, <1>4 DEF Next, Terminated

\* The inductive invariant holds throughout.
THEOREM InvariantHolds == Spec => []IInv
<1>1. Init => IInv
  BY DEF Init, IInv, TypeOK, Stamped, NoOrphanFeedback
<1> QED BY <1>1, StepKeeps, PTL DEF Spec

\* The tables and the handlers keep their shape, and no row of feedback is
\* without a time stamp.
THEOREM TypeCorrect == Spec => []TypeOK
BY InvariantHolds, PTL DEF IInv

\* Feedback never outlives its query, although the query may be deleted
\* between the lookup and the upsert.
THEOREM NoOrphans == Spec => []NoOrphanFeedback
BY InvariantHolds, PTL DEF IInv

-----------------------------------------------------------------------------
\* Time stamps.

\* No reading and no time stamp is ahead of the clock.
Dated ==
  /\ \A f \in Calls : now[f] <= clock
  /\ \A q \in Queries : feedback[q] # NoRow => feedback[q].updated_at <= clock

\* The clock only moves on, and what a commit writes was read from it before.
LEMMA StepKeepsDates ==
  ASSUME IInv, Dated, [Next]_vars
  PROVE  Dated'
<1>1. ASSUME NEW f \in Calls, NEW r \in {"204", "404", "foreign_key", "failed"},
             Leave(f, r), UNCHANGED <<feedback, clock>>
      PROVE  Dated'
  BY <1>1 DEF Leave, Dated, IInv, TypeOK
<1>2. ASSUME NEW f \in Calls, LookUp(f)
      PROVE  Dated'
  <2>1. CASE target[f] \in queries
    BY <1>2, <2>1 DEF LookUp, Dated, IInv, TypeOK, Row
  <2>2. CASE target[f] \notin queries
    BY <1>1, <1>2, <2>2 DEF LookUp
  <2> QED BY <2>1, <2>2
<1>3. ASSUME NEW f \in Calls, Upsert(f)
      PROVE  Dated'
  <2>1. CASE UNCHANGED <<now, feedback, clock>>
    BY <2>1 DEF Dated
  <2> QED BY <1>1, <1>3, <2>1 DEF Upsert
<1>4. ASSUME NEW f \in Calls, Commit(f)
      PROVE  Dated'
  <2>1. PICK r \in {"204", "failed"} : Leave(f, r)
    BY <1>4 DEF Commit
  <2>2. \A g \in Calls : now'[g] <= clock'
    BY <1>4, <2>1 DEF Commit, Leave, Dated, IInv, TypeOK
  <2>3. target[f] \in Queries /\ feedback[target[f]] \in Row \cup {NoRow} /\ now[f] <= clock
    BY <1>4 DEF Dated, IInv, TypeOK
  <2>4. feedback'[target[f]].updated_at = now[f]
    BY <1>4, <2>3 DEF Commit, Row, IInv, TypeOK
  <2>5. \A q \in Queries : feedback'[q] # NoRow => feedback'[q].updated_at <= clock'
    BY <1>4, <2>3, <2>4, CommitWritesRow DEF Commit, Dated
  <2> QED BY <2>2, <2>5 DEF Dated
<1>5. ASSUME NEW f \in Calls, Fail(f)
      PROVE  Dated'
  BY <1>1, <1>5 DEF Fail
<1>6. ASSUME NEW q \in Queries, StartPurge(q) \/ EndPurge(q)
      PROVE  Dated'
  BY <1>6 DEF StartPurge, EndPurge, FinishPurge, AbortPurge, Dated, IInv, TypeOK
<1>7. CASE UNCHANGED vars
  BY <1>7 DEF vars, Dated
<1> QED BY <1>2, <1>3, <1>4, <1>5, <1>6, <1>7 DEF Next, Handle, Terminated

\* A post that begins when a rating is stored reads a later time than the
\* rating's: only posts that overlap can set updated_at back.
THEOREM DatesFollowPosts == Spec => BackdatedOnlyByOverlap
<1>1. Init => Dated
  BY DEF Init, Dated
<1>2. ASSUME IInv, Dated, [Next]_vars
      PROVE  [\A f \in Calls, q \in Queries :
                /\ pc[f] = "lookup" /\ pc'[f] = "upsert"
                /\ feedback[q] # NoRow
                => feedback[q].updated_at < now'[f]]_vars
  <2>1. CASE UNCHANGED vars
    BY <2>1
  <2>2. CASE Next
    <3> SUFFICES ASSUME NEW f \in Calls, NEW q \in Queries,
                        pc[f] = "lookup", pc'[f] = "upsert", feedback[q] # NoRow
                 PROVE  feedback[q].updated_at < now'[f]
      OBVIOUS
    <3>1. ASSUME NEW g \in Calls, NEW r \in {"204", "404", "foreign_key", "failed"},
                 Leave(g, r)
          PROVE  FALSE
      BY <1>2, <3>1 DEF Leave, IInv, TypeOK
    <3>2. ASSUME NEW g \in Calls, Upsert(g) \/ Commit(g) \/ Fail(g)
          PROVE  FALSE
      BY <1>2, <3>1, <3>2 DEF Upsert, Commit, Fail, IInv, TypeOK
    <3>3. ASSUME NEW p \in Queries, StartPurge(p) \/ EndPurge(p)
          PROVE  FALSE
      BY <3>3 DEF StartPurge, EndPurge, FinishPurge, AbortPurge
    <3>4. PICK g \in Calls : LookUp(g)
      BY <2>2, <3>2, <3>3 DEF Next, Handle, Terminated, vars
    <3>5. g = f /\ now'[f] = clock + 1
      BY <1>2, <3>1, <3>4 DEF LookUp, IInv, TypeOK
    <3>6. feedback[q] \in Row /\ clock \in Nat
      BY <1>2 DEF IInv, TypeOK
    <3>7. feedback[q].updated_at \in Nat /\ feedback[q].updated_at <= clock
      BY <1>2, <3>6 DEF Dated, Row
    <3> QED BY <3>5, <3>6, <3>7
  <2> QED BY <1>2, <2>1, <2>2
<1> QED BY <1>1, <1>2, StepKeepsDates, InvariantHolds, PTL DEF Spec, BackdatedOnlyByOverlap

-----------------------------------------------------------------------------
\* Refinement.

\* A call that ends has ended for the abstract specification too.
LEMMA LeaveEnds ==
  ASSUME IInv, NEW f \in Calls, pc[f] # "done",
         NEW r \in {"204", "404", "foreign_key", "failed"}, Leave(f, r)
  PROVE  FB!End(f, IF r = "foreign_key" THEN "failed" ELSE r)
<1>1. \A g \in Calls :
        /\ pc'[g] = (IF g = f THEN "done" ELSE pc[g])
        /\ reply'[g] = (IF g = f THEN r ELSE reply[g])
  BY DEF Leave, IInv, TypeOK
<1>2. Phase[f] = "pending"
  BY DEF Phase
<1>3. \A g \in Calls \ {f} : Phase'[g] = Phase[g]
  BY <1>1 DEF Phase
<1>4. Phase'[f] = IF r = "foreign_key" THEN "failed" ELSE r
  BY <1>1 DEF Phase
<1>5. Phase' = [Phase EXCEPT ![f] = IF r = "foreign_key" THEN "failed" ELSE r]
  BY <1>3, <1>4 DEF Phase
<1> QED BY <1>2, <1>5 DEF FB!End

\* There is a rating to be seen just where there is a row.
LEMMA ShownIsNoRow ==
  ASSUME TypeOK, NEW q \in Queries
  PROVE  Shown[q] = NoRow <=> feedback[q] = NoRow
<1>1. CASE feedback[q] = NoRow
  BY <1>1 DEF Shown
<1>2. CASE feedback[q] # NoRow
  <2>1. feedback[q] \in Row
    BY <1>2 DEF TypeOK
  <2>2. Shown[q] \in [first : Calls, latest : Calls]
    BY <1>2, <2>1 DEF Shown, Row
  <2> QED BY <1>2, <2>2, FeedbackAssumption
<1> QED BY <1>1, <1>2

\* A commit records the call: it replaces the rating and keeps the identity.
LEMMA CommitRecords ==
  ASSUME IInv, NEW f \in Calls, Commit(f)
  PROVE  FB!Record(f)
<1> DEFINE q == target[f]
<1>1. PICK r \in {"204", "failed"} : Leave(f, r)
  BY DEF Commit
<1>2. pc[f] = "commit" /\ queries' = queries /\ target' = target
  BY DEF Commit
<1>3. FB!End(f, r)
  BY <1>1, <1>2, LeaveEnds
<1>4. q \in queries /\ q \in Queries
  BY <1>2 DEF IInv, TypeOK, NoOrphanFeedback
<1>5. \A p \in Queries \ {q} : Shown'[p] = Shown[p]
  BY CommitWritesRow DEF Shown
<1>6. Shown'[q] = [first |-> IF feedback[q] = NoRow THEN f ELSE feedback[q].id, latest |-> f]
  BY <1>4, CommitWritesRow DEF Shown
<1>7. Shown[q] = NoRow <=> feedback[q] = NoRow
  BY <1>4, ShownIsNoRow DEF IInv
<1>8. Shown[q] # NoRow => Shown[q].first = feedback[q].id
  BY <1>4, <1>7 DEF Shown
<1>9. Shown' = [Shown EXCEPT ![q] =
        [first |-> IF @ = NoRow THEN f ELSE @.first, latest |-> f]]
  <2> DEFINE row == [first |-> IF Shown[q] = NoRow THEN f ELSE Shown[q].first, latest |-> f]
  <2>1. Shown'[q] = row
    BY <1>6, <1>7, <1>8
  <2> HIDE DEF row
  <2>2. Shown' = [p \in Queries |-> IF p = q THEN row ELSE Shown[p]]
    <3>1. DOMAIN Shown' = Queries /\ Shown' = [p \in Queries |-> Shown'[p]]
      BY DEF Shown
    <3> QED BY <1>4, <1>5, <2>1, <3>1
  <2>3. DOMAIN Shown = Queries /\ Shown = [p \in Queries |-> Shown[p]]
    BY DEF Shown
  <2>4. Shown' = [Shown EXCEPT ![q] = row]
    BY <2>2, <2>3
  <2> QED BY <2>4 DEF row
<1> QED BY <1>2, <1>3, <1>4, <1>9 DEF FB!Record

\* A purge that commits is the abstract one.
LEMMA FinishPurges ==
  ASSUME IInv, NEW q \in Queries, FinishPurge(q)
  PROVE  FB!Purge(q)
<1>1. \A p \in Queries : feedback'[p] = IF p = q THEN NoRow ELSE feedback[p]
  BY DEF FinishPurge, IInv, TypeOK
<1>2. Shown' = [Shown EXCEPT ![q] = NoRow]
  BY <1>1 DEF Shown
<1>3. Phase' = Phase
  BY DEF FinishPurge, Phase
<1> QED BY <1>2, <1>3 DEF FB!Purge, FinishPurge

\* Each step of a handler is an abstract step or none.
LEMMA HandlerRefines ==
  ASSUME IInv, NEW f \in Calls, Handle(f) \/ Fail(f)
  PROVE  [FB!Next]_(FB!boardVars)
<1>1. ASSUME NEW r \in {"404", "foreign_key", "failed"}, Leave(f, r), pc[f] # "done",
             UNCHANGED <<queries, feedback, target>>,
             r = "404" => target[f] \notin queries
      PROVE  FB!Next
  <2>1. FB!End(f, IF r = "foreign_key" THEN "failed" ELSE r)
    BY <1>1, LeaveEnds
  <2>2. Shown' = Shown
    BY <1>1 DEF Shown
  <2>3. FB!NotFound(f) \/ FB!Fail(f)
    BY <1>1, <2>1, <2>2 DEF FB!NotFound, FB!Fail
  <2> QED BY <2>3 DEF FB!Next
<1>2. ASSUME NEW next \in {"upsert", "commit"}, pc' = [pc EXCEPT ![f] = next], pc[f] # "done",
             UNCHANGED <<queries, feedback, target, reply>>
      PROVE  UNCHANGED FB!boardVars
  <2>1. \A g \in Calls : pc'[g] = "done" <=> pc[g] = "done"
    BY <1>2 DEF IInv, TypeOK
  <2>2. Phase' = Phase /\ Shown' = Shown
    BY <1>2, <2>1 DEF Phase, Shown
  <2> QED BY <1>2, <2>2 DEF FB!boardVars
<1>3. CASE LookUp(f)
  BY <1>1, <1>2, <1>3 DEF LookUp
<1>4. CASE Upsert(f)
  BY <1>1, <1>2, <1>4 DEF Upsert
<1>5. CASE Commit(f)
  BY <1>5, CommitRecords DEF FB!Next
<1>6. CASE Fail(f)
  BY <1>1, <1>6 DEF Fail
<1> QED BY <1>3, <1>4, <1>5, <1>6 DEF Handle

\* Handlers and purges implement the board: racing upserts look like one
\* write after the other, the last of which wins, and a purge is atomic.
THEOREM Refinement == Spec => ImplementsFeedbackBoard
<1>1. Init => FB!Init
  BY DEF Init, FB!Init, Shown, Phase
<1>2. IInv /\ [Next]_vars => [FB!Next]_(FB!boardVars)
  <2> SUFFICES ASSUME IInv, [Next]_vars
               PROVE  [FB!Next]_(FB!boardVars)
    OBVIOUS
  <2>1. ASSUME NEW f \in Calls, Handle(f) \/ Fail(f)
        PROVE  [FB!Next]_(FB!boardVars)
    BY <2>1, HandlerRefines
  <2>2. ASSUME NEW q \in Queries, FinishPurge(q)
        PROVE  FB!Next
    BY <2>2, FinishPurges DEF FB!Next
  <2>3. ASSUME NEW q \in Queries, StartPurge(q) \/ AbortPurge(q)
        PROVE  UNCHANGED FB!boardVars
    BY <2>3 DEF StartPurge, AbortPurge, FB!boardVars, Shown, Phase
  <2>4. CASE UNCHANGED vars
    BY <2>4 DEF vars, FB!boardVars, Shown, Phase
  <2> QED BY <2>1, <2>2, <2>3, <2>4 DEF Next, EndPurge, Terminated
<1> QED BY <1>1, <1>2, InvariantHolds, PTL DEF Spec, ImplementsFeedbackBoard, FB!Spec
=============================================================================

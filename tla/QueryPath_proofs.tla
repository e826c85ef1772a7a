-------------------------- MODULE QueryPath_proofs --------------------------
(***************************************************************************)
(* What every interleaving of POST /v1/query handlers keeps to, for any    *)
(* number of requests, sessions and limits: what is stored, what sessions  *)
(* and conversations see of each other, how far overlapping calls exceed   *)
(* the limits, and that a client that continues a conversation finds in    *)
(* the history what it was told.                                           *)
(***************************************************************************)
EXTENDS QueryPath, FiniteSetTheorems, WellFoundedInduction, TLAPS

\* From the commit of the request row to the reply.
Stored == {"history", "retrieve", "answer", "respond"}

\* How far a handler has got tells which rows it has stored and what it has
\* decided.
StageFacts ==
  \A r \in Requests :
    /\ pc[r] \in Stored => r \in requests
    /\ r \in requests => pc[r] \in Stored \cup {"done"}
    /\ responses[r] # "none" => pc[r] = "done"
    /\ pc[r] = "respond" => outcome[r] # "none"
    /\ pc[r] # "done" => reply[r] = NoReply
    /\ r \in requests \/ pc[r] \in {"insert", "commit_request"} => conv[r] \in Requests

\* A conversation is used by the session only that it was minted for.
MintedBySession ==
  \A q, r \in Requests : conv[q] = r => SessionOf[q] = SessionOf[r]

IInv ==
  /\ TypeOK
  /\ StageFacts
  /\ MintedBySession
  /\ NoTransactionAcrossCalls
  /\ HistoryIsOwnAndComplete
  /\ ReplyTellsWhatIsStored
  /\ DanglingOnlyAfterFailure

\* The two replies the handlers are left with before a response is stored.
LEMMA RepliesTyped ==
  /\ NoReply \in Replies
  /\ \A code \in {"429_session", "429_conversation", "failed"} : Refusal(code) \in Replies
  BY DEF NoReply, Refusal, Replies, Conversations

\* A handler that is left without having stored a response: what it answers
\* is no status of a stored response, and an error if the request is stored.
LEMMA LeaveInv ==
  ASSUME IInv, NEW r \in Requests, NEW answer \in Replies,
         pc[r] \in InFlight, Leave(r, answer), UNCHANGED <<tables, times, sent, conv>>,
         answer.status \notin Persisted,
         r \in requests => answer.status = "failed"
  PROVE  IInv'
<1> USE DEF Leave, Goto, ReleaseSession, tables, times
<1>1. TypeOK'
  BY DEF IInv, TypeOK
<1>2. StageFacts'
  BY DEF IInv, TypeOK, StageFacts, Stored, InFlight, Admitted
<1>3. MintedBySession'
  BY DEF IInv, MintedBySession
<1>4. NoTransactionAcrossCalls'
  BY DEF IInv, TypeOK, NoTransactionAcrossCalls
<1>5. HistoryIsOwnAndComplete'
  BY DEF IInv, TypeOK, HistoryIsOwnAndComplete
<1>6. ReplyTellsWhatIsStored'
  BY DEF IInv, TypeOK, ReplyTellsWhatIsStored
<1>7. DanglingOnlyAfterFailure'
  BY DEF IInv, TypeOK, DanglingOnlyAfterFailure
<1> QED BY <1>1, <1>2, <1>3, <1>4, <1>5, <1>6, <1>7 DEF IInv

\* A handler that goes on from one check to the next.
LEMMA ContinueInv ==
  ASSUME IInv, NEW r \in Requests, NEW label \in {"turn_limit", "gate", "resolve"},
         pc[r] \in {"session_limit", "turn_limit", "gate"},
         Continue(r, label), txn' = [txn EXCEPT ![r] = txn'[r]], txn'[r] \in BOOLEAN,
         UNCHANGED <<tables, times, sent, conv>>
  PROVE  IInv'
<1> USE DEF Continue, Goto, tables, times, locals
<1>1. TypeOK'
  BY DEF IInv, TypeOK, InFlight, Admitted
<1>2. StageFacts'
  BY DEF IInv, TypeOK, StageFacts, Stored
<1>3. MintedBySession'
  BY DEF IInv, MintedBySession
<1>4. NoTransactionAcrossCalls'
  BY DEF IInv, TypeOK, NoTransactionAcrossCalls
<1>5. HistoryIsOwnAndComplete'
  BY DEF IInv, HistoryIsOwnAndComplete
<1>6. ReplyTellsWhatIsStored'
  BY DEF IInv, ReplyTellsWhatIsStored
<1>7. DanglingOnlyAfterFailure'
  BY DEF IInv, TypeOK, StageFacts, Stored, DanglingOnlyAfterFailure
<1> QED BY <1>1, <1>2, <1>3, <1>4, <1>5, <1>6, <1>7 DEF IInv

\* The session limit's verdict: on to the next check, or a 429.
LEMMA CheckSessionRateLimitInv ==
  ASSUME IInv, NEW r \in Requests, CheckSessionRateLimit(r)
  PROVE  IInv'
<1>1. pc[r] = "session_limit" /\ r \notin requests
  BY DEF CheckSessionRateLimit, IInv, StageFacts, Stored
<1>2. CASE Leave(r, Refusal("429_session"))
  BY <1>1, <1>2, LeaveInv, RepliesTyped
  DEF CheckSessionRateLimit, InFlight, Refusal, Persisted
<1>3. CASE Continue(r, "turn_limit") /\ OpenTransaction(r)
  BY <1>1, <1>3, ContinueInv DEF CheckSessionRateLimit, OpenTransaction, IInv, TypeOK
<1> QED BY <1>2, <1>3 DEF CheckSessionRateLimit

\* The turn limit's verdict: on to the gate, or a 429.
LEMMA CheckConversationTurnLimitInv ==
  ASSUME IInv, NEW r \in Requests, CheckConversationTurnLimit(r)
  PROVE  IInv'
<1>1. pc[r] = "turn_limit" /\ r \notin requests
  BY DEF CheckConversationTurnLimit, IInv, StageFacts, Stored
<1>2. CASE Leave(r, Refusal("429_conversation"))
  BY <1>1, <1>2, LeaveInv, RepliesTyped
  DEF CheckConversationTurnLimit, InFlight, Admitted, Refusal, Persisted
<1>3. CASE Continue(r, "gate") /\ UNCHANGED txn
  BY <1>1, <1>3, ContinueInv DEF CheckConversationTurnLimit, IInv, TypeOK
<1> QED BY <1>2, <1>3 DEF CheckConversationTurnLimit

\* The gate's verdict: on to the conversation, or a refusal.
LEMMA CheckInputInv ==
  ASSUME IInv, NEW r \in Requests, CheckInput(r)
  PROVE  IInv'
<1> DEFINE refused == [status |-> "refused", conversation |-> sent[r]]
<1>1. pc[r] = "gate" /\ r \notin requests
  BY DEF CheckInput, IInv, StageFacts, Stored
<1>2. refused \in Replies /\ refused.status \notin Persisted
  BY DEF Replies, Persisted, IInv, TypeOK
<1>3. CASE Leave(r, refused)
  BY <1>1, <1>2, <1>3, LeaveInv DEF CheckInput, InFlight, Admitted
<1>4. CASE Continue(r, "resolve") /\ UNCHANGED txn
  BY <1>1, <1>4, ContinueInv DEF CheckInput, IInv, TypeOK
<1> QED BY <1>3, <1>4 DEF CheckInput

\* A failed handler leaves what it has stored and says so.
LEMMA FailInv ==
  ASSUME IInv, NEW r \in Requests, Fail(r)
  PROVE  IInv'
  BY LeaveInv, RepliesTyped DEF Fail, Refusal, Persisted

\* A call starts from values that were sent to a client before.
LEMMA AskInv ==
  ASSUME IInv, NEW r \in Requests, Ask(r)
  PROVE  IInv'
<1> USE DEF Ask, Goto, tables, times, locals
<1>1. TypeOK'
  BY DEF IInv, TypeOK, InFlight, Replied, Replies, Conversations
<1>2. StageFacts'
  BY DEF IInv, TypeOK, StageFacts, Stored
<1>3. MintedBySession'
  BY DEF IInv, TypeOK, MintedBySession
<1>4. NoTransactionAcrossCalls'
  BY DEF IInv, TypeOK, NoTransactionAcrossCalls
<1>5. HistoryIsOwnAndComplete'
  BY DEF IInv, TypeOK, HistoryIsOwnAndComplete
<1>6. ReplyTellsWhatIsStored'
  BY DEF IInv, TypeOK, StageFacts, Stored, NoReply, Persisted, ReplyTellsWhatIsStored
<1>7. DanglingOnlyAfterFailure'
  BY DEF IInv, TypeOK, StageFacts, Stored, DanglingOnlyAfterFailure
<1> QED BY <1>1, <1>2, <1>3, <1>4, <1>5, <1>6, <1>7 DEF IInv

\* The conversation is one the session has a row in, or a fresh one.
LEMMA ResolveConversationIdInv ==
  ASSUME IInv, NEW r \in Requests, ResolveConversationId(r)
  PROVE  IInv'
<1> USE DEF ResolveConversationId, Continue, Goto, tables, times, locals
<1>1. TypeOK'
  BY DEF IInv, TypeOK, InFlight, Admitted, Conversations
<1>2. StageFacts'
  <2>1. conv'[r] \in Requests
    BY DEF IInv, TypeOK, StageFacts, Belongs, SessionRows
  <2>2. \A q \in Requests \ {r} : conv'[q] = conv[q] /\ pc'[q] = pc[q]
    BY DEF IInv, TypeOK
  <2>3. r \notin requests /\ pc'[r] = "insert"
    BY DEF IInv, TypeOK, StageFacts, Stored
  <2> QED BY <2>1, <2>2, <2>3 DEF IInv, TypeOK, StageFacts, Stored
<1>3. MintedBySession'
  <2> SUFFICES ASSUME NEW q \in Requests, NEW p \in Requests, conv'[q] = p
               PROVE  SessionOf[q] = SessionOf[p]
    BY DEF MintedBySession
  <2>1. CASE q # r
    BY <2>1 DEF IInv, TypeOK, MintedBySession
  <2>2. CASE q = r /\ conv'[r] = r
    BY <2>2
  <2>3. CASE q = r /\ conv'[r] # r
    <3>1. conv'[r] = sent[r] /\ Belongs(SessionOf[r], sent[r])
      BY <2>3 DEF IInv, TypeOK
    <3>2. PICK x \in requests : SessionOf[x] = SessionOf[r] /\ conv[x] = p
      BY <2>3, <3>1 DEF Belongs, SessionRows
    <3> QED BY <2>3, <3>2 DEF IInv, TypeOK, MintedBySession
  <2> QED BY <2>1, <2>2, <2>3
<1>4. NoTransactionAcrossCalls'
  BY DEF IInv, TypeOK, NoTransactionAcrossCalls
<1>5. HistoryIsOwnAndComplete'
  BY DEF IInv, TypeOK, HistoryIsOwnAndComplete
<1>6. ReplyTellsWhatIsStored'
  BY DEF IInv, TypeOK, StageFacts, NoReply, Persisted, ReplyTellsWhatIsStored
<1>7. DanglingOnlyAfterFailure'
  BY DEF IInv, TypeOK, StageFacts, Stored, DanglingOnlyAfterFailure
<1> QED BY <1>1, <1>2, <1>3, <1>4, <1>5, <1>6, <1>7 DEF IInv

\* The flushed row is not yet visible to others.
LEMMA InsertRequestInv ==
  ASSUME IInv, NEW r \in Requests, InsertRequest(r)
  PROVE  IInv'
<1> USE DEF InsertRequest, Continue, Goto, tables, times, locals
<1>1. TypeOK'
  BY DEF IInv, TypeOK, InFlight, Admitted
<1>2. StageFacts'
  BY DEF IInv, TypeOK, StageFacts, Stored
<1>3. MintedBySession'
  BY DEF IInv, TypeOK, MintedBySession
<1>4. NoTransactionAcrossCalls'
  BY DEF IInv, TypeOK, NoTransactionAcrossCalls
<1>5. HistoryIsOwnAndComplete'
  BY DEF IInv, TypeOK, HistoryIsOwnAndComplete
<1>6. ReplyTellsWhatIsStored'
  BY DEF IInv, TypeOK, StageFacts, Stored, NoReply, Persisted, ReplyTellsWhatIsStored
<1>7. DanglingOnlyAfterFailure'
  BY DEF IInv, TypeOK, StageFacts, Stored, DanglingOnlyAfterFailure
<1> QED BY <1>1, <1>2, <1>3, <1>4, <1>5, <1>6, <1>7 DEF IInv

\* The request row becomes durable, whether or not its handler lives on.
LEMMA CommitRequestInv ==
  ASSUME IInv, NEW r \in Requests, CommitRequest(r)
  PROVE  IInv'
<1> USE DEF CommitRequest, Continue, Leave, Goto, ReleaseSession, tables, times, locals
<1>1. TypeOK'
  <2>1. Refusal("failed") \in Replies
    BY RepliesTyped
  <2>2. reply' \in [Requests -> Replies]
    BY <2>1 DEF IInv, TypeOK
  <2>3. pc' \in [Requests -> InFlight \cup {"idle", "done"}]
    BY DEF IInv, TypeOK, InFlight
  <2>4. requests' \subseteq Requests
    BY DEF IInv, TypeOK
  <2> QED BY <2>2, <2>3, <2>4 DEF IInv, TypeOK
<1>2. StageFacts'
  BY DEF IInv, TypeOK, StageFacts, Stored, Refusal
<1>3. MintedBySession'
  BY DEF IInv, TypeOK, MintedBySession
<1>4. NoTransactionAcrossCalls'
  BY DEF IInv, TypeOK, NoTransactionAcrossCalls
<1>5. HistoryIsOwnAndComplete'
  BY DEF IInv, TypeOK, HistoryIsOwnAndComplete
<1>6. ReplyTellsWhatIsStored'
  BY DEF IInv, TypeOK, StageFacts, NoReply, Persisted, Refusal, ReplyTellsWhatIsStored
<1>7. DanglingOnlyAfterFailure'
  BY DEF IInv, TypeOK, StageFacts, Stored, Refusal, DanglingOnlyAfterFailure
<1> QED BY <1>1, <1>2, <1>3, <1>4, <1>5, <1>6, <1>7 DEF IInv

\* The history is read from completed turns of the session.
LEMMA FetchHistoryInv ==
  ASSUME IInv, NEW r \in Requests, FetchHistory(r)
  PROVE  IInv'
<1> USE DEF FetchHistory, Goto, ReleaseSession, tables, times, locals
<1>1. TypeOK'
  BY DEF IInv, TypeOK, InFlight, RecentTurns, SessionRows
<1>2. StageFacts'
  BY DEF IInv, TypeOK, StageFacts, Stored
<1>3. MintedBySession'
  BY DEF IInv, TypeOK, MintedBySession
<1>4. NoTransactionAcrossCalls'
  BY DEF IInv, TypeOK, NoTransactionAcrossCalls
<1>5. HistoryIsOwnAndComplete'
  <2>1. \A q \in RecentTurns(SessionOf[r], conv[r]) :
          q \in requests /\ responses[q] # "none" /\ SessionOf[q] = SessionOf[r]
    BY DEF RecentTurns, SessionRows
  <2>2. history'[r] = RecentTurns(SessionOf[r], conv[r])
        /\ \A q \in Requests \ {r} : history'[q] = history[q]
    BY DEF IInv, TypeOK
  <2> QED BY <2>1, <2>2 DEF IInv, HistoryIsOwnAndComplete
<1>6. ReplyTellsWhatIsStored'
  BY DEF IInv, TypeOK, StageFacts, Stored, NoReply, Persisted, ReplyTellsWhatIsStored
<1>7. DanglingOnlyAfterFailure'
  BY DEF IInv, TypeOK, StageFacts, Stored, DanglingOnlyAfterFailure
<1> QED BY <1>1, <1>2, <1>3, <1>4, <1>5, <1>6, <1>7 DEF IInv

\* The retrieval decides nothing but the handler's next step.
LEMMA RetrieveInv ==
  ASSUME IInv, NEW r \in Requests, Retrieve(r)
  PROVE  IInv'
<1> USE DEF Retrieve, Continue, Conclude, Goto, ReleaseSession, tables, times, locals
<1>1. TypeOK'
  BY DEF IInv, TypeOK, InFlight, Admitted, InternalStatus
<1>2. StageFacts'
  BY DEF IInv, TypeOK, StageFacts, Stored
<1>3. MintedBySession'
  BY DEF IInv, TypeOK, MintedBySession
<1>4. NoTransactionAcrossCalls'
  BY DEF IInv, TypeOK, NoTransactionAcrossCalls
<1>5. HistoryIsOwnAndComplete'
  BY DEF IInv, TypeOK, HistoryIsOwnAndComplete
<1>6. ReplyTellsWhatIsStored'
  BY DEF IInv, TypeOK, StageFacts, Stored, NoReply, Persisted, ReplyTellsWhatIsStored
<1>7. DanglingOnlyAfterFailure'
  BY DEF IInv, TypeOK, StageFacts, Stored, DanglingOnlyAfterFailure
<1> QED BY <1>1, <1>2, <1>3, <1>4, <1>5, <1>6, <1>7 DEF IInv

\* The model's answer becomes the outcome to store.
LEMMA GenerateAnswerInv ==
  ASSUME IInv, NEW r \in Requests, GenerateAnswer(r)
  PROVE  IInv'
<1> USE DEF GenerateAnswer, Conclude, Goto, tables, times, locals
<1>1. TypeOK'
  BY DEF IInv, TypeOK, InFlight, Admitted, InternalStatus
<1>2. StageFacts'
  BY DEF IInv, TypeOK, StageFacts, Stored
<1>3. MintedBySession'
  BY DEF IInv, TypeOK, MintedBySession
<1>4. NoTransactionAcrossCalls'
  BY DEF IInv, TypeOK, NoTransactionAcrossCalls
<1>5. HistoryIsOwnAndComplete'
  BY DEF IInv, TypeOK, HistoryIsOwnAndComplete
<1>6. ReplyTellsWhatIsStored'
  BY DEF IInv, TypeOK, StageFacts, Stored, NoReply, Persisted, ReplyTellsWhatIsStored
<1>7. DanglingOnlyAfterFailure'
  BY DEF IInv, TypeOK, StageFacts, Stored, DanglingOnlyAfterFailure
<1> QED BY <1>1, <1>2, <1>3, <1>4, <1>5, <1>6, <1>7 DEF IInv

\* The response row becomes durable before the client is told of it.
LEMMA RespondInv ==
  ASSUME IInv, NEW r \in Requests, Respond(r)
  PROVE  IInv'
<1> USE DEF Respond, Leave, Goto, ReleaseSession, tables, times, locals
<1>1. TypeOK'
  <2> DEFINE answer == [status |-> ClientStatus(outcome[r]), conversation |-> conv[r]]
  <2>1. answer \in Replies
    BY DEF IInv, TypeOK, Replies, ClientStatus, Persisted
  <2>2. reply' \in [Requests -> Replies]
    BY <2>1, RepliesTyped DEF IInv, TypeOK
  <2> HIDE DEF answer
  <2> QED BY <2>2 DEF IInv, TypeOK
<1>2. StageFacts'
  BY DEF IInv, TypeOK, StageFacts, Stored
<1>3. MintedBySession'
  BY DEF IInv, TypeOK, MintedBySession
<1>4. NoTransactionAcrossCalls'
  BY DEF IInv, TypeOK, NoTransactionAcrossCalls
<1>5. HistoryIsOwnAndComplete'
  <2>1. outcome[r] # "none"
    BY DEF IInv, StageFacts
  <2>2. \A q \in Requests : responses[q] # "none" => responses'[q] # "none"
    BY <2>1 DEF IInv, TypeOK
  <2>3. \A q \in Requests : history'[q] \subseteq history[q] /\ history[q] \subseteq Requests
    BY DEF IInv, TypeOK
  <2> QED BY <2>2, <2>3 DEF IInv, HistoryIsOwnAndComplete
<1>6. ReplyTellsWhatIsStored'
  <2> SUFFICES ASSUME NEW q \in Requests
               PROVE  /\ reply'[q].status \in Persisted =>
                           /\ q \in requests
                           /\ responses'[q] # "none"
                           /\ reply'[q].status = ClientStatus(responses'[q])
                           /\ reply'[q].conversation = conv[q]
                      /\ reply'[q].status \in {"refused", "429_session", "429_conversation"}
                           => q \notin requests
    BY DEF ReplyTellsWhatIsStored
  <2>1. CASE q # r
    BY <2>1 DEF IInv, TypeOK, ReplyTellsWhatIsStored
  <2>2. CASE q = r
    <3>1. responses'[r] = outcome[r] /\ outcome[r] # "none" /\ r \in requests
      BY DEF IInv, TypeOK, StageFacts, Stored
    <3>2. CASE reply'[r] = [status |-> ClientStatus(outcome[r]), conversation |-> conv[r]]
      BY <2>2, <3>1, <3>2 DEF ClientStatus
    <3>3. CASE reply'[r] = Refusal("failed")
      BY <2>2, <3>1, <3>3 DEF Refusal, Persisted
    <3> QED BY <3>2, <3>3 DEF IInv, TypeOK
  <2> QED BY <2>1, <2>2
<1>7. DanglingOnlyAfterFailure'
  BY DEF IInv, TypeOK, StageFacts, DanglingOnlyAfterFailure
<1> QED BY <1>1, <1>2, <1>3, <1>4, <1>5, <1>6, <1>7 DEF IInv

\* The passing of time changes no row and no handler.
LEMMA HourPassesInv ==
  ASSUME IInv, HourPasses
  PROVE  IInv'
  BY DEF HourPasses, tables, locals, IInv, TypeOK, StageFacts, MintedBySession,
         NoTransactionAcrossCalls, HistoryIsOwnAndComplete, ReplyTellsWhatIsStored,
         DanglingOnlyAfterFailure

\* A stuttering step keeps the invariant.
LEMMA StutterInv ==
  ASSUME IInv, UNCHANGED vars
  PROVE  IInv'
  BY DEF vars, IInv, TypeOK, StageFacts, MintedBySession, NoTransactionAcrossCalls,
         HistoryIsOwnAndComplete, ReplyTellsWhatIsStored, DanglingOnlyAfterFailure

\* The invariant holds in the initial state.
LEMMA InitInv ==
  ASSUME Init
  PROVE  IInv
<1> USE DEF Init
<1>1. TypeOK
  BY RepliesTyped DEF TypeOK, Conversations
<1>2. StageFacts
  BY DEF StageFacts, Stored
<1>3. MintedBySession
  BY QueryAssumption DEF MintedBySession
<1>4. NoTransactionAcrossCalls /\ HistoryIsOwnAndComplete /\ DanglingOnlyAfterFailure
  BY DEF NoTransactionAcrossCalls, HistoryIsOwnAndComplete, DanglingOnlyAfterFailure
<1>5. ReplyTellsWhatIsStored
  BY DEF ReplyTellsWhatIsStored, NoReply, Persisted
<1> QED BY <1>1, <1>2, <1>3, <1>4, <1>5 DEF IInv

\* The inductive invariant holds of every reachable state.
THEOREM InvariantHolds == Spec => []IInv
<1>1. Init => IInv
  BY InitInv
<1>2. IInv /\ [Next]_vars => IInv'
  <2> SUFFICES ASSUME IInv, [Next]_vars PROVE IInv'
    OBVIOUS
  <2>1. ASSUME NEW r \in Requests, Ask(r) \/ Handle(r) \/ Fail(r)
        PROVE  IInv'
    BY <2>1, AskInv, CheckSessionRateLimitInv, CheckConversationTurnLimitInv, CheckInputInv,
       ResolveConversationIdInv, InsertRequestInv, CommitRequestInv, FetchHistoryInv,
       RetrieveInv, GenerateAnswerInv, RespondInv, FailInv
    DEF Handle
  <2>2. CASE HourPasses
    BY <2>2, HourPassesInv
  <2>3. CASE UNCHANGED vars
    BY <2>3, StutterInv
  <2> QED BY <2>1, <2>2, <2>3 DEF Next, Terminated
<1> QED BY <1>1, <1>2, PTL DEF Spec

\* Type correctness of the query tables and the handlers.
THEOREM TypeCorrect == Spec => []TypeOK
<1>1. IInv => TypeOK
  BY DEF IInv
<1> QED BY <1>1, InvariantHolds, PTL

\* No interleaving of checks and commits stores a conversation_id for two
\* sessions.
THEOREM ConversationsAreSeparate == Spec => []ConversationHasOneSession
<1>1. IInv => ConversationHasOneSession
  BY DEF IInv, TypeOK, StageFacts, MintedBySession, ConversationHasOneSession
<1> QED BY <1>1, InvariantHolds, PTL

\* No transaction spans the embeddings call, the answering call or the end of
\* the request.
THEOREM SessionsAreReleased == Spec => []NoTransactionAcrossCalls
<1>1. IInv => NoTransactionAcrossCalls
  BY DEF IInv
<1> QED BY <1>1, InvariantHolds, PTL

\* The model is shown turns of the asking session only, each completed.
THEOREM HistoryIsPrivate == Spec => []HistoryIsOwnAndComplete
<1>1. IInv => HistoryIsOwnAndComplete
  BY DEF IInv
<1> QED BY <1>1, InvariantHolds, PTL

\* A client is told of nothing that is not stored, and of all that is.
THEOREM RepliesAreTrue == Spec => []ReplyTellsWhatIsStored
<1>1. IInv => ReplyTellsWhatIsStored
  BY DEF IInv
<1> QED BY <1>1, InvariantHolds, PTL

\* A question that stays without a response belongs to a request that failed:
\* every other way out of the handler stores one.
THEOREM NoSilentLoss == Spec => []DanglingOnlyAfterFailure
<1>1. IInv => DanglingOnlyAfterFailure
  BY DEF IInv
<1> QED BY <1>1, InvariantHolds, PTL

-----------------------------------------------------------------------------
\* How far the session limit can be overshot.  An admission is counted from
\* the verdict of the check to the commit of the row, and from then on the row
\* is; the check lets a call pass only while the rows alone are below the limit.

InFlightOf(s) == {r \in Requests : pc[r] \in InFlight /\ SessionOf[r] = s}
AdmittedOf(s) == {r \in Requests : pc[r] \in Admitted /\ SessionOf[r] = s}

BoundOf(s) ==
  /\ Cardinality(InFlightOf(s)) <= MaxInFlight
  /\ Cardinality(RecentRows(s)) + Cardinality(AdmittedOf(s)) <= SessionLimit + MaxInFlight - 1

\* The three sets are finite, now and after any step.
LEMMA Counted ==
  ASSUME NEW S \in SUBSET Requests
  PROVE  IsFiniteSet(S) /\ Cardinality(S) \in Nat
  BY QueryAssumption, FS_Subset, FS_CardinalityType

\* A subset of requests has no more elements than the set it is taken from.
LEMMA Fewer ==
  ASSUME NEW S \in SUBSET Requests, NEW R \in SUBSET S
  PROVE  Cardinality(R) <= Cardinality(S)
  BY Counted, FS_Subset

\* A new element adds one.
LEMMA AddOne ==
  ASSUME NEW S \in SUBSET Requests, NEW r \in Requests, r \notin S
  PROVE  Cardinality(S \cup {r}) = Cardinality(S) + 1
  BY Counted, FS_AddElement

\* An element taken away leaves one less.
LEMMA RemoveOne ==
  ASSUME NEW S \in SUBSET Requests, NEW r \in S
  PROVE  Cardinality(S \ {r}) = Cardinality(S) - 1
  BY Counted, FS_RemoveElement

\* The calls and the rows of a session are requests.
LEMMA BoundSets ==
  ASSUME TypeOK, NEW s
  PROVE  /\ InFlightOf(s) \in SUBSET Requests
         /\ AdmittedOf(s) \in SUBSET InFlightOf(s)
         /\ RecentRows(s) \in SUBSET Requests
  BY DEF TypeOK, InFlightOf, AdmittedOf, InFlight, RecentRows, SessionRows

\* Steps that only take calls and rows away keep the bound.
LEMMA ShrinkKeepsBound ==
  ASSUME TypeOK, TypeOK', NEW s, BoundOf(s),
         InFlightOf(s)' \subseteq InFlightOf(s),
         AdmittedOf(s)' \subseteq AdmittedOf(s),
         RecentRows(s)' \subseteq RecentRows(s)
  PROVE  BoundOf(s)'
<1> DEFINE f == InFlightOf(s)   f1 == InFlightOf(s)'
           a == AdmittedOf(s)   a1 == AdmittedOf(s)'
           w == RecentRows(s)   w1 == RecentRows(s)'
<1>1. f \in SUBSET Requests /\ a \in SUBSET Requests /\ w \in SUBSET Requests
  BY BoundSets
<1>2. Cardinality(f) <= MaxInFlight
      /\ Cardinality(w) + Cardinality(a) <= SessionLimit + MaxInFlight - 1
  BY DEF BoundOf
<1> HIDE DEF f, f1, a, a1, w, w1
<1>3. f1 \in SUBSET f /\ a1 \in SUBSET a /\ w1 \in SUBSET w
  BY DEF f, f1, a, a1, w, w1
<1>4. /\ Cardinality(f1) <= Cardinality(f)
      /\ Cardinality(a1) <= Cardinality(a)
      /\ Cardinality(w1) <= Cardinality(w)
  BY <1>1, <1>3, Fewer
<1>5. /\ Cardinality(f) \in Nat /\ Cardinality(a) \in Nat /\ Cardinality(w) \in Nat
      /\ Cardinality(f1) \in Nat /\ Cardinality(a1) \in Nat /\ Cardinality(w1) \in Nat
  BY <1>1, <1>3, Counted
<1>6. Cardinality(f1) <= MaxInFlight
      /\ Cardinality(w1) + Cardinality(a1) <= SessionLimit + MaxInFlight - 1
  BY <1>2, <1>4, <1>5, QueryAssumption
<1> QED BY <1>6 DEF BoundOf, f1, a1, w1

\* A client opens a call only while fewer than MaxInFlight of its session run.
LEMMA AskKeepsBound ==
  ASSUME IInv, TypeOK', NEW r \in Requests, Ask(r), NEW s, BoundOf(s)
  PROVE  BoundOf(s)'
<1>1. AdmittedOf(s)' \subseteq AdmittedOf(s) /\ RecentRows(s)' = RecentRows(s)
  BY DEF Ask, Goto, tables, times, AdmittedOf, Admitted, RecentRows, SessionRows, IInv, TypeOK
<1>2. CASE SessionOf[r] # s
  <2>1. InFlightOf(s)' \subseteq InFlightOf(s)
    BY <1>2 DEF Ask, Goto, InFlightOf, IInv, TypeOK
  <2> QED BY <1>1, <2>1, ShrinkKeepsBound DEF IInv
<1>3. CASE SessionOf[r] = s
  <2> DEFINE f == InFlightOf(s)   f1 == InFlightOf(s)'
  <2>1. f1 = f \cup {r} /\ r \notin f /\ f \in SUBSET Requests
    BY <1>3 DEF Ask, Goto, InFlightOf, InFlight, Admitted, IInv, TypeOK
  <2>2. Cardinality(f) < MaxInFlight
    BY <1>3 DEF Ask, InFlightOf
  <2> HIDE DEF f, f1
  <2>3. Cardinality(f1) = Cardinality(f) + 1 /\ Cardinality(f) \in Nat
    BY <2>1, AddOne, Counted
  <2>4. Cardinality(f1) <= MaxInFlight
    BY <2>2, <2>3, QueryAssumption
  <2>5. AdmittedOf(s)' = AdmittedOf(s)
    BY DEF Ask, Goto, AdmittedOf, Admitted, IInv, TypeOK
  <2> QED BY <1>1, <2>4, <2>5 DEF BoundOf, f1
<1> QED BY <1>2, <1>3

\* The check lets a call pass when the rows are below the limit: the calls
\* that passed before it are fewer than those that overlap.
LEMMA CheckKeepsBound ==
  ASSUME IInv, TypeOK', NEW r \in Requests, CheckSessionRateLimit(r), NEW s, BoundOf(s)
  PROVE  BoundOf(s)'
<1>1. InFlightOf(s)' \subseteq InFlightOf(s) /\ RecentRows(s)' = RecentRows(s)
  BY DEF CheckSessionRateLimit, Leave, Continue, Goto, tables, times, InFlightOf, InFlight,
         Admitted, RecentRows, SessionRows, IInv, TypeOK
<1>2. CASE SessionOf[r] # s \/ pc'[r] = "done"
  <2>1. AdmittedOf(s)' \subseteq AdmittedOf(s)
    BY <1>2 DEF CheckSessionRateLimit, Leave, Continue, Goto, AdmittedOf, Admitted, IInv, TypeOK
  <2> QED BY <1>1, <2>1, ShrinkKeepsBound DEF IInv
<1>3. CASE SessionOf[r] = s /\ pc'[r] # "done"
  <2> DEFINE f == InFlightOf(s)   f1 == InFlightOf(s)'
             a1 == AdmittedOf(s)'
             w == RecentRows(s)   w1 == RecentRows(s)'
  <2>1. ~ (Cardinality(w) >= SessionLimit)
    BY <1>3 DEF CheckSessionRateLimit, Leave, Goto, IInv, TypeOK
  <2>2. a1 \in SUBSET f1 /\ f1 \in SUBSET f /\ f \in SUBSET Requests
        /\ w \in SUBSET Requests /\ w1 = w
    BY <1>1, BoundSets DEF IInv, AdmittedOf, InFlightOf, InFlight
  <2>3. Cardinality(f) <= MaxInFlight
    BY DEF BoundOf
  <2> HIDE DEF f, f1, a1, w, w1
  <2>4. /\ Cardinality(a1) <= Cardinality(f1) /\ Cardinality(f1) <= Cardinality(f)
        /\ Cardinality(f) \in Nat /\ Cardinality(f1) \in Nat
        /\ Cardinality(a1) \in Nat /\ Cardinality(w) \in Nat
    BY <2>2, Fewer, Counted
  <2>5. Cardinality(f1) <= MaxInFlight
        /\ Cardinality(w1) + Cardinality(a1) <= SessionLimit + MaxInFlight - 1
    BY <2>1, <2>2, <2>3, <2>4, QueryAssumption
  <2> QED BY <2>5 DEF BoundOf, f1, a1, w1
<1> QED BY <1>2, <1>3

\* The commit turns an admitted call into a row.
LEMMA CommitKeepsBound ==
  ASSUME IInv, TypeOK', NEW r \in Requests, CommitRequest(r), NEW s, BoundOf(s)
  PROVE  BoundOf(s)'
<1>1. InFlightOf(s)' \subseteq InFlightOf(s)
  BY DEF CommitRequest, Leave, Continue, Goto, InFlightOf, InFlight, Admitted, IInv, TypeOK
<1>2. CASE SessionOf[r] # s
  <2>1. AdmittedOf(s)' \subseteq AdmittedOf(s) /\ RecentRows(s)' = RecentRows(s)
    BY <1>2 DEF CommitRequest, Leave, Continue, Goto, times, AdmittedOf, Admitted,
                RecentRows, SessionRows, IInv, TypeOK
  <2> QED BY <1>1, <2>1, ShrinkKeepsBound DEF IInv
<1>3. CASE SessionOf[r] = s
  <2> DEFINE f == InFlightOf(s)   f1 == InFlightOf(s)'
             a == AdmittedOf(s)   a1 == AdmittedOf(s)'
             w == RecentRows(s)   w1 == RecentRows(s)'
  <2>1. a1 = a \ {r} /\ r \in a
    BY <1>3 DEF CommitRequest, Leave, Continue, Goto, AdmittedOf, Admitted, IInv, TypeOK
  <2>2. w1 \in SUBSET (w \cup {r}) /\ r \notin w
    BY DEF CommitRequest, times, RecentRows, SessionRows, IInv, StageFacts, Stored
  <2>3. f \in SUBSET Requests /\ a \in SUBSET Requests /\ w \in SUBSET Requests
    BY BoundSets DEF IInv
  <2>4. Cardinality(f) <= MaxInFlight
        /\ Cardinality(w) + Cardinality(a) <= SessionLimit + MaxInFlight - 1
    BY DEF BoundOf
  <2>5. f1 \in SUBSET f
    BY <1>1
  <2> HIDE DEF f, f1, a, a1, w, w1
  <2>6. Cardinality(a1) = Cardinality(a) - 1 /\ Cardinality(a) \in Nat /\ Cardinality(a1) \in Nat
    BY <2>1, <2>3, RemoveOne, Counted
  <2>7. Cardinality(w1) <= Cardinality(w) + 1 /\ Cardinality(w) \in Nat /\ Cardinality(w1) \in Nat
    <3>1. w \cup {r} \in SUBSET Requests
      BY <2>3
    <3>2. Cardinality(w1) <= Cardinality(w \cup {r}) /\ w1 \in SUBSET Requests
      BY <2>2, <3>1, Fewer
    <3> QED BY <2>2, <2>3, <3>2, AddOne, Counted
  <2>8. Cardinality(f1) <= Cardinality(f) /\ Cardinality(f) \in Nat /\ Cardinality(f1) \in Nat
    BY <2>3, <2>5, Fewer, Counted
  <2>9. Cardinality(f1) <= MaxInFlight
        /\ Cardinality(w1) + Cardinality(a1) <= SessionLimit + MaxInFlight - 1
    BY <2>4, <2>6, <2>7, <2>8, QueryAssumption
  <2> QED BY <2>9 DEF BoundOf, f1, a1, w1
<1> QED BY <1>2, <1>3

\* No other step of a handler adds a call or a row that counts.
LEMMA OthersShrink ==
  ASSUME IInv, NEW r \in Requests, NEW s,
         \/ CheckConversationTurnLimit(r) \/ CheckInput(r) \/ ResolveConversationId(r)
         \/ InsertRequest(r) \/ FetchHistory(r) \/ Retrieve(r) \/ GenerateAnswer(r)
         \/ Respond(r) \/ Fail(r)
  PROVE  /\ InFlightOf(s)' \subseteq InFlightOf(s)
         /\ AdmittedOf(s)' \subseteq AdmittedOf(s)
         /\ RecentRows(s)' \subseteq RecentRows(s)
<1>1. \A q \in Requests : pc'[q] \in InFlight => pc[q] \in InFlight
  BY DEF CheckConversationTurnLimit, CheckInput, ResolveConversationId, InsertRequest, FetchHistory,
         Retrieve, GenerateAnswer, Respond, Fail, Conclude, Leave, Continue, Goto, InFlight, Admitted,
         IInv, TypeOK
<1>2. \A q \in Requests : pc'[q] \in Admitted => pc[q] \in Admitted
  BY DEF CheckConversationTurnLimit, CheckInput, ResolveConversationId, InsertRequest, FetchHistory,
         Retrieve, GenerateAnswer, Respond, Fail, Conclude, Leave, Continue, Goto, InFlight, Admitted,
         IInv, TypeOK
<1>3. requests' = requests /\ horizon' = horizon
  BY DEF CheckConversationTurnLimit, CheckInput, ResolveConversationId, InsertRequest, FetchHistory,
         Retrieve, GenerateAnswer, Respond, Fail, tables, times
<1>4. \A q \in requests : created'[q] = created[q]
  <2>1. CASE InsertRequest(r)
    BY <2>1 DEF InsertRequest, IInv, TypeOK, StageFacts, Stored
  <2>2. CASE ~ InsertRequest(r)
    BY <2>2 DEF CheckConversationTurnLimit, CheckInput, ResolveConversationId, FetchHistory,
                Retrieve, GenerateAnswer, Respond, Fail, times
  <2> QED BY <2>1, <2>2
<1> QED BY <1>1, <1>2, <1>3, <1>4 DEF InFlightOf, AdmittedOf, RecentRows, SessionRows

Bound == \A s \in Sessions : BoundOf(s)

\* Calls in flight are bounded, and admissions with rows are.
THEOREM BoundHolds == Spec => []Bound
<1>1. Init => Bound
  <2> SUFFICES ASSUME Init, NEW s \in Sessions
               PROVE  BoundOf(s)
    BY DEF Bound
  <2>1. InFlightOf(s) = {} /\ AdmittedOf(s) = {} /\ RecentRows(s) = {}
    BY DEF Init, InFlightOf, AdmittedOf, InFlight, Admitted, RecentRows, SessionRows
  <2> QED BY <2>1, FS_EmptySet, QueryAssumption DEF BoundOf
<1>2. IInv /\ IInv' /\ Bound /\ [Next]_vars => Bound'
  <2> SUFFICES ASSUME IInv, IInv', Bound, [Next]_vars, NEW s \in Sessions
               PROVE  BoundOf(s)'
    BY DEF Bound
  <2>1. BoundOf(s) /\ TypeOK /\ TypeOK'
    BY DEF IInv, Bound
  <2>2. ASSUME NEW r \in Requests, Ask(r) \/ Handle(r) \/ Fail(r)
        PROVE  BoundOf(s)'
    BY <2>1, <2>2, AskKeepsBound, CheckKeepsBound, CommitKeepsBound, OthersShrink, ShrinkKeepsBound
    DEF Handle
  <2>3. CASE HourPasses
    <3>1. InFlightOf(s)' = InFlightOf(s) /\ AdmittedOf(s)' = AdmittedOf(s)
      BY <2>3 DEF HourPasses, InFlightOf, AdmittedOf
    <3>2. RecentRows(s)' \subseteq RecentRows(s)
      BY <2>1, <2>3 DEF HourPasses, tables, RecentRows, SessionRows, TypeOK
    <3> QED BY <2>1, <3>1, <3>2, ShrinkKeepsBound
  <2>4. CASE UNCHANGED vars
    BY <2>1, <2>4 DEF vars, BoundOf, InFlightOf, AdmittedOf, RecentRows, SessionRows
  <2> QED BY <2>2, <2>3, <2>4 DEF Next, Terminated
<1> QED BY <1>1, <1>2, InvariantHolds, PTL DEF Spec

\* The rows of a session within an hour exceed the limit by no more than the
\* calls that overlap, however their checks and commits interleave.
THEOREM LimitOvershoot == Spec => []OvershootBounded
<1>1. Bound => OvershootBounded
  BY DEF Bound, BoundOf, AdmittedOf, OvershootBounded
<1> QED BY <1>1, BoundHolds, PTL

-----------------------------------------------------------------------------
\* The newest k of a set of rows.

\* A set of numbers has a smallest one.
LEMMA SmallestNumber ==
  ASSUME NEW S, S \subseteq Nat, S # {}
  PROVE  \E i \in S : \A j \in S : i <= j
<1>1. PICK i \in S : \A j \in S : ~ (<<j, i>> \in OpToRel(<, Nat))
  BY NatLessThanWellFounded, WFMin
<1>2. \A j \in S : ~ (j < i)
  BY <1>1 DEF OpToRel
<1> QED BY <1>2

Newer(C, age, q) == {p \in C : age[p] > age[q]}
Newest(C, age, k) == {q \in C : Cardinality(Newer(C, age, q)) < k}

\* Of two rows, what is newer than the newer one is newer than the other, too.
LEMMA NewerShrinks ==
  ASSUME NEW C \in SUBSET Requests, NEW age \in [Requests -> Nat],
         NEW p \in C, NEW q \in C, age[p] <= age[q]
  PROVE  Cardinality(Newer(C, age, q)) <= Cardinality(Newer(C, age, p))
<1>1. Newer(C, age, q) \subseteq Newer(C, age, p)
  BY DEF Newer
<1>2. Newer(C, age, p) \in SUBSET Requests /\ Newer(C, age, q) \in SUBSET Newer(C, age, p)
  BY <1>1 DEF Newer
<1> QED BY <1>2, Fewer

\* ... and the newer one itself makes one more.
LEMMA NewerCounts ==
  ASSUME NEW C \in SUBSET Requests, NEW age \in [Requests -> Nat],
         NEW p \in C, NEW q \in C, age[p] < age[q]
  PROVE  Cardinality(Newer(C, age, q)) < Cardinality(Newer(C, age, p))
<1> DEFINE N == Newer(C, age, q)   M == Newer(C, age, p)
<1>1. q \notin N /\ N \in SUBSET Requests /\ M \in SUBSET Requests /\ N \cup {q} \in SUBSET M
  BY DEF Newer
<1> HIDE DEF N, M
<1>2. Cardinality(N \cup {q}) = Cardinality(N) + 1 /\ Cardinality(N \cup {q}) <= Cardinality(M)
  BY <1>1, AddOne, Fewer
<1>3. Cardinality(N) \in Nat /\ Cardinality(M) \in Nat
  BY <1>1, Counted
<1> QED BY <1>2, <1>3 DEF N, M

\* A set of rows that is not empty has a newest one.
LEMMA HasNewest ==
  ASSUME NEW C \in SUBSET Requests, NEW age \in [Requests -> Nat],
         NEW R \in SUBSET C, R # {}
  PROVE  \E m \in R : \A q \in R : age[q] <= age[m]
<1> DEFINE Ranks == {Cardinality(Newer(C, age, q)) : q \in R}
<1>1. \A q \in R : Cardinality(Newer(C, age, q)) \in Nat
  <2> TAKE q \in R
  <2>1. Newer(C, age, q) \in SUBSET Requests
    BY DEF Newer
  <2> QED BY <2>1, Counted
<1>2. PICK i \in Ranks : \A j \in Ranks : i <= j
  <2>1. Ranks \subseteq Nat /\ Ranks # {}
    BY <1>1
  <2> HIDE DEF Ranks
  <2> QED BY <2>1, SmallestNumber
<1>3. PICK m \in R : i = Cardinality(Newer(C, age, m))
  BY <1>2
<1>4. \A q \in R : age[q] <= age[m]
  <2> SUFFICES ASSUME NEW q \in R, age[m] < age[q] PROVE FALSE
    OBVIOUS
  <2>1. Cardinality(Newer(C, age, q)) < Cardinality(Newer(C, age, m))
    BY NewerCounts
  <2> QED BY <1>1, <1>2, <1>3, <2>1
<1> QED BY <1>4

\* One more of the newest is one more row.
LEMMA NextNewest ==
  ASSUME NEW C \in SUBSET Requests, NEW age \in [Requests -> Nat],
         \A p, q \in C : age[p] = age[q] => p = q,
         NEW k \in Nat, k < Cardinality(C), Cardinality(Newest(C, age, k)) = k
  PROVE  Cardinality(Newest(C, age, k + 1)) = k + 1
<1> DEFINE T == Newest(C, age, k)
<1>1. T \in SUBSET C /\ T \in SUBSET Requests
  BY DEF Newest
<1>2. C \ T # {}
  <2> SUFFICES ASSUME C \ T = {} PROVE FALSE
    OBVIOUS
  <2>1. T = C
    BY <1>1
  <2> QED BY <2>1, Counted
<1>3. PICK m \in C \ T : \A q \in C \ T : age[q] <= age[m]
  BY <1>2, HasNewest, C \ T \in SUBSET C
<1>4. \A q \in C : Cardinality(Newer(C, age, q)) \in Nat
  <2> TAKE q \in C
  <2>1. Newer(C, age, q) \in SUBSET Requests
    BY DEF Newer
  <2> QED BY <2>1, Counted
<1>5. Newer(C, age, m) = T
  <2>1. ASSUME NEW t \in T PROVE t \in Newer(C, age, m)
    <3> SUFFICES ASSUME ~ (age[t] > age[m]) PROVE FALSE
      BY <1>1 DEF Newer
    <3>1. age[t] <= age[m]
      BY <1>1
    <3>2. Cardinality(Newer(C, age, m)) <= Cardinality(Newer(C, age, t))
      BY <1>1, <3>1, NewerShrinks
    <3>3. Cardinality(Newer(C, age, t)) < k /\ ~ (Cardinality(Newer(C, age, m)) < k)
      BY <1>3 DEF Newest
    <3> QED BY <1>1, <1>4, <3>2, <3>3
  <2>2. ASSUME NEW t \in Newer(C, age, m) PROVE t \in T
    <3>1. t \in C /\ age[t] > age[m]
      BY DEF Newer
    <3> QED BY <1>3, <3>1
  <2> QED BY <2>1, <2>2
<1>6. Newest(C, age, k + 1) = T \cup {m}
  <2>1. ASSUME NEW q \in T PROVE q \in Newest(C, age, k + 1)
    BY <1>4 DEF Newest
  <2>2. m \in Newest(C, age, k + 1)
    BY <1>3, <1>5 DEF Newest
  <2>3. ASSUME NEW q \in Newest(C, age, k + 1), q \notin T PROVE q = m
    <3>1. q \in C \ T /\ Cardinality(Newer(C, age, q)) < k + 1
      BY <2>3 DEF Newest
    <3>2. age[q] <= age[m]
      BY <1>3, <3>1
    <3>3. CASE age[q] < age[m]
      <4>1. Cardinality(Newer(C, age, m)) < Cardinality(Newer(C, age, q))
        BY <1>3, <3>1, <3>3, NewerCounts
      <4> QED BY <1>4, <1>5, <3>1, <4>1
    <3>4. CASE age[q] = age[m]
      BY <1>3, <3>1, <3>4
    <3> QED BY <3>1, <3>2, <3>3, <3>4
  <2> QED BY <2>1, <2>2, <2>3
<1>7. m \notin T /\ m \in Requests
  BY <1>3
<1> HIDE DEF T
<1> QED BY <1>1, <1>6, <1>7, AddOne DEF T

\* The newest k of at least k rows, no two of one age, are k rows: that the
\* limit of the query is used up whenever it leaves a row out.
LEMMA NewestCounted ==
  ASSUME NEW C \in SUBSET Requests, NEW age \in [Requests -> Nat],
         \A p, q \in C : age[p] = age[q] => p = q,
         NEW k \in Nat, k <= Cardinality(C)
  PROVE  Cardinality(Newest(C, age, k)) = k
<1> DEFINE Bad == {n \in Nat : n <= Cardinality(C) /\ Cardinality(Newest(C, age, n)) # n}
<1>0. Cardinality(C) \in Nat
  BY Counted
<1>1. SUFFICES ASSUME Bad # {} PROVE FALSE
  OBVIOUS
<1>2. PICK n \in Bad : \A j \in Bad : n <= j
  BY <1>1, SmallestNumber, Bad \subseteq Nat
<1>3. n # 0
  <2>1. Newest(C, age, 0) = {}
    <3> SUFFICES ASSUME NEW q \in C PROVE ~ (Cardinality(Newer(C, age, q)) < 0)
      BY DEF Newest
    <3>1. Newer(C, age, q) \in SUBSET Requests
      BY DEF Newer
    <3> QED BY <3>1, Counted
  <2> QED BY <1>2, <2>1, FS_EmptySet
<1>4. n - 1 \in Nat /\ n - 1 < Cardinality(C) /\ n - 1 \notin Bad
  BY <1>0, <1>2, <1>3
<1>5. Cardinality(Newest(C, age, n - 1)) = n - 1
  BY <1>0, <1>4
<1>6. Cardinality(Newest(C, age, (n - 1) + 1)) = (n - 1) + 1
  BY <1>4, <1>5, NextNewest
<1>7. (n - 1) + 1 = n
  BY <1>2
<1> QED BY <1>2, <1>6, <1>7

-----------------------------------------------------------------------------
\* What the rows and the values that clients send have to do with each other.

\* Rows that are flushed or committed have a time each.
Stamped == requests \cup {r \in Requests : pc[r] = "commit_request"}

StampFacts ==
  /\ \A q \in Stamped : created[q] <= clock
  /\ \A p, q \in Stamped : created[p] = created[q] => p = q

\* A conversation that anybody knows of has its first row, whose call is over
\* or on its way to the reply.
KnownConversations ==
  \A r \in Requests :
    /\ sent[r] \in Requests => sent[r] \in requests
    /\ conv[r] \in Requests => conv[r] = r \/ conv[r] \in requests
    /\ pc[r] \in {"insert", "commit_request"} => conv[r] = r \/ conv[r] = sent[r]

\* A client has seen the replies of calls that are over.
SeenReplied == \A r \in Requests : seen[r] \subseteq Replied

TurnInv ==
  /\ IInv /\ StampFacts /\ KnownConversations /\ SeenReplied
  /\ HistorySeesRepliedTurns

\* What a step never takes back: a committed row with its time and its
\* conversation, a stored response, a reply.
LEMMA RowsKept ==
  ASSUME IInv, [Next]_vars
  PROVE  /\ requests \subseteq requests'
         /\ \A q \in requests : created'[q] = created[q] /\ conv'[q] = conv[q]
         /\ \A q \in Requests : responses[q] # "none" => responses'[q] # "none"
         /\ Replied \subseteq Replied'
<1>1. CASE UNCHANGED vars
  BY <1>1 DEF vars, Replied
<1>2. CASE HourPasses
  BY <1>2 DEF HourPasses, tables, Replied
<1>3. ASSUME NEW r \in Requests, Ask(r) \/ Handle(r) \/ Fail(r)
      PROVE  /\ requests \subseteq requests'
             /\ \A q \in requests : created'[q] = created[q] /\ conv'[q] = conv[q]
             /\ \A q \in Requests : responses[q] # "none" => responses'[q] # "none"
             /\ Replied \subseteq Replied'
  <2> USE DEF IInv, TypeOK
  <2>1. requests \subseteq requests'
    BY <1>3 DEF Ask, Handle, Fail, CheckSessionRateLimit, CheckConversationTurnLimit, CheckInput,
                ResolveConversationId, InsertRequest, CommitRequest, FetchHistory, Retrieve,
                GenerateAnswer, Respond, tables
  <2>2. ASSUME NEW q \in requests PROVE created'[q] = created[q] /\ conv'[q] = conv[q]
    <3>1. pc[q] \notin {"resolve", "insert"} /\ q \in Requests
      BY DEF StageFacts, Stored
    <3> QED
      BY <1>3, <3>1
      DEF Ask, Handle, Fail, CheckSessionRateLimit, CheckConversationTurnLimit, CheckInput,
          ResolveConversationId, InsertRequest, CommitRequest, FetchHistory, Retrieve,
          GenerateAnswer, Respond, times
  <2>3. ASSUME NEW q \in Requests, responses[q] # "none" PROVE responses'[q] # "none"
    BY <1>3, <2>3
    DEF Ask, Handle, Fail, CheckSessionRateLimit, CheckConversationTurnLimit, CheckInput,
        ResolveConversationId, InsertRequest, CommitRequest, FetchHistory, Retrieve,
        GenerateAnswer, Respond, tables, StageFacts
  <2>4. pc[r] # "done" /\ reply[r] = NoReply
    BY <1>3
    DEF Ask, Handle, Fail, CheckSessionRateLimit, CheckConversationTurnLimit, CheckInput,
        ResolveConversationId, InsertRequest, CommitRequest, FetchHistory, Retrieve,
        GenerateAnswer, Respond, StageFacts, InFlight, Admitted
  <2>5. \A q \in Requests \ {r} : reply'[q] = reply[q]
    BY <1>3
    DEF Ask, Handle, Fail, CheckSessionRateLimit, CheckConversationTurnLimit, CheckInput,
        ResolveConversationId, InsertRequest, CommitRequest, FetchHistory, Retrieve,
        GenerateAnswer, Respond, Leave, Continue, Conclude, locals
  <2>6. r \notin Replied
    BY <2>4 DEF Replied, NoReply, Persisted
  <2> QED BY <2>1, <2>2, <2>3, <2>5, <2>6 DEF Replied
<1> QED BY <1>1, <1>2, <1>3 DEF Next, Terminated

\* The clock gives each row a time of its own.
LEMMA StampStep ==
  ASSUME IInv, StampFacts, [Next]_vars
  PROVE  StampFacts'
<1> USE DEF IInv, TypeOK
<1>1. CASE UNCHANGED vars \/ HourPasses
  BY <1>1 DEF vars, HourPasses, tables, StampFacts, Stamped
<1>2. ASSUME NEW r \in Requests, InsertRequest(r)
      PROVE  StampFacts'
  <2>1. r \notin requests
    BY <1>2 DEF InsertRequest, StageFacts, Stored
  <2>2. Stamped' = Stamped \cup {r} /\ r \notin Stamped
    BY <1>2, <2>1 DEF InsertRequest, Continue, Goto, tables, Stamped
  <2>3. clock' = clock + 1 /\ created'[r] = clock + 1
    BY <1>2 DEF InsertRequest
  <2>4. \A q \in Stamped : created'[q] = created[q] /\ created[q] \in Nat
    BY <1>2, <2>2 DEF InsertRequest, Stamped
  <2> QED BY <2>2, <2>3, <2>4 DEF StampFacts
<1>3. ASSUME NEW r \in Requests, Ask(r) \/ Handle(r) \/ Fail(r), ~ InsertRequest(r)
      PROVE  StampFacts'
  <2>1. created' = created /\ clock' = clock
    BY <1>3 DEF Ask, Handle, Fail, CheckSessionRateLimit, CheckConversationTurnLimit, CheckInput,
                ResolveConversationId, CommitRequest, FetchHistory, Retrieve,
                GenerateAnswer, Respond, times
  <2>2. requests' \subseteq Stamped
    BY <1>3 DEF Ask, Handle, Fail, CheckSessionRateLimit, CheckConversationTurnLimit, CheckInput,
                ResolveConversationId, CommitRequest, FetchHistory, Retrieve,
                GenerateAnswer, Respond, tables, Stamped
  <2>3. \A q \in Requests : pc'[q] = "commit_request" => pc[q] = "commit_request"
    BY <1>3 DEF Ask, Handle, Fail, CheckSessionRateLimit, CheckConversationTurnLimit, CheckInput,
                ResolveConversationId, CommitRequest, FetchHistory, Retrieve,
                GenerateAnswer, Respond, Leave, Continue, Conclude, Goto
  <2>4. Stamped' \subseteq Stamped
    BY <2>2, <2>3 DEF Stamped
  <2> QED BY <2>1, <2>4 DEF StampFacts
<1> QED BY <1>1, <1>2, <1>3 DEF Next, Terminated

\* Clients know conversations from replies only, and handlers keep to those
\* that the session has rows in.
LEMMA KnownStep ==
  ASSUME IInv, KnownConversations, [Next]_vars
  PROVE  KnownConversations'
<1> USE DEF IInv, TypeOK
<1>1. CASE UNCHANGED vars \/ HourPasses
  BY <1>1 DEF vars, HourPasses, tables, KnownConversations
<1>2. ASSUME NEW r \in Requests, Ask(r)
      PROVE  KnownConversations'
  <2>1. UNCHANGED <<requests, conv>> /\ \A x \in Requests \ {r} : sent'[x] = sent[x]
    BY <1>2 DEF Ask, tables
  <2>2. sent'[r] \in Requests => sent'[r] \in requests
    <3> SUFFICES ASSUME sent'[r] \in Requests PROVE sent'[r] \in requests
      OBVIOUS
    <3>1. PICK q \in Replied : sent'[r] = reply[q].conversation
      BY <1>2, QueryAssumption DEF Ask
    <3>2. q \in requests /\ sent'[r] = conv[q]
      BY <3>1 DEF Replied, ReplyTellsWhatIsStored
    <3> QED BY <3>2 DEF KnownConversations
  <2>3. \A x \in Requests : pc'[x] \in {"insert", "commit_request"} => x # r /\ pc'[x] = pc[x]
    BY <1>2 DEF Ask, Goto
  <2> QED BY <2>1, <2>2, <2>3 DEF KnownConversations
<1>3. ASSUME NEW r \in Requests, ResolveConversationId(r)
      PROVE  KnownConversations'
  <2>1. UNCHANGED <<requests, sent>> /\ \A x \in Requests \ {r} : conv'[x] = conv[x] /\ pc'[x] = pc[x]
    BY <1>3 DEF ResolveConversationId, Continue, Goto, tables
  <2>2. conv'[r] = r \/ (conv'[r] = sent[r] /\ Belongs(SessionOf[r], sent[r]))
    BY <1>3 DEF ResolveConversationId
  <2>3. ASSUME Belongs(SessionOf[r], sent[r]) PROVE sent[r] \in requests
    BY <2>3 DEF Belongs, SessionRows, StageFacts, KnownConversations
  <2> QED BY <2>1, <2>2, <2>3 DEF KnownConversations
<1>4. ASSUME NEW r \in Requests, Ask(r) \/ Handle(r) \/ Fail(r),
             ~ Ask(r), ~ ResolveConversationId(r)
      PROVE  KnownConversations'
  <2>1. UNCHANGED <<sent, conv>> /\ requests \subseteq requests'
    BY <1>4 DEF Handle, Fail, CheckSessionRateLimit, CheckConversationTurnLimit, CheckInput,
                InsertRequest, CommitRequest, FetchHistory, Retrieve, GenerateAnswer, Respond, tables
  <2>2. \A x \in Requests : pc'[x] \in {"insert", "commit_request"} =>
          pc[x] \in {"insert", "commit_request"}
    BY <1>4 DEF Handle, Fail, CheckSessionRateLimit, CheckConversationTurnLimit, CheckInput,
                InsertRequest, CommitRequest, FetchHistory, Retrieve, GenerateAnswer, Respond,
                Leave, Continue, Conclude, Goto
  <2> QED BY <2>1, <2>2 DEF KnownConversations
<1> QED BY <1>1, <1>2, <1>3, <1>4 DEF Next, Terminated

\* Replies are not taken back.
LEMMA SeenStep ==
  ASSUME IInv, SeenReplied, [Next]_vars
  PROVE  SeenReplied'
<1>1. Replied \subseteq Replied'
  BY RowsKept
<1>2. \A x \in Requests : seen'[x] \subseteq seen[x] \cup Replied
  <2> USE DEF IInv, TypeOK
  <2>1. CASE UNCHANGED vars \/ HourPasses
    BY <2>1 DEF vars, HourPasses, locals
  <2>2. ASSUME NEW r \in Requests, Ask(r) \/ Handle(r) \/ Fail(r)
        PROVE  \A x \in Requests : seen'[x] \subseteq seen[x] \cup Replied
    BY <2>2 DEF Ask, Handle, Fail, CheckSessionRateLimit, CheckConversationTurnLimit, CheckInput,
                ResolveConversationId, InsertRequest, CommitRequest, FetchHistory, Retrieve,
                GenerateAnswer, Respond, Leave, Continue, Conclude, locals
  <2> QED BY <2>1, <2>2 DEF Next, Terminated
<1> QED BY <1>1, <1>2 DEF SeenReplied

\* What the history query returns has every turn that the client knows of, or
\* uses up its limit on newer ones.
LEMMA FetchSeesReplied ==
  ASSUME TurnInv, NEW r \in Requests, NEW q \in seen[r],
         SessionOf[q] = SessionOf[r], conv[q] = conv[r]
  PROVE  LET h == RecentTurns(SessionOf[r], conv[r])
         IN \/ q \in h
            \/ Cardinality(h) = HistoryLimit /\ \A p \in h : created[p] > created[q]
<1> DEFINE C == {p \in SessionRows(SessionOf[r]) \cap Turns(conv[r]) : responses[p] # "none"}
           h == RecentTurns(SessionOf[r], conv[r])
<1> USE DEF TurnInv, IInv, TypeOK
<1>1. h = Newest(C, created, HistoryLimit)
  BY DEF RecentTurns, Newest, Newer
<1>2. C \in SUBSET requests /\ C \in SUBSET Requests /\ created \in [Requests -> Nat]
  BY DEF Turns
<1>3. \A p, x \in C : created[p] = created[x] => p = x
  BY <1>2 DEF StampFacts, Stamped
<1>4. q \in C
  <2>1. q \in Requests /\ reply[q].status \in Persisted
    BY DEF SeenReplied, Replied
  <2>2. q \in requests /\ responses[q] # "none"
    BY <2>1 DEF ReplyTellsWhatIsStored
  <2> QED BY <2>2 DEF SessionRows, Turns
<1> HIDE DEF C, h
<1>5. HistoryLimit \in Nat
  BY QueryAssumption
<1>6. SUFFICES ASSUME q \notin h
               PROVE  Cardinality(h) = HistoryLimit /\ \A p \in h : created[p] > created[q]
  BY DEF h
<1>7. ASSUME NEW p \in C PROVE Newer(C, created, p) \in SUBSET C
                               /\ Cardinality(Newer(C, created, p)) \in Nat
  <2>1. Newer(C, created, p) \in SUBSET C
    BY DEF Newer
  <2> QED BY <1>2, <2>1, Counted
<1>8. Cardinality(Newer(C, created, q)) >= HistoryLimit
  BY <1>1, <1>4, <1>5, <1>6, <1>7 DEF Newest
<1>9. Cardinality(h) = HistoryLimit
  <2>1. Cardinality(Newer(C, created, q)) <= Cardinality(C) /\ Cardinality(C) \in Nat
    BY <1>2, <1>4, <1>7, Fewer, Counted
  <2>2. HistoryLimit <= Cardinality(C)
    BY <1>4, <1>5, <1>7, <1>8, <2>1
  <2> QED BY <1>1, <1>2, <1>3, <1>5, <2>2, NewestCounted
<1>10. ASSUME NEW p \in h PROVE created[p] > created[q]
  <2>1. p \in C /\ Cardinality(Newer(C, created, p)) < HistoryLimit
    BY <1>1 DEF Newest
  <2> SUFFICES ASSUME created[p] <= created[q] PROVE FALSE
    BY <1>2, <1>4, <2>1
  <2>2. Cardinality(Newer(C, created, q)) <= Cardinality(Newer(C, created, p))
    BY <1>2, <1>4, <2>1, NewerShrinks
  <2> QED BY <1>4, <1>5, <1>7, <1>8, <2>1, <2>2
<1> QED BY <1>9, <1>10

\* A handler that goes on keeps its history, whose rows stay as they are.
LEMMA HistoryStep ==
  ASSUME TurnInv, IInv', [Next]_vars
  PROVE  HistorySeesRepliedTurns'
<1> DEFINE Reading == {"retrieve", "answer", "respond"}
           Sees(h, q) == \/ q \in h
                         \/ /\ Cardinality(h) = HistoryLimit
                            /\ \A p \in h : created[p] > created[q]
<1> USE DEF TurnInv, IInv, TypeOK
<1>1. SUFFICES ASSUME NEW r \in Requests, NEW q \in seen'[r],
                      pc'[r] \in Reading, SessionOf[q] = SessionOf[r], conv'[q] = conv'[r]
               PROVE  \/ q \in history'[r]
                      \/ /\ Cardinality(history'[r]) = HistoryLimit
                         /\ \A p \in history'[r] : created'[p] > created'[q]
  BY DEF HistorySeesRepliedTurns
<1>2. \/ pc[r] \in Reading /\ history'[r] = history[r] /\ seen'[r] = seen[r]
      \/ FetchHistory(r)
  <2>1. CASE UNCHANGED vars \/ HourPasses
    BY <1>1, <2>1 DEF vars, HourPasses, locals
  <2>2. ASSUME NEW x \in Requests, Ask(x) \/ Handle(x) \/ Fail(x)
        PROVE  \/ pc[r] \in Reading /\ history'[r] = history[r] /\ seen'[r] = seen[r]
               \/ FetchHistory(r)
    BY <1>1, <2>2
    DEF Ask, Handle, Fail, CheckSessionRateLimit, CheckConversationTurnLimit, CheckInput,
        ResolveConversationId, InsertRequest, CommitRequest, FetchHistory, Retrieve,
        GenerateAnswer, Respond, Leave, Continue, Conclude, Goto, locals
  <2> QED BY <2>1, <2>2 DEF Next, Terminated
<1>3. r \in requests /\ seen'[r] = seen[r]
  BY <1>2 DEF StageFacts, Stored, FetchHistory
<1>4. q \in requests
  BY <1>1, <1>3 DEF SeenReplied, Replied, ReplyTellsWhatIsStored
<1>5. /\ conv[q] = conv[r] /\ q \in seen[r]
      /\ \A p \in requests : created'[p] = created[p]
  BY <1>1, <1>3, <1>4, RowsKept
<1>6. Sees(history'[r], q)
  <2>1. CASE pc[r] \in Reading /\ history'[r] = history[r]
    BY <1>1, <1>5, <2>1 DEF HistorySeesRepliedTurns
  <2>2. CASE FetchHistory(r)
    <3>1. history'[r] = RecentTurns(SessionOf[r], conv[r])
      BY <2>2 DEF FetchHistory
    <3> HIDE DEF TurnInv, IInv, TypeOK
    <3> QED BY <1>1, <1>5, <3>1, FetchSeesReplied
  <2> QED BY <1>2, <2>1, <2>2
<1>7. history'[r] \subseteq requests
  <2>1. CASE pc[r] \in Reading /\ history'[r] = history[r]
    BY <2>1 DEF HistoryIsOwnAndComplete
  <2>2. CASE FetchHistory(r)
    BY <2>2 DEF FetchHistory, RecentTurns, SessionRows
  <2> QED BY <1>2, <2>1, <2>2
<1> QED BY <1>4, <1>5, <1>6, <1>7

\* The invariant of the turns holds of every reachable state.
THEOREM TurnInvariant == Spec => []TurnInv
<1> DEFINE Rest == StampFacts /\ KnownConversations /\ SeenReplied /\ HistorySeesRepliedTurns
<1>1. Init => Rest
  <2> SUFFICES ASSUME Init PROVE Rest
    OBVIOUS
  <2>1. StampFacts /\ SeenReplied /\ HistorySeesRepliedTurns
    BY DEF Init, StampFacts, Stamped, SeenReplied, HistorySeesRepliedTurns
  <2>2. KnownConversations
    BY QueryAssumption DEF Init, KnownConversations
  <2> QED BY <2>1, <2>2
<1>2. IInv /\ IInv' /\ Rest /\ [Next]_vars => Rest'
  BY StampStep, KnownStep, SeenStep, HistoryStep DEF TurnInv
<1>3. IInv /\ Rest => TurnInv
  BY DEF TurnInv
<1> QED BY <1>1, <1>2, <1>3, InvariantHolds, PTL DEF Spec

\* A client that continues a conversation finds in the history each turn it
\* has had the reply of, or as many newer ones as the limit allows.
THEOREM HistoryIsRecent == Spec => []HistorySeesRepliedTurns
<1>1. TurnInv => HistorySeesRepliedTurns
  BY DEF TurnInv
<1> QED BY <1>1, TurnInvariant, PTL

-----------------------------------------------------------------------------
\* How far the turn limit of a conversation can be overshot.  As with the
\* session limit, a call is counted from the verdict of the check to the
\* commit of its row.  The first turn of a conversation passes no such check,
\* but nobody can continue what is not stored.

\* From the turn limit's verdict to the commit of the row.
Passed == {"gate", "resolve", "insert", "commit_request"}
PassedOf(c) == {r \in Requests : pc[r] \in Passed /\ sent[r] = c /\ SessionOf[r] = SessionOf[c]}

TurnBoundOf(c) ==
  Cardinality(Turns(c)) + Cardinality(PassedOf(c)) <= TurnLimit + MaxInFlight - 1

\* The turns of a conversation exceed the limit by no more than the calls that
\* overlap.
TurnOvershootBounded ==
  \A c \in Requests : Cardinality(Turns(c)) <= TurnLimit + MaxInFlight - 1

\* Both sets are sets of requests.
LEMMA TurnSets ==
  ASSUME TypeOK, NEW c
  PROVE  Turns(c) \in SUBSET Requests /\ PassedOf(c) \in SUBSET Requests
  BY DEF TypeOK, Turns, PassedOf

\* Steps that only take turns and calls away keep the bound.
LEMMA ShrinkKeepsTurnBound ==
  ASSUME TypeOK, TypeOK', NEW c, TurnBoundOf(c),
         Turns(c)' \subseteq Turns(c), PassedOf(c)' \subseteq PassedOf(c)
  PROVE  TurnBoundOf(c)'
<1> DEFINE t == Turns(c)   t1 == Turns(c)'
           p == PassedOf(c)   p1 == PassedOf(c)'
<1>1. t \in SUBSET Requests /\ p \in SUBSET Requests
  BY TurnSets
<1>2. Cardinality(t) + Cardinality(p) <= TurnLimit + MaxInFlight - 1
  BY DEF TurnBoundOf
<1>3. t1 \in SUBSET t /\ p1 \in SUBSET p
  OBVIOUS
<1> HIDE DEF t, t1, p, p1
<1>4. Cardinality(t1) <= Cardinality(t) /\ Cardinality(p1) <= Cardinality(p)
  BY <1>1, <1>3, Fewer
<1>5. /\ Cardinality(t) \in Nat /\ Cardinality(p) \in Nat
      /\ Cardinality(t1) \in Nat /\ Cardinality(p1) \in Nat
  BY <1>1, <1>3, Counted
<1>6. Cardinality(t1) + Cardinality(p1) <= TurnLimit + MaxInFlight - 1
  BY <1>2, <1>4, <1>5, QueryAssumption
<1> QED BY <1>6 DEF TurnBoundOf, t1, p1

\* The check lets a call pass when the turns are below the limit: those that
\* passed before it are fewer than those that overlap.
LEMMA CheckKeepsTurnBound ==
  ASSUME IInv, Bound, TypeOK', NEW r \in Requests, CheckConversationTurnLimit(r),
         NEW c \in Requests, TurnBoundOf(c)
  PROVE  TurnBoundOf(c)'
<1>1. Turns(c)' = Turns(c)
  BY DEF CheckConversationTurnLimit, tables, Turns
<1>2. CASE pc'[r] = "done" \/ r \notin PassedOf(c)'
  <2>1. PassedOf(c)' \subseteq PassedOf(c)
    BY <1>2 DEF CheckConversationTurnLimit, Leave, Continue, Goto, PassedOf, Passed, IInv, TypeOK
  <2> QED BY <1>1, <2>1, ShrinkKeepsTurnBound DEF IInv
<1>3. CASE pc'[r] # "done" /\ r \in PassedOf(c)'
  <2> DEFINE f == InFlightOf(SessionOf[c])   p1 == PassedOf(c)'   t == Turns(c)
  <2>1. sent[r] = c /\ c # NoConversation
    BY <1>3, QueryAssumption DEF CheckConversationTurnLimit, PassedOf
  <2>2. ~ (Cardinality(t) >= TurnLimit)
    BY <1>3, <2>1 DEF CheckConversationTurnLimit, Leave, Goto, IInv, TypeOK
  <2>3. p1 \in SUBSET f /\ f \in SUBSET Requests /\ t \in SUBSET Requests
    <3>1. \A x \in Requests : pc'[x] \in Passed => pc[x] \in InFlight
      BY DEF CheckConversationTurnLimit, Leave, Continue, Goto, Passed, InFlight, Admitted, IInv, TypeOK
    <3> QED BY <3>1, TurnSets DEF PassedOf, InFlightOf, IInv
  <2>4. Cardinality(f) <= MaxInFlight
    BY QueryAssumption DEF Bound, BoundOf
  <2> HIDE DEF f, p1, t
  <2>5. /\ Cardinality(p1) <= Cardinality(f) /\ Cardinality(f) \in Nat
        /\ Cardinality(p1) \in Nat /\ Cardinality(t) \in Nat
    BY <2>3, Fewer, Counted
  <2>6. Cardinality(t) + Cardinality(p1) <= TurnLimit + MaxInFlight - 1
    BY <2>2, <2>4, <2>5, QueryAssumption
  <2> QED BY <1>1, <2>6 DEF TurnBoundOf, p1, t
<1> QED BY <1>2, <1>3

\* The commit turns a call that passed into a turn, or is the first one of a
\* conversation that nobody knows of.
LEMMA CommitKeepsTurnBound ==
  ASSUME IInv, KnownConversations, TypeOK', NEW r \in Requests, CommitRequest(r),
         TurnLimit > 0, NEW c \in Requests, TurnBoundOf(c)
  PROVE  TurnBoundOf(c)'
<1>1. r \notin requests /\ pc[r] = "commit_request"
  BY DEF CommitRequest, IInv, StageFacts, Stored
<1>2. /\ requests' = requests \cup {r} /\ UNCHANGED <<conv, sent>>
      /\ \A x \in Requests \ {r} : pc'[x] = pc[x]
      /\ pc'[r] \notin Passed
  BY DEF CommitRequest, Leave, Continue, Goto, Passed, IInv, TypeOK
<1>3. CASE conv[r] # c
  <2>1. Turns(c)' \subseteq Turns(c) /\ PassedOf(c)' \subseteq PassedOf(c)
    BY <1>2, <1>3 DEF Turns, PassedOf
  <2> QED BY <2>1, ShrinkKeepsTurnBound DEF IInv
<1>4. CASE conv[r] = c /\ sent[r] = c
  <2> DEFINE t == Turns(c)   t1 == Turns(c)'
             p == PassedOf(c)   p1 == PassedOf(c)'
  <2>1. t1 = t \cup {r} /\ r \notin t /\ t \in SUBSET Requests
    BY <1>1, <1>2, <1>4, TurnSets DEF Turns, IInv
  <2>2. p1 = p \ {r} /\ r \in p /\ p \in SUBSET Requests
    BY <1>1, <1>2, <1>4, TurnSets DEF PassedOf, Passed, IInv, MintedBySession
  <2>3. Cardinality(t) + Cardinality(p) <= TurnLimit + MaxInFlight - 1
    BY DEF TurnBoundOf
  <2> HIDE DEF t, t1, p, p1
  <2>4. /\ Cardinality(t1) = Cardinality(t) + 1 /\ Cardinality(t) \in Nat
        /\ Cardinality(p1) = Cardinality(p) - 1 /\ Cardinality(p) \in Nat
    BY <2>1, <2>2, AddOne, RemoveOne, Counted
  <2>5. Cardinality(t1) + Cardinality(p1) <= TurnLimit + MaxInFlight - 1
    BY <2>3, <2>4
  <2> QED BY <2>5 DEF TurnBoundOf, t1, p1
<1>5. CASE conv[r] = c /\ sent[r] # c
  <2>1. r = c
    BY <1>1, <1>5 DEF KnownConversations
  <2>2. Turns(c) = {}
    BY <1>1, <2>1 DEF Turns, KnownConversations, IInv, TypeOK
  <2>3. PassedOf(c)' = {}
    BY <1>1, <1>2, <2>1 DEF PassedOf, KnownConversations
  <2>4. Turns(c)' = {r}
    BY <1>2, <1>5, <2>2 DEF Turns
  <2>5. Cardinality({r}) = 1 /\ Cardinality({}) = 0
    BY FS_Singleton, FS_EmptySet
  <2> QED BY <2>3, <2>4, <2>5, QueryAssumption DEF TurnBoundOf
<1> QED BY <1>3, <1>4, <1>5

\* No other step of a handler adds a turn or a call that passed the check.
LEMMA OthersShrinkTurns ==
  ASSUME IInv, NEW r \in Requests, Ask(r) \/ Handle(r) \/ Fail(r),
         ~ CheckConversationTurnLimit(r), ~ CommitRequest(r), NEW c \in Requests
  PROVE  Turns(c)' \subseteq Turns(c) /\ PassedOf(c)' \subseteq PassedOf(c)
<1> USE DEF IInv, TypeOK
<1>1. requests' = requests
  BY DEF Ask, Handle, Fail, CheckSessionRateLimit, CheckInput, ResolveConversationId,
         InsertRequest, FetchHistory, Retrieve, GenerateAnswer, Respond, tables
<1>2. \A q \in requests : conv'[q] = conv[q]
  BY DEF Ask, Handle, Fail, CheckSessionRateLimit, CheckInput, ResolveConversationId,
         InsertRequest, FetchHistory, Retrieve, GenerateAnswer, Respond, StageFacts, Stored
<1>3. ASSUME NEW x \in Requests, pc'[x] \in Passed
      PROVE  pc[x] \in Passed /\ sent'[x] = sent[x]
  BY <1>3 DEF Ask, Handle, Fail, CheckSessionRateLimit, CheckInput, ResolveConversationId,
         InsertRequest, FetchHistory, Retrieve, GenerateAnswer, Respond, Conclude, Leave,
         Continue, Goto, Passed
<1> QED BY <1>1, <1>2, <1>3 DEF Turns, PassedOf

\* The turns of a conversation exceed the limit by no more than the calls that
\* overlap, however their checks and commits interleave.
THEOREM TurnLimitOvershoot ==
  ASSUME TurnLimit > 0
  PROVE  Spec => []TurnOvershootBounded
<1> DEFINE Inv == \A c \in Requests : TurnBoundOf(c)
<1>1. Init => Inv
  <2> SUFFICES ASSUME Init, NEW c \in Requests PROVE TurnBoundOf(c)
    OBVIOUS
  <2>1. Turns(c) = {} /\ PassedOf(c) = {}
    BY DEF Init, Turns, PassedOf, Passed
  <2> QED BY <2>1, FS_EmptySet, QueryAssumption DEF TurnBoundOf
<1>2. TurnInv /\ TurnInv' /\ Bound /\ Inv /\ [Next]_vars => Inv'
  <2> SUFFICES ASSUME TurnInv, TurnInv', Bound, Inv, [Next]_vars, NEW c \in Requests
               PROVE  TurnBoundOf(c)'
    OBVIOUS
  <2>1. TurnBoundOf(c) /\ IInv /\ KnownConversations /\ TypeOK /\ TypeOK'
    BY DEF TurnInv, IInv
  <2> HIDE DEF Inv
  <2>2. ASSUME NEW r \in Requests, Ask(r) \/ Handle(r) \/ Fail(r)
        PROVE  TurnBoundOf(c)'
    BY <2>1, <2>2, CheckKeepsTurnBound, CommitKeepsTurnBound, OthersShrinkTurns, ShrinkKeepsTurnBound
  <2>3. CASE UNCHANGED vars \/ HourPasses
    BY <2>3, <2>1 DEF vars, HourPasses, tables, TurnBoundOf, Turns, PassedOf
  <2> QED BY <2>2, <2>3 DEF Next, Terminated
<1>3. Inv /\ TypeOK => TurnOvershootBounded
  <2> SUFFICES ASSUME Inv, TypeOK, NEW c \in Requests
               PROVE  Cardinality(Turns(c)) <= TurnLimit + MaxInFlight - 1
    BY DEF TurnOvershootBounded
  <2>1. Cardinality(Turns(c)) \in Nat /\ Cardinality(PassedOf(c)) \in Nat
    BY TurnSets, Counted
  <2>2. Cardinality(Turns(c)) + Cardinality(PassedOf(c)) <= TurnLimit + MaxInFlight - 1
    BY DEF TurnBoundOf
  <2> QED BY <2>1, <2>2, QueryAssumption
<1> QED BY <1>1, <1>2, <1>3, TurnInvariant, BoundHolds, TypeCorrect, PTL DEF Spec
=============================================================================

------------------------------ MODULE QueryPath ------------------------------
(***************************************************************************)
(* Concurrent POST /v1/query handlers on one event loop against the        *)
(* query_requests and query_responses tables: the two Postgres-backed rate *)
(* limits, the safety gate, the resolution of the conversation, the first  *)
(* commit (the question is durable), history, retrieval, the answer, and   *)
(* the second commit (the response is durable) before the reply.           *)
(*                                                                         *)
(* Each await is a step.  Questions, answers and chunks are left out: what *)
(* matters is which outcome each external call has.  A request stands for  *)
(* its query_id and for the conversation_id minted for it, both random.    *)
(***************************************************************************)
EXTENDS Naturals, FiniteSets

CONSTANTS
  Requests,        \* POST /v1/query calls
  Sessions,        \* session_id values
  SessionOf,       \* the session_id each call carries
  NoConversation,  \* no conversation_id in the request
  Stale,           \* a conversation_id that no stored row carries
  SessionLimit,    \* RATE_LIMIT_SESSION_PER_HOUR
  TurnLimit,       \* RATE_LIMIT_CONVERSATION_MAX_TURNS
  HistoryLimit,    \* CONVERSATION_HISTORY_TURN_LIMIT
  MaxInFlight      \* how many calls of one session may overlap

ASSUME QueryAssumption ==
  /\ IsFiniteSet(Requests)
  /\ SessionOf \in [Requests -> Sessions]
  /\ SessionLimit \in Nat /\ TurnLimit \in Nat /\ HistoryLimit \in Nat
  /\ MaxInFlight \in Nat \ {0}
  /\ NoConversation \notin Requests /\ Stale \notin Requests

VARIABLES
  requests,   \* committed query_requests rows
  responses,  \* committed query_responses rows: internal status, or "none"
  clock,      \* created_at of the latest row
  horizon,    \* rows created after it are less than an hour old
  pc,         \* where each handler is
  sent,       \* conversation_id as sent
  seen,       \* replies the clients had got when the call was made
  conv,       \* resolved conversation_id
  created,    \* created_at of the request's row
  history,    \* earlier turns given to the model
  outcome,    \* internal status of the response
  txn,        \* the task's database session has a transaction open
  reply       \* what the client got

vars == <<requests, responses, clock, horizon, pc, sent, seen, conv, created,
          history, outcome, txn, reply>>

Conversations == Requests \cup {NoConversation, Stale}
InternalStatus == {"answered", "no_answer", "no_context", "retrieval_failed", "llm_failed"}

\* _STATUS_MAP
ClientStatus(s) ==
  CASE s = "answered" -> "answered"
    [] s \in {"no_answer", "no_context"} -> "no_answer"
    [] OTHER -> "error"

\* Bodies of a reply: status and conversation_id of a 200, or a failure.
NoReply == [status |-> "none", conversation |-> NoConversation]
Refusal(code) == [status |-> code, conversation |-> NoConversation]
Persisted == {"answered", "no_answer", "error"}
Replies == [status : Persisted \cup {"refused", "none", "429_session", "429_conversation", "failed"},
            conversation : Conversations]

\* Between the session limit's verdict and the commit of the request row.
Admitted == {"turn_limit", "gate", "resolve", "insert", "commit_request"}
InFlight == Admitted \cup {"session_limit", "history", "retrieve", "answer", "respond"}

SessionRows(s) == {q \in requests : SessionOf[q] = s}
RecentRows(s) == {q \in SessionRows(s) : created[q] > horizon}
Turns(c) == {q \in requests : conv[q] = c}

\* Plausible bugs in these lookups, each in place of the definition it is
\* named after when the properties are put to the test: the session is not
\* compared, responses are not joined, the order of the rows is not reversed.
BelongsToAnyone(s, c) == \E q \in requests : conv[q] = c
RecentTurnsDangling(s, c) == SessionRows(s) \cap Turns(c)
RecentTurnsOldest(s, c) ==
  LET completed == {q \in SessionRows(s) \cap Turns(c) : responses[q] # "none"}
  IN {q \in completed :
        Cardinality({p \in completed : created[p] < created[q]}) < HistoryLimit}

\* The conversation has a row of this session.
Belongs(s, c) == \E q \in SessionRows(s) : conv[q] = c

\* The newest HistoryLimit completed turns; the inner join leaves out rows
\* without a response.
RecentTurns(s, c) ==
  LET completed == {q \in SessionRows(s) \cap Turns(c) : responses[q] # "none"}
      newer(q) == {p \in completed : created[p] > created[q]}
  IN {q \in completed : Cardinality(newer(q)) < HistoryLimit}

\* Calls whose client has got an answer.
Replied == {q \in Requests : reply[q].status \in Persisted}

-----------------------------------------------------------------------------

Init ==
  /\ requests = {}
  /\ responses = [r \in Requests |-> "none"]
  /\ clock = 0
  /\ horizon = 0
  /\ pc = [r \in Requests |-> "idle"]
  /\ sent = [r \in Requests |-> NoConversation]
  /\ seen = [r \in Requests |-> {}]
  /\ conv = [r \in Requests |-> NoConversation]
  /\ created = [r \in Requests |-> 0]
  /\ history = [r \in Requests |-> {}]
  /\ outcome = [r \in Requests |-> "none"]
  /\ txn = [r \in Requests |-> FALSE]
  /\ reply = [r \in Requests |-> NoReply]

tables == <<requests, responses>>
times == <<clock, horizon, created>>
locals == <<seen, history, outcome>>

Goto(r, label) == pc' = [pc EXCEPT ![r] = label]
OpenTransaction(r) == txn' = [txn EXCEPT ![r] = TRUE]
ReleaseSession(r) == txn' = [txn EXCEPT ![r] = FALSE]

\* The handler goes on to the next await ...
Continue(r, label) == Goto(r, label) /\ UNCHANGED <<locals, reply>>

\* ... or is left with a reply: its locals are gone, and the app-wide
\* dependency releases the task's session on every exit path.
Leave(r, answer) ==
  /\ Goto(r, "done")
  /\ reply' = [reply EXCEPT ![r] = answer]
  /\ seen' = [seen EXCEPT ![r] = {}]
  /\ history' = [history EXCEPT ![r] = {}]
  /\ outcome' = [outcome EXCEPT ![r] = "none"]
  /\ ReleaseSession(r)

-----------------------------------------------------------------------------
\* Plausible bugs in the steps, likewise.

\* The count is compared with > instead of >=.
CheckSessionRateLimitOffByOne(r) ==
  /\ pc[r] = "session_limit"
  /\ IF Cardinality(RecentRows(SessionOf[r])) > SessionLimit
       THEN Leave(r, Refusal("429_session"))
       ELSE Continue(r, "turn_limit") /\ OpenTransaction(r)
  /\ UNCHANGED <<tables, times, sent, conv>>

\* The session is not released after the history was read.
FetchHistoryKeepsSession(r) ==
  /\ pc[r] = "history"
  /\ history' = [history EXCEPT ![r] = RecentTurns(SessionOf[r], conv[r])]
  /\ Goto(r, "retrieve")
  /\ OpenTransaction(r)
  /\ UNCHANGED <<tables, times, sent, conv, seen, outcome, reply>>

\* A failed retrieval answers the client at once and stores no response.
RetrieveReturnsEarly(r) ==
  /\ pc[r] = "retrieve"
  /\ \/ Continue(r, "answer") /\ ReleaseSession(r)
     \/ Leave(r, [status |-> "error", conversation |-> conv[r]])
  /\ UNCHANGED <<tables, times, sent, conv>>

\* A time-out of the model becomes a status the schema does not know.
GenerateAnswerTimeout(r) ==
  /\ pc[r] = "answer"
  /\ outcome' = [outcome EXCEPT ![r] = "timeout"]
  /\ Goto(r, "respond")
  /\ UNCHANGED <<tables, times, sent, conv, txn, seen, history, reply>>

\* The client is answered although the commit has failed.
RespondRegardless(r) ==
  /\ pc[r] = "respond"
  /\ responses' \in {responses, [responses EXCEPT ![r] = outcome[r]]}
  /\ Leave(r, [status |-> ClientStatus(outcome[r]), conversation |-> conv[r]])
  /\ UNCHANGED <<requests, times, sent, conv>>

-----------------------------------------------------------------------------
\* The steps of a handler.

\* A client sends a question.  The conversation_id it sends, if any, came
\* with an earlier reply, to this session or to another one, or is stale.
Ask(r) ==
  /\ pc[r] = "idle"
  /\ Cardinality({q \in Requests : pc[q] \in InFlight /\ SessionOf[q] = SessionOf[r]}) < MaxInFlight
  /\ \E c \in {NoConversation, Stale} \cup {reply[q].conversation : q \in Replied} :
       sent' = [sent EXCEPT ![r] = c]
  /\ seen' = [seen EXCEPT ![r] = Replied]
  /\ Goto(r, "session_limit")
  /\ UNCHANGED <<tables, times, conv, history, outcome, txn, reply>>

\* Count the session's rows of the last hour.
CheckSessionRateLimit(r) ==
  /\ pc[r] = "session_limit"
  /\ IF Cardinality(RecentRows(SessionOf[r])) >= SessionLimit
       THEN Leave(r, Refusal("429_session"))
       ELSE Continue(r, "turn_limit") /\ OpenTransaction(r)
  /\ UNCHANGED <<tables, times, sent, conv>>

\* Count the rows of the conversation as sent, whoever owns it.
CheckConversationTurnLimit(r) ==
  /\ pc[r] = "turn_limit"
  /\ IF sent[r] # NoConversation /\ Cardinality(Turns(sent[r])) >= TurnLimit
       THEN Leave(r, Refusal("429_conversation"))
       ELSE Continue(r, "gate") /\ UNCHANGED txn
  /\ UNCHANGED <<tables, times, sent, conv>>

\* The classifier call, still inside the transaction of the two counts.  The
\* gate fails closed: an exception or a missing verdict blocks too.
CheckInput(r) ==
  /\ pc[r] = "gate"
  /\ \E verdict \in {"safe", "unsafe", "none", "exception"} :
       IF verdict = "safe"
         THEN Continue(r, "resolve") /\ UNCHANGED txn
         ELSE Leave(r, [status |-> "refused", conversation |-> sent[r]])
  /\ UNCHANGED <<tables, times, sent, conv>>

\* Keep the conversation if it is this session's, or mint a new one.
ResolveConversationId(r) ==
  /\ pc[r] = "resolve"
  /\ conv' = [conv EXCEPT ![r] = IF Belongs(SessionOf[r], sent[r]) THEN sent[r] ELSE r]
  /\ Continue(r, "insert")
  /\ UNCHANGED <<tables, times, sent, txn>>

\* created_at is taken from the clock when the row is flushed ...
InsertRequest(r) ==
  /\ pc[r] = "insert"
  /\ clock' = clock + 1
  /\ created' = [created EXCEPT ![r] = clock + 1]
  /\ Continue(r, "commit_request")
  /\ UNCHANGED <<tables, horizon, sent, conv, txn>>

\* ... and others see the row after the commit, whose confirmation may be lost.
CommitRequest(r) ==
  /\ pc[r] = "commit_request"
  /\ requests' = requests \cup {r}
  /\ \/ Continue(r, "history") /\ ReleaseSession(r)
     \/ Leave(r, Refusal("failed"))
  /\ UNCHANGED <<responses, times, sent, conv>>

\* Read the earlier turns, then release the session before the embeddings call.
FetchHistory(r) ==
  /\ pc[r] = "history"
  /\ history' = [history EXCEPT ![r] = RecentTurns(SessionOf[r], conv[r])]
  /\ Goto(r, "retrieve")
  /\ ReleaseSession(r)
  /\ UNCHANGED <<tables, times, sent, conv, seen, outcome, reply>>

Conclude(r, status) ==
  /\ outcome' = [outcome EXCEPT ![r] = status]
  /\ Goto(r, "respond")
  /\ UNCHANGED <<seen, history, reply>>

\* The embeddings call, then the search and the release of its session; any
\* exception on the way becomes a status.
Retrieve(r) ==
  /\ pc[r] = "retrieve"
  /\ \/ Continue(r, "answer")
     \/ Conclude(r, "no_context")
     \/ Conclude(r, "retrieval_failed")
  /\ ReleaseSession(r)
  /\ UNCHANGED <<tables, times, sent, conv>>

\* The model answers, declines, or returns what does not parse.
GenerateAnswer(r) ==
  /\ pc[r] = "answer"
  /\ \E status \in {"answered", "no_answer", "llm_failed"} : Conclude(r, status)
  /\ UNCHANGED <<tables, times, sent, conv, txn>>

\* Insert and commit the response: durable before the client sees it, or
\* durable and the confirmation lost.
Respond(r) ==
  /\ pc[r] = "respond"
  /\ responses' = [responses EXCEPT ![r] = outcome[r]]
  /\ \/ Leave(r, [status |-> ClientStatus(outcome[r]), conversation |-> conv[r]])
     \/ Leave(r, Refusal("failed"))
  /\ UNCHANGED <<requests, times, sent, conv>>

\* A statement fails, the model call raises anything but a parse error, the
\* task is cancelled or the process dies: a 500 or no reply, and a rollback.
Fail(r) ==
  /\ pc[r] \in InFlight
  /\ Leave(r, Refusal("failed"))
  /\ UNCHANGED <<tables, times, sent, conv>>

\* The oldest row less than an hour old grows older than that.
HourPasses ==
  /\ horizon < clock
  /\ horizon' = horizon + 1
  /\ UNCHANGED <<tables, clock, created, pc, sent, conv, locals, txn, reply>>

Handle(r) ==
  \/ CheckSessionRateLimit(r) \/ CheckConversationTurnLimit(r)
  \/ CheckInput(r) \/ ResolveConversationId(r)
  \/ InsertRequest(r) \/ CommitRequest(r) \/ FetchHistory(r)
  \/ Retrieve(r) \/ GenerateAnswer(r) \/ Respond(r)

Terminated == (\A r \in Requests : pc[r] = "done") /\ horizon = clock /\ UNCHANGED vars

Next == (\E r \in Requests : Ask(r) \/ Handle(r) \/ Fail(r)) \/ HourPasses \/ Terminated

Spec == Init /\ [][Next]_vars

-----------------------------------------------------------------------------
\* Properties.

\* Every variable keeps the shape of the tables and of the handler's locals.
TypeOK ==
  /\ requests \subseteq Requests
  /\ responses \in [Requests -> InternalStatus \cup {"none"}]
  /\ clock \in Nat
  /\ horizon \in Nat
  /\ pc \in [Requests -> InFlight \cup {"idle", "done"}]
  /\ sent \in [Requests -> Conversations]
  /\ seen \in [Requests -> SUBSET Requests]
  /\ conv \in [Requests -> Conversations]
  /\ created \in [Requests -> Nat]
  /\ history \in [Requests -> SUBSET Requests]
  /\ outcome \in [Requests -> InternalStatus \cup {"none"}]
  /\ txn \in [Requests -> BOOLEAN]
  /\ reply \in [Requests -> Replies]

\* A conversation lives under exactly one session: no interleaving of sends,
\* checks and commits stores one conversation_id for two sessions.
ConversationHasOneSession ==
  \A p, q \in requests : conv[p] = conv[q] => SessionOf[p] = SessionOf[q]

\* What the model is shown as history are turns of the asking session only,
\* each with a durable response.
HistoryIsOwnAndComplete ==
  \A r \in Requests : \A q \in history[r] :
    /\ q \in requests /\ responses[q] # "none"
    /\ SessionOf[q] = SessionOf[r]

\* A client that continues a conversation after getting the reply of a turn
\* finds that turn in the history, or as many newer ones as the limit allows.
HistorySeesRepliedTurns ==
  \A r \in Requests : \A q \in seen[r] :
    /\ pc[r] \in {"retrieve", "answer", "respond"}
    /\ SessionOf[q] = SessionOf[r]
    /\ conv[q] = conv[r]
    => \/ q \in history[r]
       \/ /\ Cardinality(history[r]) = HistoryLimit
          /\ \A p \in history[r] : created[p] > created[q]

\* The check and the insert of the session limit are not atomic, so overlapping
\* calls can pass it together; the hour's rows never exceed the limit by more
\* than the calls that overlap.
OvershootBounded ==
  \A s \in Sessions :
    Cardinality(RecentRows(s))
      + Cardinality({r \in Requests : pc[r] \in Admitted /\ SessionOf[r] = s})
    <= SessionLimit + MaxInFlight - 1

\* No transaction is held across the embeddings call and the answering LLM
\* call, or after the request has ended.
NoTransactionAcrossCalls ==
  \A r \in Requests : pc[r] \in {"retrieve", "answer", "done"} => ~ txn[r]

\* The reply tells what is stored: a query_id and a status only for a durable
\* request and response, the internal status mapped to the client's; and a
\* request that was refused or over a limit has left nothing behind.
ReplyTellsWhatIsStored ==
  \A r \in Requests :
    /\ reply[r].status \in Persisted =>
         /\ r \in requests
         /\ responses[r] # "none"
         /\ reply[r].status = ClientStatus(responses[r])
         /\ reply[r].conversation = conv[r]
    /\ reply[r].status \in {"refused", "429_session", "429_conversation"} => r \notin requests

\* A stored question without a response belongs to a handler that is still
\* running or has failed.
DanglingOnlyAfterFailure ==
  \A r \in requests :
    responses[r] = "none" => pc[r] # "done" \/ reply[r].status = "failed"

\* A conversation_id that does not belong to the session never leads to an
\* error, only to a new conversation.
StaleIdIsNoError ==
  \A r \in Requests :
    reply[r].status = "429_conversation" => Belongs(SessionOf[r], sent[r])
=============================================================================

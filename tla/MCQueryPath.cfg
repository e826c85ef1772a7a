SPECIFICATION Spec
CONSTANTS
  Requests = {q1, q2, q3}
  Sessions = {s1, s2}
  q3 = q3
  s1 = s1
  s2 = s2
  SessionOf <- MCSessionOf
  NoConversation = NoConversation
  Stale = Stale
  SessionLimit = 1
  TurnLimit = 2
  HistoryLimit = 1
  MaxInFlight = 2
INVARIANTS
  TypeOK
  ConversationHasOneSession
  HistoryIsOwnAndComplete
  NoTransactionAcrossCalls
  ReplyTellsWhatIsStored
  DanglingOnlyAfterFailure
SYMMETRY OfOneSession

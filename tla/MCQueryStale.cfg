SPECIFICATION Spec
CONSTANTS
  Requests = {q1, q2, q3}
  q3 = q3
  s1 = s1
  s2 = s2
  Sessions = {s1, s2}
  SessionOf <- MCSessionOf
  NoConversation = NoConversation
  Stale = Stale
  SessionLimit = 2
  TurnLimit = 1
  HistoryLimit = 1
  MaxInFlight = 2
INVARIANT StaleIdIsNoError

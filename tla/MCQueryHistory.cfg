SPECIFICATION Spec
CONSTANTS
  Requests = {q1, q2, q3}
  Sessions = {s1}
  q3 = q3
  s1 = s1
  s2 = s2
  SessionOf <- MCSessionOf
  NoConversation = NoConversation
  Stale = Stale
  SessionLimit = 1
  TurnLimit = 3
  HistoryLimit = 1
  MaxInFlight = 2
INVARIANTS HistorySeesRepliedTurns OvershootBounded
SYMMETRY OfOneSession

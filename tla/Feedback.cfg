SPECIFICATION FairSpec
CONSTANTS
  Calls = {f1, f2, f3}
  Queries = {q1, q2}
  NoRow = NoRow
INVARIANT NoOrphanFeedback
PROPERTIES EveryPostAnswered BackdatedOnlyByOverlap ImplementsFeedbackBoard

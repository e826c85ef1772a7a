SPECIFICATION Spec
CONSTANTS
  small = small
  middle = middle
  large = large
  huge = huge
  Chunks = {small, middle, large, huge}
  Tokens <- MCTokens
  Join = 1
  VectorCandidates = 3
  FulltextCandidates = 2
  TopK = 3
  Budget = 4
INVARIANTS
  FusionKeepsAgreement
  PromptFits
  OnlyOverflowDropped
  AnswerIsGrounded

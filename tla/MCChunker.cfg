SPECIFICATION Spec
CONSTANTS
  MaxTokens = 7
  Texts <- MCTexts
  ChunkSize = 5
  Overlap = 4
  MinTokens = 2
  SepTokens <- MCSepTokens
  Grow = 1
  Shrink = 1
INVARIANTS
  SizeBounded
  ChunksFollowText
  LossBounded
  CutsOnlyTooLong

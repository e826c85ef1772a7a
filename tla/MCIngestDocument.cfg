SPECIFICATION FairSpec
CONSTANTS
  Tasks = {t1, t2, t3}
  Urls = {u1}
  empty = empty
  short = short
  note = note
  long = long
  Texts = {empty, short, long}
  ChunkCount <- MCChunkCount
  NoDocument = NoDocument
  Nobody = Nobody
INVARIANTS TypeOK ChunksMatchDocument OneWriter
PROPERTIES EveryCallEnds StaysSearchable CreateOnlyFresh ImplementsKnowledgeBase

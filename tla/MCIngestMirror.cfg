SPECIFICATION Spec
CONSTANTS
  Tasks = {t1, t2}
  Urls = {u1}
  empty = empty
  short = short
  note = note
  long = long
  Texts = {short, note, long}
  ChunkCount <- MCChunkCount
  NoDocument = NoDocument
  Nobody = Nobody
INVARIANT ChunkCountMirrors

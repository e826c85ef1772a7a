SPECIFICATION Spec
CONSTANTS
  w1 = w1
  w2 = w2
  w3 = w3
  a = a
  b = b
  old = old
  new = new
  empty = empty
  Walks = {w2}
  KindOf <- MCKindOf
  Size = 3
  Manifests <- MCManifests
  Malformed = Malformed
  Contents <- MCContents
  Sources = {a, b}
  Texts = {new, empty}
  ChunkCount <- MCChunkCount
  Unreadable = Unreadable
  NoText = NoText
  MaxFaults = 1
INVARIANT OwnFaultOnly

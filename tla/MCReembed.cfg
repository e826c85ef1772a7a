SPECIFICATION FairSpec
CONSTANTS
  a = a
  b = b
  Docs = {a, b}
  MaxId = 6
  MaxChunks = 2
  Tables <- MCTables
  BatchSize = 2
  MaxIngests = 2
  MaxRuns = 2
  NoRow = NoRow
INVARIANTS TypeOK VectorsMatchText NothingMissed
PROPERTIES EveryoneEnds ImplementsChunkStore

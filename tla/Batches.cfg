\* Three paths in two batches, one edit, one break.
SPECIFICATION FairSpec
CONSTANTS
  p1 = p1  p2 = p2  p3 = p3  r1 = r1  r2 = r2  x = x  y = y  zero = zero
  Path = {p1, p2, p3}
  Dir = {r1}
  NoDir = NoDir
  NoJob = NoJob
  Block = {x, y, zero}
  BufChunks = 1
  RootDirs <- OneRoot
  ChunkSize = 1
  DefaultChunkSize = 1
  LinkSize = 1
  Concurrency = 1
  Zero = zero
  IsTerm = TRUE
  TermWidth = 60
  InitDisks <- ThreePaths
  InitLocals <- NoLocal
  EditEntries <- SmallEdits
  MaxEdits = 1
INVARIANTS
  TypeOK
  ServerFlushesBeforeWaiting
  CounterMatchesOutstanding
PROPERTIES
  WritesOnlyOutstanding
  KeepsPromise
  ReturnsUnlessOnDirectory
  SessionFollows

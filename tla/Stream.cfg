\* One path in two directories, over old copies, edited twice.  The client and
\* the session may wait for each other for ever.
SPECIFICATION Spec
CONSTANTS
  p1 = p1  p2 = p2  p3 = p3  r1 = r1  r2 = r2  x = x  y = y  zero = zero
  Path = {p1}
  Dir = {r1, r2}
  NoDir = NoDir
  NoJob = NoJob
  Block = {x, y, zero}
  BufChunks = 0
  RootDirs <- OneRoot
  ChunkSize = 0
  DefaultChunkSize = 1
  LinkSize = 1
  Concurrency = 0
  Zero = zero
  IsTerm = TRUE
  TermWidth = 60
  InitDisks <- OnePath
  InitLocals <- OldCopies
  EditEntries <- FileEdits
  MaxEdits = 2
INVARIANTS
  StuckOnlyOnDirectory
  UnchangedFileArrivesWhole
  LocalHoldsWhatWasSent
  DoneMeansWhole
  BarFitsUnlessEdited
  StraysOnlyAfterEditOrByDeadLink
CHECK_DEADLOCK FALSE

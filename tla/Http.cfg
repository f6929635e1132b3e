\* A small tree, two edits, a client that may leave.
SPECIFICATION FairSpec
CONSTANTS
  top = top  file = file  dir = dir  below = below  x = x  y = y
  Order <- WalkOrder
  Top = top
  Parent <- ParentOf
  Block = {x, y}
  InitDisks <- Trees
  EditEntries <- Edits
  MaxEdits = 2
INVARIANTS
  OnlyLastEntryCut
  NothingMissedUnlessFailed
  FileWholeOrCut
PROPERTY DownloadEnds

\* A file of up to two blocks, edited twice, pulled again and again.
SPECIFICATION FairSpec
CONSTANTS
  x = x  y = y
  Block = {x, y}
  Contents <- SmallFiles
  Tolerance = 1
  Skews <- NoSkewOrAhead
  NoCopy = NoCopy
  MaxTime = 2
  MaxEdits = 2
  MaxFails = 1
INVARIANTS
  QuietPullDelivers
  SkippedIsSameUnlessEdited
PROPERTY Settles

\* A file that was pulled and never edited, pulled again.
SPECIFICATION Spec
CONSTANTS
  x = x  y = y
  Block = {x, y}
  Contents <- SmallFiles
  Tolerance = 1
  Skews <- NoSkewOrAhead
  NoCopy = NoCopy
  MaxTime = 2
  MaxEdits = 0
  MaxFails = 0
PROPERTY IdenticalIsSkipped
CHECK_DEADLOCK FALSE

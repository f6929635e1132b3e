\* An archive that ends early and looks complete.
SPECIFICATION Spec
CONSTANTS
  top = top  file = file  dir = dir  below = below  x = x  y = y
  Order <- WalkOrder
  Top = top
  Parent <- ParentOf
  Block = {x, y}
  InitDisks <- Trees
  EditEntries <- Edits
  MaxEdits = 2
INVARIANT CompleteArchiveHoldsAll

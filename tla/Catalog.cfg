\* Browsing, downloading and listing two roots while they are edited twice.
SPECIFICATION Spec
CONSTANTS
  a = a  b = b  bHash = bHash  pct = pct
  Name = {a, b, bHash, pct}
  Nodes <- Tree
  PathOrder <- Paths
  Namings <- TwoNamings
  Asked <- AskedFor
  Cut = {bHash}
  NoName = NoName
  InitDisks <- Disks
  EditPlaces <- Edited
  EditKinds <- Edits
  MaxEdits = 2
  NoNode = NoNode
INVARIANTS
  LinksLead
  ServersAgree
  FoundIfThere
  ListingHoldsWhatStood
  ParentsFirst

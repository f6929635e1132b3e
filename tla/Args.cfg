\* Every command line of up to five arguments, for every command.
SPECIFICATION Spec
CONSTANTS
  root = root  text = text  count = count  port = port  switch = switch
  attached = attached  dir = dir  four = four  minus = minus
  StrFlags <- TextFlags
  IntFlags <- NumFlags
  Switches <- OneSwitch
  Attached <- OneEqual
  Sets <- Known
  Words <- AllWords
  Negatives <- OneMinus
  Numerals <- AllNumbers
  Dash = Dash
  DashDash = DashDash
  Directories <- Existing
  Blank <- OneEqual
  MaxArgs = 5
INVARIANTS
  NothingLost
  PlainMeansWhatItSays
  RootsHonoured
CHECK_DEADLOCK FALSE

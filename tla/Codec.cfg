\* Every cut of the stream; some data too long for its length field.
SPECIFICATION FairSpec
CONSTANTS
  Scripts <- Exchanges
  BufSize = 6
  PathRange = 4
  DataRange = 4
INVARIANTS
  DecodesWhatWasEncoded
  FlushCompletesFrames
PROPERTY ControlArrives

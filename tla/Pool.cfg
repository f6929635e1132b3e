\* Three files, one or two at a time.
SPECIFICATION FairSpec
CONSTANTS
  File = {f1, f2, f3}
  Concurrencies = {1, 2}
  Pieces = 2
INVARIANTS
  AtMostConcurrencySend
  ReturnsAfterAll
  OneSlotKeepsChunksWhole
PROPERTY SendFilesReturns

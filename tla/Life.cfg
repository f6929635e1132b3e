\* Both servers, two connections, one signal.
SPECIFICATION LifeSpec
CONSTANT Conn = {c1, c2}
INVARIANTS
  NobodyBlocksOnErrCh
  AtMostOneLateMessage
PROPERTIES
  FailureStopsBoth
  SignalStops

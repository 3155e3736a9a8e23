\* One key whose CONNECT is handed over up to twice; connections may be reset.
CONSTANTS
  Keys = {k1}
  MaxCopies = 2
  MaySplit = TRUE
  MayReset = TRUE
  NoConn = NoConn
SPECIFICATION Spec
INVARIANTS
  AckedOnce
  SameConnection
  PanicNeedsReset
PROPERTIES
  AwaitingEnds
  AckedIsReceived
  CloseReachesBackend
CHECK_DEADLOCK FALSE

\* One relay, one chunk and one reply, which may be handed over twice.
CONSTANTS
  Key = "conn"
  NRelays = 1
  MaxOut = 1
  MaxIn = 1
  MaxTime = 1
  EntryCopies = 2
  ExitCopies = 1
  NoSub = NoSub
  Unsent = Unsent
  NoConn = NoConn
SPECIFICATION Spec
INVARIANTS
  AnswersPassFilter
PROPERTIES
  EndToEnd
  BothClosedEnds
CHECK_DEADLOCK FALSE

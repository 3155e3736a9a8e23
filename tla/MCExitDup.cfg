\* One connection, every event handed over twice by the relays.
CONSTANTS
  Keys = {k1}
  Unparsable = {}
  MaxData = 2
  MaxCopies = 2
  NoConn = NoConn
SPECIFICATION SafetySpec
INVARIANTS
  AcceptedNotLost
  SendsToCurrent
PROPERTIES
  ImplementsDatagrams
CHECK_DEADLOCK FALSE

\* One relay, one chunk of the client, one reply handed over once.
CONSTANTS
  Key = "conn"
  NRelays = 1
  MaxOut = 1
  MaxIn = 1
  MaxCopies = 1
  MaxTime = 0
  NoSub = NoSub
  Unsent = Unsent
SPECIFICATION Spec
PROPERTIES
  ReadGetsEvents
CHECK_DEADLOCK FALSE

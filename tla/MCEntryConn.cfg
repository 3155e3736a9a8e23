\* Two relays, two chunks of the client, one reply that may be handed over twice.
CONSTANTS
  Key = "conn"
  NRelays = 2
  MaxOut = 2
  MaxIn = 1
  MaxCopies = 2
  MaxTime = 1
  NoSub = NoSub
  Unsent = Unsent
SPECIFICATION Spec
INVARIANTS
  TypeOK
  RelaysInStep
  AnswersPassFilter
PROPERTIES
  ImplementsDatagrams
  RepliesRead
  TeardownCompletes
CHECK_DEADLOCK FALSE

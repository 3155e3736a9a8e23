\* Two connections that share the exit node, each event handed over once.
CONSTANTS
  Keys = {k1, k2}
  Unparsable = {}
  MaxData = 1
  MaxCopies = 1
  NoConn = NoConn
SPECIFICATION Spec
PROPERTIES
  OtherKeysProgress
  TeardownCompletes
CHECK_DEADLOCK FALSE

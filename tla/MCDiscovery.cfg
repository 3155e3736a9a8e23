\* One exit node, two relays, the ten seconds of the code.
CONSTANTS
  Nodes = {n1}
  NRelays = 2
  Ten = 10
  MaxLatency = 2
  MaxWait = 2
  NoNode = NoNode
SPECIFICATION Spec
INVARIANTS
  TypeOK
  GapBounded
PROPERTIES
  ResolvedWasAlive
  AnnouncedWhileConnected

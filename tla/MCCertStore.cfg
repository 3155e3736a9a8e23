\* Three relays; the node may create three pairs, one after the other.
CONSTANTS
  NRelays = 3
  MaxPairs = 3
SPECIFICATION Spec
INVARIANTS
  TypeOK
  CompletePairKept
  KeyFileNotStale
  NewPairIsEverywhere
PROPERTIES
  StartEnds

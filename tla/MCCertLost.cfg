\* Two relays; a crash between the certificate and its key.
CONSTANTS
  NRelays = 2
  MaxPairs = 1
SPECIFICATION SafetySpec
INVARIANTS
  KeyLoadedFromFile

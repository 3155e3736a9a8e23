\* Three goroutines that use two keys: two of them compete for one.
CONSTANTS
  Threads = {t1, t2, t3}
  Ids = {k1, k2}
  NoThread = NoThread
SPECIFICATION Spec
INVARIANTS
  NoPanic
PROPERTIES
  ImplementsKeyedLock
  NoStarvation

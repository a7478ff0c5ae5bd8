SPECIFICATION FairSpec
CONSTANTS
  Requests = {r1, r2, r3}
  Keys = {k1}
  Ttl = 2
  FetchTimeout = 1
  Rotating = TRUE
  None = None
INVARIANTS
  TypeOK
PROPERTIES
  NoFetchWhileFresh
  RetiredKeysLapse
  NewKeysAreNoticed
  EveryRequestIsDecided

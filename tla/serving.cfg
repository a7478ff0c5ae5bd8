SPECIFICATION FairServing
CONSTANTS
  Requests = {r1, r2, r3}
  Sqls = {a, b}
  Params = {t1}
  Dialects = {pg}
  Ttl = 0
  LockTimeout = 3
  MaxVersion = 0
  Faults = {"crash", "evict_lock", "overrun"}
  OwnedUnlock = TRUE
  Hung = {r1}
  None = None
  Replicas = {{r1, r2}, {r3}}
  Capacity = 1
  PoolTimeout = 1
  QueryTime = 1
  MountsMcp = TRUE
  OwnsHttp = TRUE
  Asks <- MCAsks
  r1 = r1
  r2 = r2
  r3 = r3
  a = a
  b = b
  t1 = t1
  pg = pg
INVARIANTS
  ServingTypeOK
  LocksHaveHolders
  OnePlacePerKey
  NoStrayConnection
  ServedWhileOpen
  NothingLeftOpen
PROPERTIES
  EveryCallEnds

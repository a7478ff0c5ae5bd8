SPECIFICATION Spec
CONSTANTS
  Requests = {r1, r2, r3}
  Sqls = {q}
  Params = {t1, t2}
  Dialects = {pg}
  Ttl = 0
  LockTimeout = 2
  MaxVersion = 1
  Faults = {"crash", "evict_entry"}
  OwnedUnlock = FALSE
  Hung = {}
  None = None
INVARIANTS
  TypeOK
  OwnStatement
  SingleFlight
  NoWastedFetch
  MonotonicReads
PROPERTIES
  OneFetchPerWindow
  ImplementsSharedFetch

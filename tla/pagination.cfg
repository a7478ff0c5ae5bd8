SPECIFICATION FairSpec
CONSTANTS
  id = id
  a = a
  Null = Null
  None = None
  Clients = {1}
  Columns = {id, a}
  Universe <- MCUniverse
  Loaded <- MCLoaded
  PrimaryKey = {id}
  UniqueCols = {}
  ForeignKeys = {id}
  NullsHigh = TRUE
  Queries <- MCQueries
  DefaultLimit = 2
  MaxLimit = 2
  Ttl = 1
  CacheSize = 2
  MaxWrites = 2
INVARIANTS
  TypeOK
  StableRowsSeen
PROPERTIES
  PagesAdvance
  WalksEnd

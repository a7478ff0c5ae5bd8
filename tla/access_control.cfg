SPECIFICATION Spec
CONSTANTS
  customers = customers
  orders = orders
  ghost = ghost
  org = org
  contact = contact
  alice = alice
  bob = bob
  org_claim = org_claim
  hash = hash
  None = None
  Null = Null
  Raw = Raw
  NullMask = NullMask
  Tables = {customers, orders, ghost}
  Columns = {org, contact}
  Registry <- MCRegistry
  ArrayColumns <- MCArrayColumns
  Subjects = {alice, bob}
  Exprs = {hash, NullMask}
  Filters <- MCFilters
  Height <- MCHeight
  ValidFilter <- ValidNode
  Rows <- Table
  RowsOf <- MCRowsOf
  Entries <- MCEntries
  MaxRules = 3
  MaxNamed = 2
  Values = {1, 2}
  Claims = {org_claim}
  ClaimsOf <- MCClaims
INVARIANTS
  TypeOK
  DenyWins
  GrantedByAllow
  MasksUnanimous
  RowsPassAFilter
  DiscoveryAgrees
  MissingClaimFailsClosed
PROPERTIES
  DenyShrinks

SPECIFICATION Spec
CONSTANTS
  Calls = {c1, c2}
  Documents <- MCDocuments
  Heights <- MCHeights
  MaxDepth = 3
  MaxFields = 3
  MaxLimit = 2
  DefaultLimit = 1
  Variables = {None, 1, 3}
  Variable = Variable
  None = None
SYMMETRY Symmetry
INVARIANTS
  RunsWithinLimits
  RefusalsAreDeserved
  InterfacesAgree
  RepliesTellFailures
CHECK_DEADLOCK FALSE

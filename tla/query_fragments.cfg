SPECIFICATION Spec
CONSTANTS
  Calls = {c1}
  Documents <- FragmentDocuments
  Heights <- MCHeights
  MaxDepth = 3
  MaxFields = 3
  MaxLimit = 2
  DefaultLimit = 1
  Variables = {None, 1, 3}
  Variable = Variable
  None = None
INVARIANTS
  AskedForIsRead
CHECK_DEADLOCK FALSE

SPECIFICATION FairSpec
CONSTANTS
  NULL = NULL
  root = root
  left = left
  right = right
  leaf = leaf
  Types <- MCTypes
  BaseOf <- MCBaseOf
  Threads = {th1, th2}
INVARIANT TypeOK
INVARIANT DerivedListsComplete
PROPERTY SearchFindsClosest
PROPERTY ImplementsRegistry
PROPERTY EveryCallReturns

SPECIFICATION Spec
CONSTANTS
  NULL = NULL
  root = root
  left = left
  right = right
  leaf = leaf
  Types <- MCTypes
  BaseOf <- MCBaseOf
  Threads = {th1, th2}
PROPERTY CreateWrapperReady

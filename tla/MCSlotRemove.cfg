SPECIFICATION Spec
CONSTANTS
  NULL = NULL
  f = f
  plain = plain
  method = method
  object = object
  Functions <- MCFunctions
  Delegates <- MCDelegates
  Objects <- MCObjects
  ObjectOf <- MCObjectOf
  LastSignal = 0
  Limits <- TwoDelegates
  MaxSlots <- MCMaxSlots
  Waiting = 1
  MaxDelayed <- MCMaxDelayed
  MaxDepth = 2
  MaxBlocked = 1
  RemoveAny = TRUE
  Reemit = FALSE
PROPERTY DisconnectRemovesOne

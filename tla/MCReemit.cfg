SPECIFICATION Spec
CONSTANTS
  NULL = NULL
  f = f
  plain = plain
  method = method
  object = object
  Functions <- MCFunctions
  Delegates <- MCDelegates
  Objects <- MCObjects
  ObjectOf <- MCObjectOf
  LastSignal = 0
  Limits <- OneEach
  MaxSlots <- MCMaxSlots
  Waiting = 1
  MaxDelayed <- MCMaxDelayed
  MaxDepth = 2
  MaxBlocked = 1
  RemoveAny = FALSE
  Reemit = TRUE
PROPERTY DisconnectionDelayed

SPECIFICATION Spec
CONSTANTS
  NULL = NULL
  f = f
  plain = plain
  method = method
  object = object
  Functions <- MCFunctions
  Delegates <- MCDelegates
  Objects <- MCObjects
  ObjectOf <- MCObjectOf
  LastSignal = 1
  Limits <- OneAndMany
  MaxSlots <- MCMaxSlots
  Waiting = 2
  MaxDelayed <- MCMaxDelayed
  MaxDepth = 2
  MaxBlocked = 1
  RemoveAny = FALSE
  Reemit = FALSE
INVARIANT TypeOK
INVARIANT TablesMatchSlots
INVARIANT LoopInBounds
PROPERTY OnlyLiveReceiversCalled
PROPERTY EmissionCallsSlotsFound
PROPERTY DisconnectionDelayed
PROPERTY DelayedDisconnectsDone

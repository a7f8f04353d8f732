SPECIFICATION Spec
CONSTANTS
  Natives = {n1, n2, n3}
  Wrappers = {w1, w2, w3}
  NULL = NULL
  AllowRepin = FALSE
SYMMETRY ObjectSymmetry
INVARIANT TypeOK
INVARIANT LinkNeverDangles
INVARIANT WrapperNeverOutlivesQObject
INVARIANT UniqueQObjectWrapper
INVARIANT NeededWrapperKept
INVARIANT DestructionIsComplete
PROPERTY DestroyedOnce
CHECK_DEADLOCK FALSE

SPECIFICATION ListSpec
CONSTANTS
  Wrappers = {w1, w2, w3}
  NULL = NULL
  AllowRepin = TRUE
INVARIANT GCKeepsPinned
CHECK_DEADLOCK FALSE

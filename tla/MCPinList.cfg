SPECIFICATION ListSpec
CONSTANTS
  Wrappers = {w1, w2, w3, w4}
  NULL = NULL
  AllowRepin = FALSE
 
INVARIANT WellLinked
INVARIANT GCKeepsPinned
INVARIANT GCReleasesUnpinned
PROPERTY ImplementsPinnedSet
CHECK_DEADLOCK FALSE

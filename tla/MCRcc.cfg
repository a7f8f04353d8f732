SPECIFICATION Spec
CONSTANTS
  Aliases <- MCAliases
  Files = {"empty", "small", "big", "gone"}
  Missing = {"gone"}
  Sizes <- MCSizes
  Widths <- MCWidths
  Hash <- MCHash
  Languages = {"C", "de"}
  MaxSize = 5
  MaxFiles = 3
INVARIANT ResourcesFoundAgain
CHECK_DEADLOCK FALSE

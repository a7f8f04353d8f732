SPECIFICATION UicSpec
CONSTANTS
  Roots <- MCRoots
  Numerals = {"4", "7"}
  Tags <- MCTags
  Attrs <- MCAttrs
  Words <- MCWords
  MaxNodes <- MCMaxNodes
  MaxDepth = 6
  Name <- MCName
  DefaultName <- MCDefaultName
  Containers <- MCContainers
INVARIANT OwnedOnce
INVARIANT RoundTrip
 
 
INVARIANT EverythingPlaced
CHECK_DEADLOCK FALSE

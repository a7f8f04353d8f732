SPECIFICATION Spec
CONSTANTS
  Names = {"A", "B", "C", "D", "E", "I", "J", "N", "R", "Z", "f", "g", "h", "k", "m", "b", "q", "x",
           "SLOTS", "SIGNALS", "VERSION", "METHOD"}
  MacroNames = {"SLOTS", "SIGNALS", "VERSION", "METHOD"}
  Undefined = Undefined
  Number <- MCNumber
  MAX_LEVEL = 6
  Lines <- MCLines
  Files <- MCFiles
  Headers <- MCHeaders
  TypeEntries <- MCTypeEntries
  RejectedClasses <- MCRejectedClasses
  RejectedFunctions <- MCRejectedFunctions
  Removed <- MCRemoved
  Alphabet <- MCAlphabet
  Members = {"f", "g", "h", "k", "m"}
  Malformed = {"q", "SLOTS"}
INVARIANT MembersAsWritten
INVARIANT InheritedAsInCpp
INVARIANT AbstractAsInCpp
 
PROPERTY EverythingRead
CHECK_DEADLOCK FALSE

SPECIFICATION Spec
CONSTANTS
  MaxNestedLevels = 4
  MaxArrayElements = 2
  MaxMapPairs = 2
  IndefForbidden = FALSE
  TagsForbidden = FALSE
  MaxArg = 65536
  Alphabet = {0, 24, 32, 65, 97, 191, 246, 255}
  Starts <- NullStarts
  MaxMore = 4
  Modes <- NullModes
  Dests = {}
  Maps <- NullMaps
INVARIANT
  NullHasNoEffect
CHECK_DEADLOCK FALSE

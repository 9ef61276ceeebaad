SPECIFICATION MCSpec
CONSTANTS
  MaxNestedLevels = 4
  MaxArrayElements = 2
  MaxMapPairs = 2
  IndefForbidden = FALSE
  TagsForbidden = FALSE
  MaxArg = 65536
  Alphabet = {0, 24, 28, 32, 65, 95, 97, 130, 159, 161, 191, 193, 194, 216, 244, 246, 248, 255}
  Starts <- MCStarts
  MaxMore = 3
  Modes <- MCModes
  Dests <- MCDests
  Maps <- MCMaps
INVARIANTS
  SkipAgrees
  ConsumesItem
  SameEitherWay
  DuplicatesTold
  EntriesIndependent
PROPERTY
  PrefixStable
CHECK_DEADLOCK FALSE

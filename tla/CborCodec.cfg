SPECIFICATION Spec
CONSTANTS
  MaxNestedLevels = 6
  MaxArrayElements = 20
  MaxMapPairs = 20
  IndefForbidden = FALSE
  TagsForbidden = FALSE
  MaxArg = 65536
  Codecs <- MCCodecs
  Orders <- MCOrders
  Values <- MCValues
  Few <- MCFew
  MaxCalls = 5
INVARIANTS
  SaidIsWritten
  RoundTrip
  Reencodes
  KeysAscend
CHECK_DEADLOCK FALSE

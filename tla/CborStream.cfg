SPECIFICATION Spec
CONSTANTS
  MaxNestedLevels = 4
  MaxArrayElements = 4
  MaxMapPairs = 4
  IndefForbidden = FALSE
  TagsForbidden = FALSE
  MaxArg = 65536
  Streams <- MCStreams
  Scan <- MCScan
  MaxPart = 4
  MinRead = 2
  ZeroReads = FALSE
  Outcomes = {"ok", "type"}
INVARIANTS
  TypeOK
  Window
  RoomToRead
  BufferBounded
PROPERTIES
  RefinesItems
  EveryCallReturns

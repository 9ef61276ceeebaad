SPECIFICATION Spec
CONSTANTS
  HashLen = 1
  UintMod <- Word
  Written <- MCWritten
  Typed <- MCTyped
  Garbage <- MCGarbage
  MaxEdits = 1
INVARIANT EveryAddressHasText
CHECK_DEADLOCK FALSE

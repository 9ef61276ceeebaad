SPECIFICATION Spec
CONSTANTS
  HashLen = 1
  UintMod <- Word
  Written <- MCWritten
  Typed <- MCTyped
  Garbage <- MCGarbage
  MaxEdits = 2
INVARIANTS
  ReadsBack
  MistypeFound
  OnlyWhole
  Reencodes
CHECK_DEADLOCK FALSE

SPECIFICATION Spec
CONSTANTS
  Runs = {r1, r2}
  MaxReruns = 1
  Genesis <- Amounts
  NetworkId = 0
  SendAmount = 50
  Margin = 12
  Fee = 2
  MinUtxo = 10
  PageSize = 2
  TtlSpan = 0
  SlotMod = 1000
  UintMod <- Word
  MaxSlot = 1
INVARIANT
  SubmittedWhereListed
CHECK_DEADLOCK FALSE

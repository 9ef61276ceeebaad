SPECIFICATION FairSpec
CONSTANTS
  T1 = T1
  T2 = T2
  Time = Time
  NoItem = NoItem
  NoOne = NoOne
  NoOp = NoOp
  Types <- MCTypes
  Named <- MCNamed
  BuiltIn <- MCBuiltIn
  Nums <- MCNums
  Routines = {g1, g2}
  Ops <- MCOps
INVARIANTS
  TypeOK
  NumsUnique
PROPERTIES
  RefinesRegistry
  EveryCallReturns
CHECK_DEADLOCK FALSE

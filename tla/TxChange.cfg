SPECIFICATION Spec
CONSTANTS
  Head8 = 24
  Head16 = 256
  Head32 = 65536
  Head64 <- LastHead
  InputLen = 36
  UintMod <- Word
  FeeFixed = 155381
  FeePerByte = 44
  AuxSize <- MCAuxSize
  EmptyMeta = 1
  Keys = {k1, k2}
  Addrs = {"base"}
  InputAmounts = {10000000, 1000000}
  OutputAmounts = {1000000}
  ClientFees = {}
  TTLs = {}
  Metas = {1}
  BadMetas = {}
  ScriptLens = {}
  Placeholders = {}
  MaxInputs = 1
  MaxOutputs = 2
  MaxKeys = 2
  MaxBuilds = 1
  MaxAux = 0
INVARIANT
  ChangeIsExcess
CHECK_DEADLOCK FALSE

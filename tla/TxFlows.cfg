SPECIFICATION FlowSpec
CONSTANTS
  Head8 = 24
  Head16 = 256
  Head32 = 65536
  Head64 <- LastHead
  InputLen = 36
  UintMod <- Word
  FeeFixed = 155381
  FeePerByte = 44
  AuxSize <- MCAuxSize
  EmptyMeta = 1
  Keys = {k1, k2}
  Addrs = {"base", "reward"}
  InputAmounts <- MCInputAmounts
  OutputAmounts = {65000}
  ClientFees = {170000}
  TTLs = {55267575}
  Metas = {1, 2, 4}
  BadMetas = {4}
  ScriptLens = {133}
  Placeholders = {2}
  MaxInputs = 2
  MaxOutputs = 2
  MaxKeys = 2
  MaxBuilds = 2
  MaxAux = 2
INVARIANTS
  TypeOK
  ChangeBalances
  FeeCovers
  SignedOnWire
  NoMixedWitnesses
  OneWitnessPerKey
CHECK_DEADLOCK FALSE

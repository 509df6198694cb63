CONSTANTS
  k1 = k1  k2 = k2  i1 = i1  i2 = i2  i3 = i3  NoKey = NoKey
  Keys <- MCKeys
  Items <- MCItems
  KeyOf <- MCKeyOf
  Takers = {}
  Maxes = {0, 1, 2}
  RawPerKey = 2
  RawGlobal = 2
  RawConcurrency = 0
  RawConfigs <- OneConfig
  MaxBurst = 2
SPECIFICATION FairSpec
PROPERTIES EveryItemServed CloseEndsPool
CHECK_DEADLOCK FALSE

CONSTANTS
  k1 = k1  k2 = k2  i1 = i1  i2 = i2  i3 = i3  NoKey = NoKey
  Keys <- MCKeys
  Items <- MCItems
  KeyOf <- MCKeyOf
  Takers = {}
  Maxes = {0, 1, 2}
  RawPerKey = 2
  RawGlobal = 2
  RawConcurrency = 2
  RawConfigs <- MCConfigs
  MaxBurst = 1
SPECIFICATION Spec
INVARIANTS ConsumerTypeOK SerialPerKey ReadyIndexExact NoForgottenKey WorkConserving
PROPERTIES HandlerContract
CHECK_DEADLOCK FALSE
